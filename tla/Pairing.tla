------------------------------- MODULE Pairing -------------------------------
(***************************************************************************)
(* Pairing a phone: the helper process (command pairing-complete of        *)
(* src/src/blueferry/cli.py) that runs complete_pairing() of pair_setup.py *)
(* with the agent of pairing_agent.py, the client that shows its questions *)
(* (SetupClient.complete_isolated() of setup_client.py), and BlueZ with    *)
(* the phone.                                                              *)
(*                                                                         *)
(* The helper is one thread: pc names the function it is in.  Agent calls  *)
(* of BlueZ wait until the helper dispatches GLib; each confirmation is    *)
(* then a thread that asks the client and reads the answer from stdin.     *)
(* Confirmation requests are numbered; a number stands for its passkey.    *)
(***************************************************************************)
EXTENDS Naturals, Sequences, FiniteSets

CONSTANTS
    Runs,           \* records of explicit and limited (the user's --explicit-pairing and
                    \* --compatibility-mode), capable, advertises and le (what the controller
                    \* can do, and LE being on), replaces ("none", "same" or "other":
                    \* --replace-saved-mac) and was (Adapter1.Pairable)
    MaxRequests,    \* bound of the confirmation requests of BlueZ
    MaxLosses,      \* bound of device objects or bonds that vanish
    None

VARIABLES
    helper,         \* the helper process
    bluez,          \* BlueZ and the phone
    asks,           \* the confirmations that wait for the client's answer, oldest first
    disk,           \* the saved target and the user service
    ghost           \* the requests the user accepted, and whether the phone was ever paired

pairingVars == <<helper, bluez, asks, disk, ghost>>

\* window: what _pairable_window() restores, or None; agent, advert, scan: registered here;
\* known: device.paired when it was loaded; again: the one retry of Connect was used;
\* forgets: the saved device is to be removed; unsure: a call that sets Pairable failed.
Init ==
    /\ \E run \in Runs, present, paired \in BOOLEAN :
           /\ helper = [run |-> run, pc |-> "bind", err |-> FALSE, window |-> None, agent |-> FALSE,
                        advert |-> FALSE, scan |-> FALSE, known |-> FALSE, again |-> FALSE,
                        forgets |-> FALSE, unsure |-> FALSE, replied |-> None, killed |-> FALSE]
           /\ bluez = [present |-> present \/ paired, paired |-> paired, connected |-> FALSE,
                       trusted |-> FALSE, pairable |-> run.was, other |-> run.replaces = "other",
                       calling |-> FALSE, request |-> None, made |-> 0, losses |-> 0]
           /\ disk = [target |-> IF run.replaces = "none" THEN None ELSE "old",
                      service |-> run.replaces # "none"]
           /\ ghost = [accepted |-> {}, bonded |-> paired, used |-> {}]
    /\ asks = <<>>

\* resolve_pairing_policy(), for an interactive run.
Policy(run) ==
    [iphone |-> ~run.explicit,
     ancs |-> run.capable /\ ~run.limited,
     solicit |-> run.le /\ (run.capable \/ run.advertises)]

policy == Policy(helper.run)

At(pc) == helper.pc = pc
Go(h, pc) == [h EXCEPT !.pc = pc]

\* An exception: the window's finally and then the cleanup run, if they were entered.
Raise(h) ==
    [h EXCEPT !.err = TRUE, !.scan = FALSE,
              !.pc = IF h.pc \in {"bind", "find", "stop", "remove", "clear", "prepare", "probe", "classic", "audio", "final"}
                     THEN "ended" ELSE IF h.window # None THEN "shut" ELSE "cleanup"]

Quiet == UNCHANGED <<bluez, asks, disk, ghost>>

-----------------------------------------------------------------------------
(* Replacing the saved target: prepare_target_replacement() and forget_device(). *)

\* The client approves that the phone is bound, or does not: it is waited for as long as it
\* takes.
Bind ==
    /\ At("bind")
    /\ \/ helper' = Go(helper, IF helper.run.replaces = "none" THEN "prepare" ELSE "find")
       \/ helper' = Raise(helper)
    /\ Quiet

\* Only an unpaired device that is also the one being selected is kept.
Forgets == helper.run.replaces = "other" \/ bluez.paired

\* The controller is asked whether it can pair; then the saved device is looked at.
FindPrevious ==
    /\ At("find")
    /\ \/ helper' = [Go(helper, "stop") EXCEPT !.forgets = Forgets]
       \/ helper' = Raise(helper)
    /\ Quiet

StopUserService ==
    /\ At("stop")
    /\ \/ disk' = [disk EXCEPT !.service = FALSE] /\ helper' = Go(helper, "remove")
       \/ UNCHANGED disk /\ helper' = Raise(helper)
    /\ UNCHANGED <<bluez, asks, ghost>>

Removed ==
    IF helper.run.replaces = "other" THEN [bluez EXCEPT !.other = FALSE]
    ELSE [bluez EXCEPT !.present = FALSE, !.paired = FALSE, !.connected = FALSE, !.trusted = FALSE]

\* Adapter1.RemoveDevice: a call that times out may have been carried out.
RemoveDevice ==
    /\ At("remove")
    /\ \/ helper' = Go(helper, "clear") /\ bluez' = IF helper.forgets THEN Removed ELSE bluez
       \/ helper.forgets /\ helper' = Raise(helper) /\ bluez' \in {bluez, Removed}
    /\ UNCHANGED <<asks, disk, ghost>>

\* What was verified of the old target is cleared after it, and may fail alone.
ClearLocalTarget ==
    /\ At("clear")
    /\ LET cleared == [disk EXCEPT !.target = None]
       IN \/ disk' = cleared /\ helper' = Go(helper, "prepare")
          \/ disk' \in {disk, cleared} /\ helper' = Raise(helper)
    /\ UNCHANGED <<bluez, asks, ghost>>

-----------------------------------------------------------------------------
(* _execute_pairing() *)

\* _prepare_pairing(): without the device the run ends.
LoadDevice ==
    /\ At("prepare")
    /\ \/ bluez.present /\ helper' = [Go(helper, "probe") EXCEPT !.known = bluez.paired]
       \/ ~bluez.present /\ helper' = Raise(helper)
    /\ Quiet

\* _reprobe_disabled_le(): bluetoothd may switch LE on while the controller is read again.
ReprobeDisabledLe ==
    /\ At("probe") /\ ~helper.run.le /\ ~helper.run.limited
    /\ helper' = [helper EXCEPT !.run.le = TRUE]
    /\ Quiet

\* With LE off, full setup ends before any bond or advertisement.
CheckPolicy ==
    /\ At("probe")
    /\ \/ (policy.ancs => helper.run.le) /\ helper' = Go(helper, "classic")
       \/ helper' = Raise(helper)
    /\ Quiet

PrepareClassic ==
    /\ At("classic")
    /\ \/ helper' = Go(helper, IF policy.iphone /\ ~helper.known THEN "audio"
                               ELSE IF helper.known THEN "trust" ELSE "window")
       \/ helper' = Raise(helper)
    /\ Quiet

WaitForAudioProfiles ==
    /\ At("audio") /\ (helper' = Go(helper, "window") \/ helper' = Raise(helper)) /\ Quiet

\* Adapter1.Pairable is set; a call that failed was carried out or was not.
Set(value, ok) ==
    bluez' \in {[bluez EXCEPT !.pairable = v] : v \in IF ok THEN {value} ELSE {value, bluez.pairable}}

\* _pairable_window(): a failing call is logged, and nothing is restored then.
OpenWindow ==
    /\ At("window")
    /\ \/ helper' = [Go(helper, "agent") EXCEPT !.window = bluez.pairable] /\ Set(TRUE, TRUE)
       \/ helper' = Go(helper, "agent") /\ UNCHANGED bluez
       \/ /\ ~bluez.pairable /\ Set(TRUE, FALSE)
          /\ helper' = [Go(helper, "agent") EXCEPT !.unsure = TRUE]
    /\ UNCHANGED <<asks, disk, ghost>>

\* RegisteredPairingAgent.__enter__()
RegisterAgent ==
    /\ At("agent")
    /\ \/ helper' = [Go(helper, IF policy.iphone THEN "connect" ELSE "pair") EXCEPT !.agent = TRUE]
       \/ helper' = Raise(helper)
    /\ Quiet

\* _connect_classic() and pair() send their call, and dispatch until it is answered.
SendCall ==
    /\ helper.pc \in {"connect", "pair"}
    /\ helper' = [Go(helper, IF At("connect") THEN "connecting" ELSE "pairing") EXCEPT !.replied = None]
    /\ bluez' = [bluez EXCEPT !.calling = TRUE]
    /\ UNCHANGED <<asks, disk, ghost>>

\* BlueZ answers: what it says depends on the device.
CallReplies ==
    /\ bluez.calling
    /\ \E reply \in IF ~bluez.present THEN {"missing"}
                    ELSE {"ok", "progress", "refused", "failed"} :
           /\ helper.pc = "pairing" /\ reply = "ok" => bluez.paired
           /\ helper' = [helper EXCEPT !.replied = reply]
           /\ bluez' = [bluez EXCEPT !.calling = FALSE,
                            !.connected = @ \/ (reply = "ok" /\ At("connecting"))]
    /\ UNCHANGED <<asks, disk, ghost>>

\* The reply of Connect, or its timeout, which is taken for success.
ConnectEnds ==
    /\ At("connecting")
    /\ LET reply == helper.replied
           sent == [helper EXCEPT !.scan = FALSE]
       IN \/ reply = None /\ bluez.calling /\ helper' = Go(sent, "waiting")
          \/ reply \in {"ok", "progress"} /\ helper' = Go(sent, "waiting")
          \/ /\ reply = "missing"
             /\ helper' = IF helper.again THEN Raise(helper)
                          ELSE [Go(helper, "rediscover") EXCEPT !.again = TRUE]
          \/ reply = "refused" /\ bluez.paired /\ helper' = Go(sent, "waiting")
          \/ reply = "refused" /\ helper' = Raise(helper)
          \/ reply = "failed" /\ helper' = Raise(helper)
    /\ Quiet

\* _rediscover_pairing_device(): the scan lasts until the second Connect was answered.
Rediscover ==
    /\ At("rediscover")
    /\ \/ bluez.present /\ helper' = Go(helper, "connect")
       \/ ~bluez.present /\ ~helper.scan /\ helper' = [helper EXCEPT !.scan = TRUE]
       \/ ~bluez.present /\ helper' = Raise(helper)
    /\ Quiet

\* wait_for_pair(): polls while it dispatches.
WaitForPair ==
    /\ At("waiting")
    /\ (bluez.paired /\ helper' = Go(helper, "settled")) \/ helper' = Raise(helper)
    /\ Quiet

\* The reply of Pair; another transaction under way is waited for.
PairEnds ==
    /\ At("pairing")
    /\ \/ helper.replied \in {"ok", "progress"} /\ helper' = Go(helper, "settled")
       \/ helper.replied \in {"missing", "refused", "failed"} /\ helper' = Raise(helper)
       \/ helper.replied = None /\ helper' = Raise(helper)
    /\ Quiet

\* _wait_for_paired_device(): sleeps, and dispatches nothing.
WaitForPairedDevice ==
    /\ At("settled")
    /\ \/ /\ bluez.present /\ bluez.paired
          /\ helper' = Go(helper, IF helper.window = None THEN "trust" ELSE "shut")
       \/ helper' = Raise(helper)
    /\ Quiet

\* Mutant: Pairable is left as the transaction had it.
ShutNothing(h) == bluez.pairable

Restored(h) == h.window

\* The finally of _pairable_window(): a failing call is logged here too.
ShutWindow ==
    /\ At("shut")
    /\ \E ok \in BOOLEAN :
           /\ Set(Restored(helper), ok)
           /\ helper' = [Go(helper, IF helper.err THEN "cleanup" ELSE "trust") EXCEPT
                            !.window = None, !.unsure = @ \/ ~ok]
    /\ UNCHANGED <<asks, disk, ghost>>

\* trust_device()
TrustDevice ==
    /\ At("trust")
    /\ \/ bluez.present /\ bluez' = [bluez EXCEPT !.trusted = TRUE] /\ helper' = Go(helper, "settle")
       \/ UNCHANGED bluez /\ helper' = Raise(helper)
    /\ UNCHANGED <<asks, disk, ghost>>

\* _wait_for_classic_settled(), which dispatches, between the two preferred bearers.
WaitForClassicSettled ==
    /\ At("settle")
    /\ (bluez.connected /\ helper' = Go(helper, "solicit")) \/ helper' = Raise(helper)
    /\ Quiet

\* _register_solicitation(): without the advertisement, setup goes on.
RegisterSolicitation ==
    /\ At("solicit")
    /\ \E advert \in {FALSE, policy.solicit} : helper' = [Go(helper, "save") EXCEPT !.advert = advert]
    /\ Quiet

\* write_local_env()
WriteLocalEnv ==
    /\ At("save")
    /\ \/ disk' = [disk EXCEPT !.target = "new"] /\ helper' = Go(helper, "restart")
       \/ UNCHANGED disk /\ helper' = Raise(helper)
    /\ UNCHANGED <<bluez, asks, ghost>>

RestartUserService ==
    /\ At("restart")
    /\ \/ disk' = [disk EXCEPT !.service = TRUE] /\ helper' = Go(helper, "transports")
       \/ UNCHANGED disk /\ helper' = Raise(helper)
    /\ UNCHANGED <<bluez, asks, ghost>>

\* _wait_for_daemon_transports(): what is ready within its time.
WaitForDaemonTransports == At("transports") /\ helper' = Go(helper, "cleanup") /\ Quiet

CleanupPairingResources ==
    /\ At("cleanup")
    /\ helper' = [Go(helper, IF helper.err THEN "ended" ELSE "final") EXCEPT !.advert = FALSE, !.agent = FALSE]
    \* UnregisterAgent cancels what BlueZ asked this agent.
    /\ bluez' = [bluez EXCEPT !.request = None]
    /\ UNCHANGED <<asks, disk, ghost>>

FinalDevice ==
    /\ At("final")
    /\ helper' = IF bluez.present THEN Go(helper, "ended") ELSE Raise(helper)
    /\ Quiet

-----------------------------------------------------------------------------
(* The agent, the client and the phone. *)

Dispatching == helper.pc \in {"connecting", "waiting", "pairing", "settle", "solicit"}

\* BlueZ asks the agent: the phone authenticates, or Device1.Pair is under way.
Authenticate ==
    /\ bluez.present /\ ~bluez.paired /\ bluez.request = None /\ bluez.made < MaxRequests
    /\ helper.agent
    /\ (policy.iphone /\ bluez.pairable) \/ (~policy.iphone /\ bluez.calling)
    /\ bluez' = [bluez EXCEPT !.request = [id |-> bluez.made + 1, dispatched |-> FALSE], !.made = @ + 1,
                              !.connected = TRUE]
    /\ UNCHANGED <<helper, asks, disk, ghost>>

\* RequestConfirmation(), and a request for another device, which is rejected.
RequestConfirmation ==
    /\ Dispatching /\ bluez.request # None /\ ~bluez.request.dispatched
    /\ bluez' = [bluez EXCEPT !.request.dispatched = TRUE]
    /\ asks' = Append(asks, bluez.request.id)
    /\ UNCHANGED <<helper, disk, ghost>>

\* BlueZ or the phone gives a request up; the client's dialog stays.
RequestCancelled ==
    /\ bluez.request # None
    /\ bluez' = [bluez EXCEPT !.request = None]
    /\ UNCHANGED <<helper, asks, disk, ghost>>

\* The client answers its dialogs in their order, and the oldest thread reads the answer.
Answered == Head(asks)

UserAnswers(accepts) ==
    /\ asks # <<>> /\ helper.pc # "ended"
    /\ asks' = Tail(asks)
    /\ LET own == bluez.request # None /\ bluez.request.id = Answered
       IN /\ bluez' = IF ~own THEN bluez
                      ELSE [bluez EXCEPT !.request = None, !.paired = @ \/ accepts]
          /\ ghost' = [ghost EXCEPT !.accepted = IF accepts THEN @ \union {Head(asks)} ELSE @,
                                    !.used = IF accepts /\ own THEN @ \union {bluez.request.id} ELSE @,
                                    !.bonded = @ \/ (own /\ accepts)]
    /\ UNCHANGED <<helper, disk>>

\* An unpaired discovery record expires; a bond is removed elsewhere, or on the phone.
Vanishes ==
    /\ bluez.losses < MaxLosses /\ bluez.present
    /\ bluez' = [bluez EXCEPT !.losses = @ + 1, !.present = FALSE, !.paired = FALSE, !.connected = FALSE,
                              !.trusted = FALSE, !.request = None]
    /\ UNCHANGED <<helper, asks, disk, ghost>>

Found ==
    /\ ~bluez.present /\ helper.scan
    /\ bluez' = [bluez EXCEPT !.present = TRUE]
    /\ UNCHANGED <<helper, asks, disk, ghost>>

PhoneLinks ==
    /\ bluez.paired /\ ~bluez.connected
    /\ bluez' = [bluez EXCEPT !.connected = TRUE]
    /\ UNCHANGED <<helper, asks, disk, ghost>>

\* _stop_helper(): the client gave up.  What is registered on the helper's connection goes
\* with it; Adapter1.Pairable stays.
StopHelper ==
    /\ helper.pc # "ended"
    /\ helper' = [Go(helper, "ended") EXCEPT !.err = TRUE, !.killed = TRUE, !.agent = FALSE,
                                             !.advert = FALSE, !.scan = FALSE]
    /\ bluez' = [bluez EXCEPT !.request = None, !.calling = FALSE]
    /\ asks' = <<>>
    /\ UNCHANGED <<disk, ghost>>

-----------------------------------------------------------------------------
Step ==
    \/ FindPrevious \/ StopUserService \/ RemoveDevice \/ ClearLocalTarget \/ LoadDevice
    \/ ReprobeDisabledLe \/ CheckPolicy \/ PrepareClassic \/ WaitForAudioProfiles \/ OpenWindow \/ RegisterAgent \/ SendCall \/ ConnectEnds \/ Rediscover
    \/ WaitForPair \/ PairEnds \/ WaitForPairedDevice \/ ShutWindow \/ TrustDevice \/ WaitForClassicSettled
    \/ RegisterSolicitation \/ WriteLocalEnv \/ RestartUserService \/ WaitForDaemonTransports
    \/ CleanupPairingResources \/ FinalDevice

Next ==
    \/ Bind \/ Step \/ CallReplies \/ Authenticate \/ RequestConfirmation \/ RequestCancelled
    \/ (\E accepts \in BOOLEAN : UserAnswers(accepts)) \/ Vanishes \/ Found \/ PhoneLinks \/ StopHelper

\* The helper runs: once it is bound, every wait of its has a deadline.  Nothing is assumed
\* of BlueZ, the phone, the user or the client, whose answer Bind waits for.
FairStep(k) == IF k = 1 THEN Step ELSE FALSE

Spec == Init /\ [][Next]_pairingVars /\ WF_pairingVars(Step)

-----------------------------------------------------------------------------
(* A run that ended by itself leaves the adapter as it was: Pairable is restored, unless a
   call that sets it failed, and neither agent, advertisement nor scan of it remains
   (_pairable_window(), _cleanup_pairing_resources(), _rediscover_pairing_device()). *)
LeftAsFound ==
    helper.pc = "ended" /\ ~helper.killed =>
        /\ bluez.pairable = helper.run.was \/ helper.unsure
        /\ helper.window = None
        /\ ~helper.agent /\ ~helper.advert /\ ~helper.scan

(* The phone is bonded only by an answer to its own passkey: an answer to a dialog whose
   request was given up never confirms the next one (_confirm_deferred()).  A target is
   saved, and the solicitation advertised, only for a phone that was bonded, never without
   LE, and the target before it is lost only once its bond is removed. *)
BondedByOwnAnswer ==
    /\ ghost.used \subseteq ghost.accepted
    /\ helper.advert \/ disk.target = "new" => ghost.bonded
    /\ helper.advert => helper.run.le
    /\ disk.target = None => ~bluez.other

(* Clearing a stale target keeps the scan result that is about to be paired
   (prepare_target_replacement()). *)
KeepsScanStep == ~bluez.paired /\ bluez.present /\ ~bluez'.present => bluez'.losses > bluez.losses

(* A run that was bound ends, whatever BlueZ, the phone and the user do or leave undone. *)
PairingEnds == helper.pc # "bind" ~> helper.pc = "ended"

PairingSound == [](LeftAsFound /\ BondedByOwnAnswer) /\ [][KeepsScanStep]_pairingVars /\ PairingEnds
=============================================================================
