--------------------------- MODULE ManagerSettings ---------------------------
(* The settings the Manager owns: it applies them as commands arrive, writes  *)
(* them to manager_settings.json, reads them back when it is restarted, and   *)
(* repeats some of them in its heartbeat.  The GNC keeps copies of its own.   *)
(* The relays are settings too, with a restart pulse that opens one for a     *)
(* while.                                                                     *)
(*                                                                            *)
(* A save truncates the file and then writes it: a crash in between leaves it *)
(* torn, and so does an exception, which the code logs and forgets.  A START  *)
(* takes its cruise speed over as it comes: one out of range is saved, and the*)
(* file it is in is read back as nothing.  A configuration is a single value, *)
(* the whole of it in every command (the frontend sends the merged one).      *)
EXTENDS Naturals, Sequences

CONSTANTS
    NumRelays,        \* relays of the ESP32, three in RelayConfig
    PulseTicks,       \* _RELAY_RESTART_SECONDS, in ticks of the Manager
    GncConfigs,       \* values of gnc_config, told apart by the cruise speed
    FailsafeConfigs,  \* values of failsafe_config and home_wp, taken together
    Invalid,          \* a cruise speed that GncConfig() refuses
    DefaultGnc,       \* GncConfig()
    DefaultFailsafe,  \* FailsafeConfig() and no home waypoint
    Torn,             \* what a save that does not end leaves
    MaxCommands,      \* bound: commands in a behaviour
    StatusHWM,        \* high-water mark of system/status
    Crashable,        \* the processes that may crash in this instance
    MaxCrashes        \* bound: crashes in a behaviour

Process == {"manager", "gnc"}

ASSUME ConstantsAssumption ==
    /\ DefaultGnc \in GncConfigs
    /\ DefaultFailsafe \in FailsafeConfigs
    /\ Invalid \notin GncConfigs
    /\ Crashable \subseteq Process
    /\ PulseTicks \in Nat \ {0}
    /\ {NumRelays, MaxCommands, StatusHWM, MaxCrashes} \subseteq Nat

Relays == 0..(NumRelays - 1)
Open == 0
Closed == 1

Held == GncConfigs \union {Invalid}

(* Commands carry any index: NumRelays stands for the ones out of range.      *)
Command ==
    [type : {"SET_GNC_CONFIG", "START"}, value : Held]
        \union [type : {"SET_FAILSAFE_CONFIG"}, value : FailsafeConfigs]
        \union [type : {"SET_RELAY"}, idx : 0..NumRelays, state : {Open, Closed}]
        \union [type : {"RESTART_RELAY"}, idx : 0..NumRelays]

Settings == [gnc : Held, failsafe : FailsafeConfigs,
             relays : [Relays -> {Open, Closed}]]

Defaults == [gnc |-> DefaultGnc, failsafe |-> DefaultFailsafe,
             relays |-> [r \in Relays |-> Closed]]

ASSUME TornAssumption == Torn \notin Settings

(* _load_settings: the defaults, when the file does not parse or GncConfig,   *)
(* which is read first, refuses what is in it.                                *)
Loaded(f) == IF f = Torn \/ f.gnc = Invalid THEN Defaults ELSE f

VARIABLES
    up,       \* the processes that are running
    mgr,      \* the Manager's settings
    until,    \* restart_until: ticks left of each relay's pulse
    file,     \* manager_settings.json: settings, or torn
    saving,   \* the Manager has truncated the file and not written it yet
    ticked,   \* the Manager's tick is past its pulses, before the heartbeat
    gnc,      \* the copies of the GNC
    cmds,     \* command/user: what each process has not consumed yet
    statusQ,  \* system/status: the gnc_config of heartbeats in flight
    sent,     \* commands issued so far
    last,     \* history: the settings the operator asked for, as consumed
    wanted,   \* history: the state each relay is to have without its pulse
    unsaved,  \* history: the last save failed, or its file is not read back
    cut,      \* history: what a crash of the Manager has found unsaved
    crashes   \* crashes so far

history == <<last, wanted, unsaved, cut, crashes>>
vars == <<up, mgr, until, file, saving, ticked, gnc, cmds, statusQ, sent,
          last, wanted, unsaved, cut, crashes>>

GncSettings == [gnc : Held, failsafe : FailsafeConfigs]
NoPulse == [r \in Relays |-> 0]

(* The type invariant: settings and relays are legal wherever a copy of them *)
(* is, also in what the disk holds (manager/process.py, SystemConfig).       *)
TypeOK ==
    /\ up \subseteq Process
    /\ mgr \in Settings
    /\ until \in [Relays -> 0..PulseTicks]
    /\ file \in Settings \union {Torn}
    /\ saving \in BOOLEAN
    /\ ticked \in BOOLEAN
    /\ gnc \in GncSettings
    /\ cmds \in [Process -> Seq(Command)]
    /\ statusQ \in Seq(Held)
    /\ sent \in Nat
    /\ last \in GncSettings
    /\ wanted \in [Relays -> {Open, Closed}]
    /\ unsaved \in BOOLEAN
    /\ cut \subseteq {"save", "pulse"}
    /\ crashes \in Nat

(* Whatever an earlier run has left in the file, the Manager has read it back.*)
Init ==
    /\ up = Process
    /\ file \in Settings \union {Torn}
    /\ mgr = Loaded(file)
    /\ until = NoPulse
    /\ saving = FALSE /\ ticked = FALSE
    /\ gnc = [gnc |-> DefaultGnc, failsafe |-> DefaultFailsafe]
    /\ cmds = [p \in Process |-> <<>>]
    /\ statusQ = <<>>
    /\ sent = 0
    /\ last = [gnc |-> mgr.gnc, failsafe |-> mgr.failsafe]
    /\ wanted = mgr.relays
    /\ unsaved = FALSE
    /\ cut = {} /\ crashes = 0

-----------------------------------------------------------------------------
OperatorSends ==
    /\ sent < MaxCommands
    /\ sent' = sent + 1
    /\ \E c \in Command :
        cmds' = [p \in Process |-> IF p \in up THEN Append(cmds[p], c) ELSE cmds[p]]
    /\ UNCHANGED <<up, mgr, until, file, saving, ticked, gnc, statusQ, history>>

-----------------------------------------------------------------------------
(* ManagerProcess                                                             *)

MgrReady == "manager" \in up /\ ~saving

MgrTakes(t) ==
    /\ MgrReady /\ ~ticked
    /\ cmds["manager"] # <<>>
    /\ Head(cmds["manager"]).type = t
    /\ cmds' = [cmds EXCEPT !["manager"] = Tail(@)]
    /\ UNCHANGED <<up, gnc, ticked, statusQ, sent, cut, crashes>>

MgrCmd == Head(cmds["manager"])

NoSave == UNCHANGED <<saving, file, unsaved>>

(* _save_settings opens the file for writing, which empties it, or fails to;  *)
(* SaveEnds writes it.                                                        *)
SaveBegins ==
    \/ saving' = TRUE /\ file' = Torn /\ UNCHANGED unsaved
    \/ unsaved' = TRUE /\ UNCHANGED <<saving, file>>

(* Mutant: a cruise speed that comes with a START is not saved.               *)
StartUnsaved == NoSave
StartSaved == SaveBegins

Adopted ==
    /\ mgr' = [mgr EXCEPT !.gnc = MgrCmd.value]
    /\ last' = [last EXCEPT !.gnc = MgrCmd.value]
    /\ UNCHANGED <<until, wanted>>

(* SET_GNC_CONFIG is refused when GncConfig() refuses its value.              *)
MgrSetGnc ==
    /\ MgrTakes("SET_GNC_CONFIG")
    /\ IF MgrCmd.value \in GncConfigs
       THEN Adopted /\ SaveBegins
       ELSE UNCHANGED <<mgr, last, until, wanted>> /\ NoSave

(* START_STATION and START_WP_ROUTE assign the cruise speed they carry.       *)
MgrStart == MgrTakes("START") /\ Adopted /\ StartSaved

MgrSetFailsafe ==
    /\ MgrTakes("SET_FAILSAFE_CONFIG")
    /\ mgr' = [mgr EXCEPT !.failsafe = MgrCmd.value]
    /\ last' = [last EXCEPT !.failsafe = MgrCmd.value]
    /\ SaveBegins
    /\ UNCHANGED <<until, wanted>>

(* Mutant: a manual override leaves a pending pulse alone.                    *)
PulseKept(pulses, r) == pulses
PulseCancelled(pulses, r) == [pulses EXCEPT ![r] = 0]

MgrSetRelay ==
    /\ MgrTakes("SET_RELAY")
    /\ LET r == MgrCmd.idx
           s == MgrCmd.state
       IN  IF r \in Relays
           THEN /\ mgr' = [mgr EXCEPT !.relays[r] = s]
                /\ until' = PulseCancelled(until, r)
                /\ wanted' = [wanted EXCEPT ![r] = s]
                /\ SaveBegins
           ELSE UNCHANGED <<mgr, until, wanted>> /\ NoSave
    /\ UNCHANGED last

(* The pulse opens the relay and leaves the file alone.                       *)
MgrRestartRelay ==
    /\ MgrTakes("RESTART_RELAY")
    /\ LET r == MgrCmd.idx
       IN  IF r \in Relays
           THEN /\ mgr' = [mgr EXCEPT !.relays[r] = Open]
                /\ until' = [until EXCEPT ![r] = PulseTicks]
                /\ wanted' = [wanted EXCEPT ![r] = Closed]
           ELSE UNCHANGED <<mgr, until, wanted>>
    /\ NoSave
    /\ UNCHANGED last

(* _tick_relay_restart: the pulses that have run out close their relays.      *)
Expired == {r \in Relays : until[r] = 1}

CountedDown(ticks) == IF ticks = 0 THEN 0 ELSE ticks - 1

(* The relays are closed again and one save covers them all.                  *)
MgrTick ==
    /\ MgrReady /\ ~ticked
    /\ ticked' = TRUE
    /\ until' = [r \in Relays |-> CountedDown(until[r])]
    /\ mgr' = [mgr EXCEPT !.relays = [r \in Relays |-> IF r \in Expired THEN Closed ELSE @[r]]]
    /\ IF Expired = {} THEN NoSave ELSE SaveBegins
    /\ UNCHANGED <<up, gnc, cmds, statusQ, sent, last, wanted, cut, crashes>>

SaveEnds ==
    /\ "manager" \in up /\ saving
    /\ saving' = FALSE
    /\ file' = mgr
    /\ unsaved' = (mgr.gnc = Invalid)
    /\ UNCHANGED <<up, mgr, until, ticked, gnc, cmds, statusQ, sent,
                   last, wanted, cut, crashes>>

(* An exception while it is written is logged; the file stays torn.           *)
SaveFails ==
    /\ "manager" \in up /\ saving
    /\ saving' = FALSE
    /\ unsaved' = TRUE
    /\ UNCHANGED <<up, mgr, until, file, ticked, gnc, cmds, statusQ, sent,
                   last, wanted, cut, crashes>>

MgrHeartbeat ==
    /\ MgrReady /\ ticked
    /\ ticked' = FALSE
    /\ statusQ' = IF "gnc" \in up /\ Len(statusQ) < StatusHWM
                  THEN Append(statusQ, mgr.gnc) ELSE statusQ
    /\ UNCHANGED <<up, mgr, until, file, saving, gnc, cmds, sent, history>>

MgrCommand == MgrSetGnc \/ MgrStart \/ MgrSetFailsafe \/ MgrSetRelay \/ MgrRestartRelay

-----------------------------------------------------------------------------
(* GNCProcess                                                                 *)

(* Mutant: the heartbeat's gnc_config is not taken over.                      *)
HeardNothing(config) == gnc
Heard(config) == IF config \in GncConfigs THEN [gnc EXCEPT !.gnc = config] ELSE gnc

(* A START is refused, cruise speed and all, while the vehicle is not armed.  *)
GncApplies(c) ==
    CASE c.type = "SET_GNC_CONFIG"      -> {Heard(c.value)}
      [] c.type = "START"               -> {gnc, [gnc EXCEPT !.gnc = c.value]}
      [] c.type = "SET_FAILSAFE_CONFIG" -> {[gnc EXCEPT !.failsafe = c.value]}
      [] OTHER                          -> {gnc}

GncCommand ==
    /\ "gnc" \in up
    /\ cmds["gnc"] # <<>>
    /\ gnc' \in GncApplies(Head(cmds["gnc"]))
    /\ cmds' = [cmds EXCEPT !["gnc"] = Tail(@)]
    /\ UNCHANGED <<up, mgr, until, file, saving, ticked, statusQ, sent, history>>

(* The heartbeat carries the failsafe settings too; the GNC takes gnc_config, *)
(* when GncConfig() takes it.                                                 *)
GncHeartbeat ==
    /\ "gnc" \in up
    /\ statusQ # <<>>
    /\ gnc' = Heard(Head(statusQ))
    /\ statusQ' = Tail(statusQ)
    /\ UNCHANGED <<up, mgr, until, file, saving, ticked, cmds, sent, history>>

-----------------------------------------------------------------------------
Crash(p) ==
    /\ p \in Crashable \intersect up
    /\ crashes < MaxCrashes
    /\ crashes' = crashes + 1
    /\ up' = up \ {p}
    /\ cmds' = [cmds EXCEPT ![p] = <<>>]
    /\ statusQ' = IF p = "gnc" THEN <<>> ELSE statusQ
    /\ cut' = IF p = "gnc" THEN cut
              ELSE cut \union {k \in {"save"} : saving \/ unsaved}
                       \union {k \in {"pulse"} : until # NoPulse}
    /\ UNCHANGED <<mgr, until, file, saving, ticked, gnc, sent, last, wanted, unsaved>>

MgrRestart ==
    /\ "manager" \notin up
    /\ up' = up \union {"manager"}
    /\ mgr' = Loaded(file)
    /\ until' = NoPulse
    /\ saving' = FALSE /\ ticked' = FALSE
    /\ unsaved' = FALSE
    /\ UNCHANGED <<file, gnc, cmds, statusQ, sent, last, wanted, cut, crashes>>

GncRestart ==
    /\ "gnc" \notin up
    /\ up' = up \union {"gnc"}
    /\ gnc' = [gnc |-> DefaultGnc, failsafe |-> DefaultFailsafe]
    /\ UNCHANGED <<mgr, until, file, saving, ticked, cmds, statusQ, sent, history>>

Next ==
    \/ OperatorSends
    \/ MgrCommand \/ MgrTick \/ SaveEnds \/ SaveFails \/ MgrHeartbeat
    \/ GncCommand \/ GncHeartbeat
    \/ \E p \in Crashable : Crash(p)
    \/ MgrRestart \/ GncRestart

(* Both loops run for ever and the watchdog restarts them.  The Manager's tick*)
(* drains its commands first, the GNC's its commands before its heartbeats.   *)
Fairness ==
    /\ SF_vars(MgrCommand) /\ WF_vars(MgrTick) /\ WF_vars(SaveEnds \/ SaveFails)
    /\ WF_vars(MgrHeartbeat) /\ WF_vars(GncCommand) /\ WF_vars(GncHeartbeat)
    /\ WF_vars(MgrRestart) /\ WF_vars(GncRestart)

Spec == Init /\ [][Next]_vars
FairSpec == Spec /\ Fairness

-----------------------------------------------------------------------------
(* A Manager that crashes comes back with the last values it had consumed,    *)
(* unless the crash found them unsaved: inside a save, or after a save that   *)
(* failed or wrote a cruise speed out of range and that no good save followed *)
(* (_save_settings after every change, _load_settings).                       *)
NoSettingLost ==
    "manager" \in up /\ "save" \notin cut =>
        [gnc |-> mgr.gnc, failsafe |-> mgr.failsafe] = last

(* A relay without a pulse is in the state it was last asked for: an override *)
(* in the middle of a pulse is not undone by the end of the pulse.            *)
RelayAsCommanded ==
    "manager" \in up /\ cut = {} =>
        \A r \in Relays : until[r] = 0 => mgr.relays[r] = wanted[r]

(* The GNC's controller settings converge to the Manager's, whatever either of*)
(* them missed: the heartbeat repeats them, and the GNC refuses them only when*)
(* the Manager holds a cruise speed out of range.                             *)
GncConfigAgrees == <>[](mgr.gnc \in GncConfigs => gnc.gnc = mgr.gnc)

(* So do the settings of its failsafes (they are saved and repeated as well). *)
FailsafeAgrees == <>[](gnc.failsafe = mgr.failsafe)
=============================================================================
