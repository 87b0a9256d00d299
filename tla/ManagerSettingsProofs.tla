------------------------ MODULE ManagerSettingsProofs ------------------------
(* Which settings survive a crash, and that no override of a relay is undone, *)
(* for any number of relays, any values, crashes of both processes at any     *)
(* point and saves that fail.                                                 *)
EXTENDS ManagerSettings, SequenceTheorems, TLAPS

(* What the Manager holds is what it was asked for, and so is what it would   *)
(* read back, unless the last save failed.                                    *)
SettingsKept ==
    "save" \notin cut =>
        /\ "manager" \in up => mgr.gnc = last.gnc /\ mgr.failsafe = last.failsafe
        /\ ~saving /\ ~unsaved => /\ Loaded(file).gnc = last.gnc
                                  /\ Loaded(file).failsafe = last.failsafe
        /\ saving \/ unsaved => "manager" \in up

(* The same of each relay without a pulse; a pulse will close its relay.      *)
RelayKept(r) ==
    cut = {} =>
        /\ until[r] = 0 => /\ "manager" \in up => mgr.relays[r] = wanted[r]
                           /\ ~saving /\ ~unsaved => Loaded(file).relays[r] = wanted[r]
        /\ until[r] # 0 => "manager" \in up /\ wanted[r] = Closed

IInv == TypeOK /\ SettingsKept /\ \A r \in Relays : RelayKept(r)

-----------------------------------------------------------------------------
(* Consuming the head of a process's queue, or losing the queue, leaves a     *)
(* family of command queues.                                                  *)
LEMMA ConsumeType ==
    ASSUME NEW q \in [Process -> Seq(Command)], NEW p \in Process, q[p] # <<>>
    PROVE  /\ [q EXCEPT ![p] = Tail(@)] \in [Process -> Seq(Command)]
           /\ Head(q[p]) \in Command
<1>1. q[p] \in Seq(Command)
  OBVIOUS
<1>2. Tail(q[p]) \in Seq(Command) /\ Head(q[p]) \in Command
  BY <1>1, HeadTailProperties
<1> QED  BY <1>2

LEMMA DropType ==
    ASSUME NEW q \in [Process -> Seq(Command)], NEW p
    PROVE  [q EXCEPT ![p] = <<>>] \in [Process -> Seq(Command)]
<1>1. <<>> \in Seq(Command)
  OBVIOUS
<1> QED  BY <1>1

(* What the Manager takes from its queue, by the type of the command.         *)
LEMMA TakenType ==
    ASSUME TypeOK, NEW t, MgrTakes(t)
    PROVE  /\ cmds' \in [Process -> Seq(Command)]
           /\ MgrCmd \in Command /\ MgrCmd.type = t
           /\ "manager" \in up /\ ~saving
<1>1. "manager" \in Process
  BY DEF Process
<1>2. cmds["manager"] # <<>>
  BY DEF MgrTakes
<1>3. cmds \in [Process -> Seq(Command)]
  BY DEF TypeOK
<1>4. cmds' = [cmds EXCEPT !["manager"] = Tail(@)]
  BY DEF MgrTakes
<1>5. cmds' \in [Process -> Seq(Command)] /\ Head(cmds["manager"]) \in Command
  BY <1>1, <1>2, <1>3, <1>4, ConsumeType
<1> QED  BY <1>5 DEF MgrTakes, MgrReady, MgrCmd

(* A save that begins has emptied the file, or it has failed: in both cases   *)
(* what would be read back is of no account until a save ends.                *)
LEMMA SaveBegun ==
    ASSUME TypeOK, SaveBegins, ~saving
    PROVE  /\ saving' \in BOOLEAN /\ unsaved' \in BOOLEAN
           /\ file' \in Settings \union {Torn}
           /\ saving' \/ unsaved'
BY DEF SaveBegins, TypeOK

-----------------------------------------------------------------------------
(* The Manager's commands.                                                    *)
LEMMA AdoptedInv ==
    ASSUME IInv, NEW t \in {"SET_GNC_CONFIG", "START"}, MgrTakes(t),
           Adopted, SaveBegins
    PROVE  IInv'
<1>1. TypeOK
  BY DEF IInv
<1>2. /\ cmds' \in [Process -> Seq(Command)]
      /\ MgrCmd \in Command /\ MgrCmd.type = t
      /\ "manager" \in up /\ ~saving
  BY <1>1, TakenType
<1>3. MgrCmd.value \in Held
  BY <1>2 DEF Command
<1>4. /\ mgr' = [mgr EXCEPT !.gnc = MgrCmd.value]
      /\ last' = [last EXCEPT !.gnc = MgrCmd.value]
      /\ UNCHANGED <<until, wanted, up, gnc, ticked, statusQ, sent, cut, crashes>>
  BY DEF Adopted, MgrTakes
<1>5. TypeOK'
  BY <1>1, <1>2, <1>3, <1>4, SaveBegun DEF TypeOK, Settings, GncSettings
<1>6. SettingsKept'
  BY <1>1, <1>2, <1>4, SaveBegun DEF IInv, TypeOK, SettingsKept, Settings, GncSettings
<1>7. ASSUME NEW r \in Relays PROVE RelayKept(r)'
  BY <1>1, <1>2, <1>4, SaveBegun DEF IInv, TypeOK, RelayKept, Settings
<1> QED  BY <1>5, <1>6, <1>7 DEF IInv

LEMMA SetGncInv == IInv /\ (MgrSetGnc \/ MgrStart) => IInv'
<1> SUFFICES ASSUME IInv, MgrSetGnc \/ MgrStart PROVE IInv'
  OBVIOUS
<1>1. CASE MgrStart
  BY <1>1, AdoptedInv DEF MgrStart, StartSaved
<1>2. CASE MgrSetGnc /\ MgrCmd.value \in GncConfigs
  BY <1>2, AdoptedInv DEF MgrSetGnc
<1>3. CASE MgrSetGnc /\ MgrCmd.value \notin GncConfigs
  <2>1. TypeOK
    BY DEF IInv
  <2>2. cmds' \in [Process -> Seq(Command)]
    BY <1>3, <2>1, TakenType DEF MgrSetGnc
  <2>3. UNCHANGED <<up, mgr, until, file, saving, ticked, gnc, statusQ, sent,
                    last, wanted, unsaved, cut, crashes>>
    BY <1>3 DEF MgrSetGnc, MgrTakes, NoSave
  <2> QED  BY <2>1, <2>2, <2>3 DEF IInv, TypeOK, SettingsKept, RelayKept
<1> QED  BY <1>1, <1>2, <1>3

LEMMA SetFailsafeInv == IInv /\ MgrSetFailsafe => IInv'
<1> SUFFICES ASSUME IInv, MgrSetFailsafe PROVE IInv'
  OBVIOUS
<1>1. TypeOK
  BY DEF IInv
<1>2. MgrTakes("SET_FAILSAFE_CONFIG")
  BY DEF MgrSetFailsafe
<1>3. /\ cmds' \in [Process -> Seq(Command)]
      /\ MgrCmd \in Command /\ MgrCmd.type = "SET_FAILSAFE_CONFIG"
      /\ "manager" \in up /\ ~saving
  BY <1>1, <1>2, TakenType
<1>4. MgrCmd.value \in FailsafeConfigs
  BY <1>3 DEF Command
<1>5. /\ mgr' = [mgr EXCEPT !.failsafe = MgrCmd.value]
      /\ last' = [last EXCEPT !.failsafe = MgrCmd.value]
      /\ UNCHANGED <<until, wanted, up, gnc, ticked, statusQ, sent, cut, crashes>>
      /\ SaveBegins
  BY DEF MgrSetFailsafe, MgrTakes
<1>6. TypeOK'
  BY <1>1, <1>3, <1>4, <1>5, SaveBegun DEF TypeOK, Settings, GncSettings
<1>7. SettingsKept'
  BY <1>1, <1>3, <1>5, SaveBegun DEF IInv, TypeOK, SettingsKept, Settings, GncSettings
<1>8. ASSUME NEW r \in Relays PROVE RelayKept(r)'
  BY <1>1, <1>3, <1>5, SaveBegun DEF IInv, TypeOK, RelayKept, Settings
<1> QED  BY <1>6, <1>7, <1>8 DEF IInv

(* Setting a relay cancels its pulse, in memory and in what will be saved.    *)
LEMMA SetRelayInv == IInv /\ MgrSetRelay => IInv'
<1> SUFFICES ASSUME IInv, MgrSetRelay PROVE IInv'
  OBVIOUS
<1>1. TypeOK
  BY DEF IInv
<1>2. MgrTakes("SET_RELAY")
  BY DEF MgrSetRelay
<1>3. /\ cmds' \in [Process -> Seq(Command)]
      /\ MgrCmd \in Command /\ MgrCmd.type = "SET_RELAY"
      /\ "manager" \in up /\ ~saving
  BY <1>1, <1>2, TakenType
<1>4. MgrCmd.state \in {Open, Closed}
  BY <1>3 DEF Command
<1>5. UNCHANGED <<last, up, gnc, ticked, statusQ, sent, cut, crashes>>
  BY <1>2 DEF MgrSetRelay, MgrTakes
<1>6. CASE MgrCmd.idx \in Relays
  <2> DEFINE r == MgrCmd.idx
             s == MgrCmd.state
  <2>1. /\ mgr' = [mgr EXCEPT !.relays = [mgr.relays EXCEPT ![r] = s]]
        /\ until' = [until EXCEPT ![r] = 0]
        /\ wanted' = [wanted EXCEPT ![r] = s]
        /\ SaveBegins
    BY <1>6 DEF MgrSetRelay, PulseCancelled
  <2>2. mgr' \in Settings /\ mgr'.gnc = mgr.gnc /\ mgr'.failsafe = mgr.failsafe
        /\ mgr'.relays = [mgr.relays EXCEPT ![r] = s]
    BY <1>1, <1>4, <1>6, <2>1 DEF TypeOK, Settings
  <2>3. until' \in [Relays -> 0..PulseTicks] /\ wanted' \in [Relays -> {Open, Closed}]
    BY <1>1, <1>4, <1>6, <2>1, ConstantsAssumption DEF TypeOK
  <2>4. TypeOK'
    BY <1>1, <1>3, <1>5, <2>1, <2>2, <2>3, SaveBegun DEF TypeOK
  <2>5. SettingsKept'
    BY <1>1, <1>3, <1>5, <2>1, <2>2, SaveBegun DEF IInv, SettingsKept
  <2>6. ASSUME NEW q \in Relays PROVE RelayKept(q)'
    <3>1. mgr.relays \in [Relays -> {Open, Closed}] /\ until \in [Relays -> 0..PulseTicks]
          /\ wanted \in [Relays -> {Open, Closed}]
      BY <1>1 DEF TypeOK, Settings
    <3> QED  BY <1>1, <1>3, <1>5, <1>6, <2>1, <2>2, <3>1, SaveBegun DEF IInv, RelayKept
  <2> QED  BY <2>4, <2>5, <2>6 DEF IInv
<1>7. CASE MgrCmd.idx \notin Relays
  <2>1. UNCHANGED <<mgr, until, wanted, saving, file, unsaved>>
    BY <1>7 DEF MgrSetRelay, NoSave
  <2> QED  BY <1>1, <1>3, <1>5, <2>1 DEF IInv, TypeOK, SettingsKept, RelayKept
<1> QED  BY <1>6, <1>7

(* A pulse opens its relay in memory only, and promises to close it.          *)
LEMMA RestartRelayInv == IInv /\ MgrRestartRelay => IInv'
<1> SUFFICES ASSUME IInv, MgrRestartRelay PROVE IInv'
  OBVIOUS
<1>1. TypeOK
  BY DEF IInv
<1>2. MgrTakes("RESTART_RELAY")
  BY DEF MgrRestartRelay
<1>3. /\ cmds' \in [Process -> Seq(Command)]
      /\ "manager" \in up /\ ~saving
  BY <1>1, <1>2, TakenType
<1>4. UNCHANGED <<last, up, gnc, ticked, statusQ, sent, cut, crashes,
                saving, file, unsaved>>
  BY <1>2 DEF MgrRestartRelay, MgrTakes, NoSave
<1>5. CASE MgrCmd.idx \in Relays
  <2> DEFINE r == MgrCmd.idx
  <2>1. /\ mgr' = [mgr EXCEPT !.relays = [mgr.relays EXCEPT ![r] = Open]]
        /\ until' = [until EXCEPT ![r] = PulseTicks]
        /\ wanted' = [wanted EXCEPT ![r] = Closed]
    BY <1>5 DEF MgrRestartRelay
  <2>2. mgr' \in Settings /\ mgr'.gnc = mgr.gnc /\ mgr'.failsafe = mgr.failsafe
        /\ mgr'.relays = [mgr.relays EXCEPT ![r] = Open]
    BY <1>1, <1>5, <2>1 DEF TypeOK, Settings
  <2>3. until' \in [Relays -> 0..PulseTicks] /\ wanted' \in [Relays -> {Open, Closed}]
    BY <1>1, <1>5, <2>1, ConstantsAssumption DEF TypeOK
  <2>4. TypeOK'
    BY <1>1, <1>3, <1>4, <2>2, <2>3 DEF TypeOK
  <2>5. SettingsKept'
    BY <1>3, <1>4, <2>2 DEF IInv, SettingsKept
  <2>6. ASSUME NEW q \in Relays PROVE RelayKept(q)'
    <3>1. mgr.relays \in [Relays -> {Open, Closed}] /\ until \in [Relays -> 0..PulseTicks]
          /\ wanted \in [Relays -> {Open, Closed}]
      BY <1>1 DEF TypeOK, Settings
    <3>2. PulseTicks # 0
      BY ConstantsAssumption
    <3> QED  BY <1>3, <1>4, <1>5, <2>1, <2>2, <3>1, <3>2 DEF IInv, RelayKept
  <2> QED  BY <2>4, <2>5, <2>6 DEF IInv
<1>6. CASE MgrCmd.idx \notin Relays
  <2>1. UNCHANGED <<mgr, until, wanted>>
    BY <1>6 DEF MgrRestartRelay
  <2> QED  BY <1>1, <1>3, <1>4, <2>1 DEF IInv, TypeOK, SettingsKept, RelayKept
<1> QED  BY <1>5, <1>6

-----------------------------------------------------------------------------
(* The tick: the pulses that end close their relays and are saved.            *)
LEMMA TickInv == IInv /\ MgrTick => IInv'
<1> SUFFICES ASSUME IInv, MgrTick PROVE IInv'
  OBVIOUS
<1>1. TypeOK /\ "manager" \in up /\ ~saving
  BY DEF IInv, MgrTick, MgrReady
<1>2. /\ ticked' = TRUE
      /\ until' = [r \in Relays |-> CountedDown(until[r])]
      /\ mgr' = [mgr EXCEPT !.relays =
                    [r \in Relays |-> IF r \in Expired THEN Closed ELSE mgr.relays[r]]]
      /\ UNCHANGED <<up, gnc, cmds, statusQ, sent, last, wanted, cut, crashes>>
  BY DEF MgrTick
<1>3. mgr.relays \in [Relays -> {Open, Closed}] /\ until \in [Relays -> 0..PulseTicks]
  BY <1>1 DEF TypeOK, Settings
<1>4. /\ mgr' \in Settings /\ mgr'.gnc = mgr.gnc /\ mgr'.failsafe = mgr.failsafe
      /\ mgr'.relays = [r \in Relays |-> IF r \in Expired THEN Closed ELSE mgr.relays[r]]
  BY <1>1, <1>2, <1>3 DEF TypeOK, Settings
<1>5. ASSUME NEW r \in Relays
      PROVE  /\ CountedDown(until[r]) \in 0..PulseTicks
             /\ r \in Expired <=> until[r] = 1
             /\ until[r] # 0 /\ CountedDown(until[r]) = 0 => r \in Expired
             /\ until[r] = 0 => CountedDown(until[r]) = 0
  BY <1>3, ConstantsAssumption DEF CountedDown, Expired
<1>6. /\ Expired = {} => UNCHANGED <<saving, file, unsaved>>
      /\ Expired # {} => saving' \/ unsaved'
      /\ saving' \in BOOLEAN /\ unsaved' \in BOOLEAN /\ file' \in Settings \union {Torn}
  <2>1. CASE Expired = {}
    BY <1>1, <2>1 DEF MgrTick, NoSave, TypeOK
  <2>2. CASE Expired # {}
    BY <1>1, <2>2, SaveBegun DEF MgrTick
  <2> QED  BY <2>1, <2>2
<1>7. TypeOK'
  <2>1. until' \in [Relays -> 0..PulseTicks]
    BY <1>2, <1>5
  <2> QED  BY <1>1, <1>2, <1>4, <1>6, <2>1 DEF TypeOK
<1>8. SettingsKept'
  BY <1>1, <1>2, <1>4, <1>6 DEF IInv, SettingsKept
<1>9. ASSUME NEW r \in Relays PROVE RelayKept(r)'
  <2>1. RelayKept(r)
    BY DEF IInv
  <2>2. until'[r] = CountedDown(until[r])
        /\ mgr'.relays[r] = IF until[r] = 1 THEN Closed ELSE mgr.relays[r]
    BY <1>2, <1>4, <1>5
  <2>3. CASE until[r] = 0
    BY <1>1, <1>2, <1>5, <1>6, <2>1, <2>2, <2>3 DEF RelayKept
  <2>4. CASE until[r] # 0
    <3>1. cut = {} => wanted[r] = Closed
      BY <2>1, <2>4 DEF RelayKept
    <3>2. until'[r] = 0 => until[r] = 1 /\ Expired # {}
      BY <1>5, <2>2, <2>4
    <3> QED  BY <1>1, <1>2, <1>6, <2>2, <3>1, <3>2 DEF RelayKept
  <2> QED  BY <2>3, <2>4
<1> QED  BY <1>7, <1>8, <1>9 DEF IInv

(* The end of a save: the file says what the Manager holds, and is read back  *)
(* unless its cruise speed is out of range.  Or the save has failed.          *)
LEMMA SaveEndsInv == IInv /\ (SaveEnds \/ SaveFails) => IInv'
<1> SUFFICES ASSUME IInv, SaveEnds \/ SaveFails PROVE IInv'
  OBVIOUS
<1>1. CASE SaveEnds
  <2>1. mgr \in Settings /\ file' = mgr
    BY <1>1 DEF SaveEnds, IInv, TypeOK
  <2>2. ~unsaved' => Loaded(file') = mgr
    BY <1>1, <2>1, TornAssumption DEF SaveEnds, Loaded
  <2> QED  BY <1>1, <2>1, <2>2 DEF IInv, SaveEnds, TypeOK, SettingsKept, RelayKept
<1>2. CASE SaveFails
  BY <1>2 DEF IInv, SaveFails, TypeOK, SettingsKept, RelayKept
<1> QED  BY <1>1, <1>2

-----------------------------------------------------------------------------
(* What the rest of the system does touches neither the settings nor the file.*)
LEMMA OthersInv ==
    ASSUME IInv, OperatorSends \/ MgrHeartbeat \/ GncCommand \/ GncHeartbeat
    PROVE  IInv'
<1>1. TypeOK
  BY DEF IInv
<1>2. UNCHANGED <<up, mgr, until, file, saving, history>>
  BY DEF OperatorSends, MgrHeartbeat, GncCommand, GncHeartbeat
<1>3. cmds' \in [Process -> Seq(Command)]
  <2>1. CASE OperatorSends
    <3>1. PICK c \in Command :
            cmds' = [p \in Process |-> IF p \in up THEN Append(cmds[p], c) ELSE cmds[p]]
      BY <2>1 DEF OperatorSends
    <3>2. ASSUME NEW p \in Process PROVE Append(cmds[p], c) \in Seq(Command)
      BY <1>1, AppendProperties DEF TypeOK
    <3> QED  BY <1>1, <3>1, <3>2 DEF TypeOK
  <2>2. CASE GncCommand
    <3>1. "gnc" \in Process
      BY DEF Process
    <3>2. cmds \in [Process -> Seq(Command)] /\ cmds["gnc"] # <<>>
          /\ cmds' = [cmds EXCEPT !["gnc"] = Tail(@)]
      BY <1>1, <2>2 DEF TypeOK, GncCommand
    <3> QED  BY <3>1, <3>2, ConsumeType
  <2>3. CASE MgrHeartbeat \/ GncHeartbeat
    BY <1>1, <2>3 DEF TypeOK, MgrHeartbeat, GncHeartbeat
  <2> QED  BY <2>1, <2>2, <2>3
<1>4. statusQ' \in Seq(Held)
  <2>1. CASE MgrHeartbeat
    <3>1. mgr.gnc \in Held
      BY <1>1 DEF TypeOK, Settings
    <3>2. Append(statusQ, mgr.gnc) \in Seq(Held)
      BY <1>1, <3>1, AppendProperties DEF TypeOK
    <3> QED  BY <1>1, <2>1, <3>2 DEF TypeOK, MgrHeartbeat
  <2>2. CASE GncHeartbeat
    BY <1>1, <2>2, HeadTailProperties DEF TypeOK, GncHeartbeat
  <2>3. CASE OperatorSends \/ GncCommand
    BY <1>1, <2>3 DEF TypeOK, OperatorSends, GncCommand
  <2> QED  BY <2>1, <2>2, <2>3
<1>5. gnc' \in GncSettings
  <2>1. CASE GncCommand
    <3>1. Head(cmds["gnc"]) \in Command
      <4>1. "gnc" \in Process
        BY DEF Process
      <4>2. cmds \in [Process -> Seq(Command)] /\ cmds["gnc"] # <<>>
        BY <1>1, <2>1 DEF TypeOK, GncCommand
      <4> QED  BY <4>1, <4>2, ConsumeType
    <3>2. ASSUME NEW c \in Command PROVE GncApplies(c) \subseteq GncSettings
      <4>1. gnc \in GncSettings
        BY <1>1 DEF TypeOK
      <4>2. CASE c.type \in {"SET_GNC_CONFIG", "START"}
        BY <4>1, <4>2 DEF Command, GncApplies, GncSettings, Heard, Held
      <4>3. CASE c.type = "SET_FAILSAFE_CONFIG"
        BY <4>1, <4>3 DEF Command, GncApplies, GncSettings
      <4>4. CASE c.type \in {"SET_RELAY", "RESTART_RELAY"}
        BY <4>1, <4>4 DEF GncApplies
      <4> QED  BY <4>2, <4>3, <4>4 DEF Command
    <3> QED  BY <2>1, <3>1, <3>2 DEF GncCommand
  <2>2. CASE GncHeartbeat
    <3>1. Head(statusQ) \in Held
      BY <1>1, <2>2, HeadTailProperties DEF TypeOK, GncHeartbeat
    <3> QED  BY <1>1, <2>2, <3>1 DEF TypeOK, GncHeartbeat, Heard, Held, GncSettings
  <2>3. CASE OperatorSends \/ MgrHeartbeat
    BY <1>1, <2>3 DEF TypeOK, OperatorSends, MgrHeartbeat
  <2> QED  BY <2>1, <2>2, <2>3
<1>6. ticked' \in BOOLEAN /\ sent' \in Nat
  <2>1. ticked' = ticked \/ ticked' = FALSE
    BY DEF OperatorSends, MgrHeartbeat, GncCommand, GncHeartbeat
  <2>2. sent' = sent \/ sent' = sent + 1
    BY DEF OperatorSends, MgrHeartbeat, GncCommand, GncHeartbeat
  <2>3. ticked' \in BOOLEAN
    BY Zenon, <1>1, <2>1 DEF TypeOK
  <2>4. sent' \in Nat
    BY <1>1, <2>2 DEF TypeOK
  <2> QED  BY <2>3, <2>4
<1> QED  BY <1>1, <1>2, <1>3, <1>4, <1>5, <1>6
         DEF IInv, TypeOK, SettingsKept, RelayKept, history

-----------------------------------------------------------------------------
(* Crashes and restarts.                                                      *)
LEMMA CrashInv ==
    ASSUME IInv, NEW p \in Crashable, Crash(p)
    PROVE  IInv'
<1>1. TypeOK
  BY DEF IInv
<1>2. /\ up' = up \ {p} /\ crashes' = crashes + 1
      /\ cut' = IF p = "gnc" THEN cut
                ELSE cut \union {k \in {"save"} : saving \/ unsaved}
                         \union {k \in {"pulse"} : until # NoPulse}
      /\ UNCHANGED <<mgr, until, file, saving, ticked, gnc, sent, last, wanted, unsaved>>
  BY DEF Crash
<1>3. TypeOK'
  <2>1. cmds' \in [Process -> Seq(Command)]
    BY <1>1, DropType DEF TypeOK, Crash
  <2>2. statusQ' \in Seq(Held)
    BY <1>1 DEF TypeOK, Crash
  <2>3. cut' \subseteq {"save", "pulse"}
    BY Zenon, <1>1, <1>2 DEF TypeOK
  <2>4. crashes' \in Nat /\ up' \subseteq Process
    BY <1>1, <1>2 DEF TypeOK
  <2> QED  BY <1>1, <1>2, <2>1, <2>2, <2>3, <2>4 DEF TypeOK
<1>4. SettingsKept'
  <2>1. SettingsKept
    BY DEF IInv
  <2>2. p = "gnc" \/ p = "manager"
    BY ConstantsAssumption DEF Process
  <2>3. CASE p = "gnc"
    BY <1>2, <2>1, <2>3 DEF SettingsKept
  <2>4. CASE p = "manager"
    BY <1>2, <2>1, <2>4 DEF SettingsKept
  <2> QED  BY <2>2, <2>3, <2>4
<1>5. ASSUME NEW r \in Relays PROVE RelayKept(r)'
  <2>1. RelayKept(r)
    BY DEF IInv
  <2>2. CASE p = "gnc"
    BY <1>2, <2>1, <2>2 DEF RelayKept
  <2>3. CASE p # "gnc"
    <3>1. cut' = {} => cut = {} /\ ~saving /\ ~unsaved /\ until = NoPulse
      BY <1>2, <2>3
    <3> QED  BY <1>2, <2>1, <3>1 DEF RelayKept, NoPulse
  <2> QED  BY <2>2, <2>3
<1> QED  BY <1>3, <1>4, <1>5 DEF IInv

(* Whatever is in the file, the Manager reads settings back.                  *)
LEMMA LoadedType ==
    ASSUME NEW f \in Settings \union {Torn}
    PROVE  Loaded(f) \in Settings
<1>1. Defaults \in Settings
  BY ConstantsAssumption DEF Defaults, Settings, Held
<1> QED  BY <1>1 DEF Loaded

LEMMA RestartInv == IInv /\ (MgrRestart \/ GncRestart) => IInv'
<1> SUFFICES ASSUME IInv, MgrRestart \/ GncRestart PROVE IInv'
  OBVIOUS
<1>1. TypeOK
  BY DEF IInv
<1>2. CASE MgrRestart
  <2>1. /\ "manager" \notin up /\ up' = up \union {"manager"}
        /\ mgr' = Loaded(file) /\ until' = NoPulse
        /\ saving' = FALSE /\ ticked' = FALSE /\ unsaved' = FALSE
        /\ UNCHANGED <<file, gnc, cmds, statusQ, sent, last, wanted, cut, crashes>>
    BY <1>2 DEF MgrRestart
  <2>2. Loaded(file) \in Settings
    BY <1>1, LoadedType DEF TypeOK
  <2>3. NoPulse \in [Relays -> 0..PulseTicks]
    BY ConstantsAssumption DEF NoPulse
  <2>4. TypeOK'
    BY <1>1, <2>1, <2>2, <2>3 DEF TypeOK, Process
  <2>5. SettingsKept'
    BY <2>1, <2>2 DEF IInv, SettingsKept
  <2>6. ASSUME NEW r \in Relays PROVE RelayKept(r)'
    <3>1. RelayKept(r) /\ SettingsKept
      BY DEF IInv
    <3>2. until'[r] = 0
      BY <2>1 DEF NoPulse
    <3>3. cut = {} => ~saving /\ ~unsaved /\ until[r] = 0
      BY <2>1, <3>1 DEF RelayKept, SettingsKept
    <3> QED  BY <2>1, <2>2, <3>1, <3>2, <3>3 DEF RelayKept
  <2> QED  BY <2>4, <2>5, <2>6 DEF IInv
<1>3. CASE GncRestart
  <2>1. gnc' \in GncSettings
    BY <1>3, ConstantsAssumption DEF GncRestart, GncSettings, Held
  <2>2. up' = up \union {"gnc"}
        /\ UNCHANGED <<mgr, until, file, saving, ticked, cmds, statusQ, sent, history>>
    BY <1>3 DEF GncRestart
  <2> QED  BY <1>1, <2>1, <2>2
           DEF IInv, TypeOK, SettingsKept, RelayKept, history, Process
<1> QED  BY <1>2, <1>3

-----------------------------------------------------------------------------
LEMMA InitInv == Init => IInv
<1> SUFFICES ASSUME Init PROVE IInv
  OBVIOUS
<1>1. NoPulse \in [Relays -> 0..PulseTicks] /\ \A r \in Relays : NoPulse[r] = 0
  BY ConstantsAssumption DEF NoPulse
<1>2. TypeOK
  <2>1. [p \in Process |-> <<>>] \in [Process -> Seq(Command)] /\ <<>> \in Seq(Held)
    OBVIOUS
  <2>2. /\ file \in Settings \union {Torn} /\ mgr \in Settings
        /\ last = [gnc |-> mgr.gnc, failsafe |-> mgr.failsafe]
        /\ wanted = mgr.relays
        /\ gnc = [gnc |-> DefaultGnc, failsafe |-> DefaultFailsafe]
    BY LoadedType DEF Init
  <2>3. last \in GncSettings /\ wanted \in [Relays -> {Open, Closed}] /\ gnc \in GncSettings
    BY <2>2, ConstantsAssumption DEF Settings, GncSettings, Held
  <2> QED  BY <1>1, <2>1, <2>2, <2>3 DEF Init, TypeOK
<1>3. SettingsKept
  BY DEF Init, SettingsKept
<1>4. ASSUME NEW r \in Relays PROVE RelayKept(r)
  BY <1>1 DEF Init, RelayKept
<1> QED  BY <1>2, <1>3, <1>4 DEF IInv

LEMMA NextInv == IInv /\ [Next]_vars => IInv'
<1> SUFFICES ASSUME IInv, [Next]_vars PROVE IInv'
  OBVIOUS
<1>1. CASE MgrCommand
  BY <1>1, SetGncInv, SetFailsafeInv, SetRelayInv, RestartRelayInv DEF MgrCommand
<1>2. CASE MgrTick \/ SaveEnds \/ SaveFails
  BY <1>2, TickInv, SaveEndsInv
<1>3. CASE OperatorSends \/ MgrHeartbeat \/ GncCommand \/ GncHeartbeat
  BY <1>3, OthersInv
<1>4. CASE \E p \in Crashable : Crash(p)
  BY <1>4, CrashInv
<1>5. CASE MgrRestart \/ GncRestart
  BY <1>5, RestartInv
<1>6. CASE UNCHANGED vars
  BY <1>6 DEF vars, IInv, TypeOK, SettingsKept, RelayKept
<1> QED  BY <1>1, <1>2, <1>3, <1>4, <1>5, <1>6 DEF Next

(* The inductive invariant, for any settings, relays and crashes.             *)
THEOREM SettingsInvariant == Spec => []IInv
BY InitInv, NextInv, PTL DEF Spec

(* A Manager that crashes comes back with the last settings it had consumed,  *)
(* except from a crash inside a save, or after a save that failed or wrote a  *)
(* cruise speed out of range, with no good save since (_save_settings after   *)
(* every change, _load_settings).                                             *)
THEOREM NoSettingLostHolds == Spec => []NoSettingLost
<1>1. IInv => NoSettingLost
  BY DEF IInv, TypeOK, SettingsKept, NoSettingLost, Settings, GncSettings
<1> QED  BY <1>1, SettingsInvariant, PTL

(* A relay without a pulse is in the state it was last asked for (_apply_     *)
(* set_relay cancels the pulse, _tick_relay_restart ends it).                 *)
THEOREM RelayAsCommandedHolds == Spec => []RelayAsCommanded
<1>1. IInv => RelayAsCommanded
  BY DEF IInv, RelayKept, RelayAsCommanded
<1> QED  BY <1>1, SettingsInvariant, PTL

(* Settings, relays, file and heartbeats are well typed, whatever crashes.    *)
THEOREM SettingsTypeHolds == Spec => []TypeOK
<1>1. IInv => TypeOK
  BY DEF IInv
<1> QED  BY <1>1, SettingsInvariant, PTL
=============================================================================
