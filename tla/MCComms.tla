------------------------------ MODULE MCComms ------------------------------
(* The ground side: the command link between browsers and web server, the     *)
(* web server's own services and the Logger, checked in one run.  A behaviour *)
(* of this module is a behaviour of the one component in focus, the others    *)
(* stay in their initial states.                                              *)
EXTENDS CommandLink, LoggerTasks, TileCache, AppLog, StaticSim

VARIABLE focus

MCConfigs == {[csv |-> "one", json |-> "p"], [csv |-> "two", json |-> "off"],
              [csv |-> "off", json |-> "p"]}

Only(f) == focus = f /\ UNCHANGED focus
CommsInit ==
    /\ focus \in {"link", "logger", "tiles", "log", "simulation"}
    /\ Init /\ LoggerInit /\ TileInit /\ AppLogInit /\ StaticInit
    \* one initial state is enough for the components that rest
    /\ focus # "logger" => pushed = Empty /\ ~diskLow
    /\ focus # "log" => newest = 0
    /\ focus # "simulation" => completion = "stop_time" /\ start = "first_wp"

OfLink == Only("link") /\ Next /\ UNCHANGED <<loggerVars, tileVars, appLogVars, staticVars>>
OfLogger == Only("logger") /\ LoggerNext /\ UNCHANGED <<linkVars, tileVars, appLogVars, staticVars>>
OfTiles == Only("tiles") /\ TileNext /\ UNCHANGED <<linkVars, loggerVars, appLogVars, staticVars>>
OfLog == Only("log") /\ AppLogNext /\ UNCHANGED <<linkVars, loggerVars, tileVars, staticVars>>
OfSimulation == Only("simulation") /\ StaticNext
                /\ UNCHANGED <<linkVars, loggerVars, tileVars, appLogVars>>

CommsNext == OfLink \/ OfLogger \/ OfTiles \/ OfLog \/ OfSimulation
vars == <<focus, linkVars, loggerVars, tileVars, appLogVars, staticVars>>

(* The fairness of each component, for the one in focus.                      *)
Fairness ==
    /\ WF_linkVars(focus = "link" /\ OpenConnection)
    /\ WF_linkVars(focus = "link" /\ Ping)
    /\ WF_linkVars(focus = "link" /\ LoseConnection)
    /\ WF_linkVars(focus = "link" /\ ConsumerRestarts)
    /\ \A c \in Conns :
        /\ WF_linkVars(focus = "link" /\ ReceiveCommand(c))
        /\ WF_linkVars(focus = "link" /\ BroadcastFails(c))
        /\ WF_linkVars(focus = "link" /\ PingExpires(c))
    /\ \A n \in 1 .. MaxThreads :
        WF_loggerVars(focus = "logger" /\ n \in Numbers /\ ThreadStep(n))
    /\ WF_loggerVars(focus = "logger" /\ HearDirect)
    /\ WF_loggerVars(focus = "logger" /\ HearSync)

CommsSpec == CommsInit /\ [][CommsNext]_vars /\ Fairness

(* The type invariants of the five components.                                *)
TypesHold == TypeOK /\ LoggerTypeOK /\ TileTypeOK /\ AppLogTypeOK /\ StaticTypeOK

(* The Logger runs what was configured last and nothing else, and each row it *)
(* writes is of one moment (LoggerTasks).                                     *)
LoggerFollows == ConfigAgrees /\ NoStrayThread /\ RowIsOneSnapshot

(* What the web server hands out is whole and in order: map tiles, pages of   *)
(* the log, rows of a static simulation (TileCache, AppLog, StaticSim).       *)
ServedInOrder == /\ TilesAreWhole /\ PagesMeet /\ ButtonTellsTheTruth
                 /\ LapsAlternate /\ CompletionIsFirst /\ RowsAreSteady

(* The liveness of the command link and of the Logger, in the behaviours in   *)
(* which they move.                                                           *)
(* Commands given on a connection that stays up are published.                *)
GivenArePublished == focus = "link" => GivenIsPublished
(* A browser that hears nothing does not stay so (B-15).                      *)
BrowserIsServedAgain == focus = "link" => BrowserHearsAgain
(* An operator who has left is noticed by the comm failsafe's heartbeat.      *)
DepartureIsNoticed == focus = "link" => DepartureNoticed
(* A logger thread that was stopped ends.                                     *)
StoppedThreadsDoEnd == focus = "logger" => StoppedThreadsEnd
(* A configured CSV logger opens a file whenever there is room.               *)
CsvDoesOpenAgain == focus = "logger" => CsvOpensAgain
(* After every failure the ground side is served again, or the loss noticed.  *)
GroundRecovers == /\ GivenArePublished /\ BrowserIsServedAgain /\ DepartureIsNoticed
                  /\ StoppedThreadsDoEnd /\ CsvDoesOpenAgain
=============================================================================
