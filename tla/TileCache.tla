------------------------------ MODULE TileCache ------------------------------
(* The map tiles of the web server (src/comms/web_server.py): a request is    *)
(* answered from the disk, or fetched in another thread and then written      *)
(* beside its place and moved there.  The event loop runs other requests, and *)
(* /tiles/clear, only while a request waits for its fetch or for its file to  *)
(* be sent; the process may die at any point, also in the middle of a write.  *)
EXTENDS Naturals

CONSTANTS
  Requests,    \* requests for one tile
  MaxDeaths    \* bound: deaths of the web server

ASSUME TileAssumption == "nobody" \notin Requests /\ MaxDeaths \in Nat

VARIABLES
  tile,      \* the file at the tile's path: "none", "part" or "whole"
  scratch,   \* the .tmp file beside it: "none" or "part"
  asking,    \* [Requests -> stage of get_tile]
  answer,    \* [Requests -> what the browser got]
  running,   \* the request whose handler holds the event loop, or "nobody"
  deaths

tileVars == <<tile, scratch, asking, answer, running, deaths>>

TileInit ==
  /\ tile = "none" /\ scratch = "none"
  /\ asking = [r \in Requests |-> "idle"] /\ answer = [r \in Requests |-> "none"]
  /\ running = "nobody" /\ deaths = 0

\* get_tile: a hit is a response that opens the file when it is sent.
GetTile(r) ==
  /\ running = "nobody" /\ asking[r] = "idle"
  /\ asking' = [asking EXCEPT ![r] = IF tile # "none" THEN "sending" ELSE "fetching"]
  /\ answer' = [answer EXCEPT ![r] = "none"]
  /\ UNCHANGED <<tile, scratch, running, deaths>>

\* FileResponse: the file may have been cleared in the meantime.
SendFile(r) ==
  /\ running = "nobody" /\ asking[r] = "sending"
  /\ asking' = [asking EXCEPT ![r] = "idle"]
  /\ answer' = [answer EXCEPT ![r] = IF tile = "none" THEN "error" ELSE tile]
  /\ UNCHANGED <<tile, scratch, running, deaths>>

\* _fetch_tile_sync: no network, or the bytes of the whole tile.
FetchFails(r) ==
  /\ running = "nobody" /\ asking[r] = "fetching"
  /\ asking' = [asking EXCEPT ![r] = "idle"] /\ answer' = [answer EXCEPT ![r] = "error"]
  /\ UNCHANGED <<tile, scratch, running, deaths>>
Fetched(r) ==
  /\ running = "nobody" /\ asking[r] = "fetching"
  /\ asking' = [asking EXCEPT ![r] = "writing"] /\ running' = r
  /\ UNCHANGED <<tile, scratch, answer, deaths>>

\* Mutant: the tile is written in its place.
BeginWriteInPlace(r) ==
  /\ running = r /\ asking[r] = "writing"
  /\ tile' = "part" /\ asking' = [asking EXCEPT ![r] = "moving"]
  /\ UNCHANGED <<scratch, answer, running, deaths>>

\* The write to the scratch file, then os.replace, without an await between.
BeginWrite(r) ==
  /\ running = r /\ asking[r] = "writing"
  /\ scratch' = "part" /\ asking' = [asking EXCEPT ![r] = "moving"]
  /\ UNCHANGED <<tile, answer, running, deaths>>

Answered(r) ==
  /\ asking' = [asking EXCEPT ![r] = "idle"] /\ answer' = [answer EXCEPT ![r] = "whole"]
  /\ running' = "nobody"
Move(r) ==
  /\ running = r /\ asking[r] = "moving"
  /\ tile' = "whole" /\ scratch' = "none"
  /\ Answered(r) /\ UNCHANGED deaths
\* An OSError on the way: the browser gets the tile, the cache does not.
WriteFails(r) ==
  /\ running = r /\ asking[r] \in {"writing", "moving"}
  /\ Answered(r) /\ UNCHANGED <<tile, scratch, deaths>>

\* /tiles/clear removes the whole tree.
ClearTiles ==
  /\ running = "nobody"
  /\ tile' = "none" /\ scratch' = "none"
  /\ UNCHANGED <<asking, answer, running, deaths>>

ServerDies ==
  /\ deaths < MaxDeaths /\ deaths' = deaths + 1
  /\ asking' = [r \in Requests |-> "idle"] /\ answer' = [r \in Requests |-> "none"]
  /\ running' = "nobody"
  /\ UNCHANGED <<tile, scratch>>

TileNext ==
  \/ \E r \in Requests : GetTile(r) \/ SendFile(r) \/ FetchFails(r) \/ Fetched(r)
                         \/ BeginWrite(r) \/ Move(r) \/ WriteFails(r)
  \/ ClearTiles \/ ServerDies
TileSpec == TileInit /\ [][TileNext]_tileVars

----------------------------------------------------------------------------
\* Types: the handler that holds the event loop is the one that writes.
TileTypeOK ==
  /\ tile \in {"none", "part", "whole"} /\ scratch \in {"none", "part"}
  /\ asking \in [Requests -> {"idle", "sending", "fetching", "writing", "moving"}]
  /\ answer \in [Requests -> {"none", "error", "part", "whole"}]
  /\ running \in Requests \cup {"nobody"} /\ deaths \in 0 .. MaxDeaths
  /\ \A r \in Requests : asking[r] \in {"writing", "moving"} <=> running = r

\* No browser is ever given part of a tile, and no later start of the server
\* finds one in the cache: not after a failed write, nor after a death in it.
TilesAreWhole == tile # "part" /\ \A r \in Requests : answer[r] # "part"
=============================================================================
