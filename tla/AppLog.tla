------------------------------- MODULE AppLog -------------------------------
(* The log viewer: GET /api/app-log of the web server and the paging of       *)
(* AppLogViewer.vue.  Lines are numbered in the order they were written; the  *)
(* file at the log's path holds the lines since the last rotation, and the    *)
(* server looks at the newest Buffer of them.  A page is asked for by the     *)
(* number of lines already shown, counted from the newest line of the moment. *)
EXTENDS Integers, Sequences, SequencesExt, FiniteSetsExt

CONSTANTS
  PageSize,  \* PAGE of the viewer, within the server's 1 .. 5000
  Buffer,    \* lines in the last 4 MB of the file
  MaxLines,  \* bound: lines ever written
  MaxLoads   \* bound: pages on the screen

ASSUME AppLogAssumption ==
  PageSize \in Nat \ {0} /\ Buffer \in Nat \ {0} /\ MaxLines \in Nat

VARIABLES
  oldest, newest,  \* the file at the path holds the lines oldest .. newest
  shown,           \* allLines, older first
  more,            \* hasMore: the "Load more" button is there
  undisturbed      \* nothing was written or rotated since the refresh

appLogVars == <<oldest, newest, shown, more, undisturbed>>

AppLogInit ==
  /\ oldest = 1 /\ newest \in 0 .. MaxLines
  /\ shown = <<>> /\ more = FALSE /\ undisturbed = FALSE

Buffered == LET least == IF newest - oldest + 1 > Buffer THEN newest - Buffer + 1 ELSE oldest
            IN [i \in 1 .. newest - least + 1 |-> least + i - 1]

\* all_lines[start:end], where an end below zero counts from the other side.
Slice(lines, start, end) ==
  SubSeq(lines, start + 1, IF end < 0 THEN Len(lines) + end ELSE end)
PageEnd(offset) == Len(Buffered) - offset
PageStart(offset) == Max({0, PageEnd(offset) - PageSize})
Page(offset) == Slice(Buffered, PageStart(offset), PageEnd(offset))

HasMore(offset) == PageStart(offset) > 0

\* refresh(): the newest page replaces what was shown.
RefreshLog ==
  /\ newest >= oldest
  /\ shown' = Page(0) /\ more' = HasMore(0) /\ undisturbed' = TRUE
  /\ UNCHANGED <<oldest, newest>>

\* loadMore(): older lines are put before those shown.
LoadMore ==
  /\ more /\ Len(shown) < MaxLoads * PageSize
  /\ shown' = Page(Len(shown)) \o shown /\ more' = HasMore(Len(shown))
  /\ UNCHANGED <<oldest, newest, undisturbed>>

\* Any process logs a line, and loguru starts a new file at 10 MB.
WriteLine ==
  /\ newest < MaxLines
  /\ newest' = newest + 1 /\ undisturbed' = FALSE
  /\ UNCHANGED <<oldest, shown, more>>
RotateLog ==
  /\ newest >= oldest
  /\ oldest' = newest + 1 /\ undisturbed' = FALSE
  /\ UNCHANGED <<newest, shown, more>>

AppLogNext == RefreshLog \/ LoadMore \/ WriteLine \/ RotateLog
AppLogSpec == AppLogInit /\ [][AppLogNext]_appLogVars

----------------------------------------------------------------------------
\* Types: what is shown are lines that were written.
AppLogTypeOK ==
  /\ newest \in 0 .. MaxLines /\ oldest \in 1 .. MaxLines + 1
  /\ shown \in Seq(1 .. newest) /\ more \in BOOLEAN /\ undisturbed \in BOOLEAN

\* Paging back through a log that rests shows every line once and in order,
\* however the page size falls into the file and its buffer.
PagesMeet ==
  undisturbed => shown = SubSeq(Buffered, Len(Buffered) - Len(shown) + 1, Len(Buffered))

\* The button disappears when, and only when, the buffer's oldest line is there.
ButtonTellsTheTruth ==
  undisturbed => (more <=> Len(shown) < Len(Buffered))
=============================================================================
