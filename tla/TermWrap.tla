---- MODULE TermWrap ----
\* What a terminal block shows (frontend/app/view/term/termwrap.ts). The backend
\* appends the output of the shell to the block's file and tells the page of each
\* piece. A page that opens loads the screen an earlier page cached, then the
\* file from the offset the cache goes up to, and then follows the events; when
\* idle it caches its own screen. The file is circular and keeps the end of the
\* output only. Output is numbered; a piece with an odd number
\* ends with the mark "a command runs", an even one with "the prompt is ready"
\* (OSC 16162 C and A, osc-handlers.ts).
EXTENDS Naturals, Sequences, SequencesExt

CONSTANTS None, MaxOutput, MaxOpens,
          MaxFile,        \* DefaultTermMaxFileSize, what the file can still give
          MinProcessed,   \* MinDataProcessedForCache
          MaxTruncates, MaxQuits

\* A cached screen, a save of it, and what a page is told of a file.
Caches == [data : Seq(Nat), ptyOffset : Nat]
Saves == [data : Seq(Nat), ptyOffset : Nat, written : BOOLEAN]
Stats == [size : Nat, ptyOffset : Nat]
Statuses == {None, "running-command", "ready"}

\* None is none of them, and no offset.
ASSUME TermAssumption == None \notin Caches \cup Saves \cup Stats \cup Nat /\ MaxFile \in Nat

VARIABLES
    file,     \* all that was written to the block's terminal file
    cache,    \* cache:term:full, the cached screen with its ptyoffset, or None
    rtinfo,   \* shell:state as the backend knows it
    infos,    \* SetRTInfo calls on their way
    save,     \* the SaveTerminalState call in progress, or None
    events,   \* blockfile events on their way to the page
    page,     \* the TermWrap
    output, opens, truncates, quits,
    odd       \* history: what happened that the screen need not survive

termVars == <<file, cache, rtinfo, infos, save, events, page, output, opens, truncates, quits, odd>>

Mark(n) == IF n % 2 = 1 THEN "running-command" ELSE "ready"

NewPage == [at |-> "rtinfo", screen |-> <<>>, writes |-> <<>>, ptyOffset |-> 0, processed |-> 0,
            heldData |-> <<>>, loaded |-> FALSE, status |-> None, stat |-> None, from |-> 0, caching |-> FALSE]
ClosedPage == [NewPage EXCEPT !.at = "closed"]

Loading == page.at \notin {"closed", "open"}

TermInit ==
    /\ file = <<>> /\ cache = None /\ rtinfo = None /\ infos = <<>> /\ save = None /\ events = <<>>
    /\ page = ClosedPage
    /\ output = 0 /\ opens = 0 /\ truncates = 0 /\ quits = 0
    /\ odd = {}

----
\* The backend.

\* HandleAppendBlockFile: the file first, then the event.
AppendData ==
    /\ output < MaxOutput
    /\ output' = output + 1
    /\ file' = Append(file, output + 1)
    /\ events' = IF page.at = "closed" THEN events ELSE Append(events, [fileop |-> "append", data |-> output + 1])
    /\ odd' = odd \cup (IF Loading THEN {"raced"} ELSE {}) \cup (IF page.at # "open" THEN {"unheard"} ELSE {})
    /\ UNCHANGED <<cache, rtinfo, infos, save, page, opens, truncates, quits>>

\* HandleTruncateBlockFile, when a command is restarted that clears on start.
Truncate ==
    /\ truncates < MaxTruncates
    /\ truncates' = truncates + 1
    /\ file' = <<>>
    /\ cache' = None
    /\ events' = IF page.at = "closed" THEN events ELSE Append(events, [fileop |-> "truncate"])
    /\ odd' = odd \cup {"truncated"}
    /\ UNCHANGED <<rtinfo, infos, save, page, output, opens, quits>>

\* SaveTerminalState writes the screen and its offset one after the other.
SaveState ==
    /\ save # None /\ ~save.written
    /\ cache' = [data |-> save.data, ptyOffset |-> IF cache = None THEN 0 ELSE cache.ptyOffset]
    /\ save' = [save EXCEPT !.written = TRUE]
    /\ odd' = odd \cup IF page.at = "cache" /\ page.stat # None THEN {"swapped"} ELSE {}
    /\ UNCHANGED <<file, rtinfo, infos, events, page, output, opens, truncates, quits>>

SaveMeta ==
    /\ save # None /\ save.written
    /\ cache' = IF cache = None THEN None ELSE [cache EXCEPT !.ptyOffset = save.ptyOffset]
    /\ save' = None
    /\ UNCHANGED <<file, rtinfo, infos, events, page, output, opens, truncates, quits, odd>>

SetRTInfo ==
    /\ infos # <<>>
    /\ rtinfo' = Head(infos)
    /\ infos' = Tail(infos)
    /\ UNCHANGED <<file, cache, save, events, page, output, opens, truncates, quits, odd>>

\* The application quits, with calls in progress. What it knew of the shell goes.
Quit ==
    /\ quits < MaxQuits
    /\ quits' = quits + 1
    /\ rtinfo' = None /\ infos' = <<>> /\ save' = None /\ events' = <<>>
    /\ page' = ClosedPage
    /\ odd' = odd \cup {"unheard"} \cup (IF save # None /\ save.written THEN {"torn"} ELSE {})
    /\ UNCHANGED <<file, cache, output, opens, truncates>>

----
\* The page.

\* initTerminal subscribes to the file and asks for the runtime info.
InitTerminal ==
    /\ page.at = "closed"
    /\ opens < MaxOpens
    /\ opens' = opens + 1
    /\ page' = NewPage
    /\ UNCHANGED <<file, cache, rtinfo, infos, save, events, output, truncates, quits, odd>>

GetRTInfo ==
    /\ page.at = "rtinfo"
    /\ page' = [page EXCEPT !.at = "cache", !.status = rtinfo]
    /\ odd' = odd \cup IF infos # <<>> THEN {"unheard"} ELSE {}
    /\ UNCHANGED <<file, cache, rtinfo, infos, save, events, output, opens, truncates, quits>>

\* The first piece a circular file still has, and where a fetch from an offset starts.
DataStartIdx(size) == IF size > MaxFile THEN size - MaxFile ELSE 0
Start(from, size) == IF from < DataStartIdx(size) THEN DataStartIdx(size) ELSE from

\* fetchWaveFile: the backend looks the file up (Stat), announces that length, then
\* reads. When the file has shrunk the body is too short; when it has grown the last
\* part is too long to be sent, unless it just fills up: else the fetch throws.
Stat(size, meta) == [size |-> size, ptyOffset |-> meta]
Fetched(data, from, size) == SubSeq(data, from + 1, size)
Throws(data, from, size) ==
    IF from >= size \/ Len(data) = size THEN {FALSE} ELSE IF Len(data) < size THEN {TRUE} ELSE BOOLEAN

\* mutation: loaded is not set in a finally
LoadedIfOk(p, ok) == IF ok THEN [p EXCEPT !.at = "open", !.loaded = TRUE, !.stat = None, !.caching = TRUE]
                     ELSE [p EXCEPT !.at = "writing", !.stat = None]

\* The load ends; the timer that caches is only started when nothing threw.
Loaded(p, ok) == [p EXCEPT !.at = "open", !.loaded = TRUE, !.stat = None, !.caching = ok]

StatCache ==
    /\ page.at = "cache" /\ page.stat = None
    /\ page' = IF cache = None THEN [page EXCEPT !.at = "main"]
               ELSE [page EXCEPT !.stat = Stat(Len(cache.data), cache.ptyOffset)]
    /\ odd' = IF save # None /\ save.written THEN odd \cup {"torn"} ELSE odd
    /\ UNCHANGED <<file, cache, rtinfo, infos, save, events, output, opens, truncates, quits>>

Write(p, data, offset) == [p EXCEPT !.writes = Append(@, [data |-> data, set |-> offset])]

ReadCache ==
    /\ page.at = "cache" /\ page.stat # None
    /\ LET size == page.stat.size
           data == IF cache = None THEN <<>> ELSE cache.data
           p == [page EXCEPT !.at = "main", !.from = page.stat.ptyOffset, !.stat = None]
       IN \E throws \in Throws(data, 0, size) :
            page' = IF throws THEN Loaded(page, FALSE)
                  ELSE IF size > 0 THEN Write(p, Fetched(data, 0, size), page.stat.ptyOffset)
                  ELSE p
    /\ UNCHANGED <<file, cache, rtinfo, infos, save, events, output, opens, truncates, quits, odd>>

StatMain ==
    /\ page.at = "main" /\ page.stat = None
    /\ page' = [page EXCEPT !.stat = Stat(Len(file), 0)]
    /\ UNCHANGED <<file, cache, rtinfo, infos, save, events, output, opens, truncates, quits, odd>>

ReadMain ==
    /\ page.at = "main" /\ page.stat # None
    /\ LET size == page.stat.size
           from == Start(page.from, size)
       IN /\ \E throws \in Throws(file, from, size) :
               page' = IF throws THEN Loaded(page, FALSE)
                       ELSE [Write(page, Fetched(file, from, size), None) EXCEPT !.at = "writing", !.stat = None]
          /\ odd' = IF page.from < from THEN odd \cup {"lapped"} ELSE odd
    /\ UNCHANGED <<file, cache, rtinfo, infos, save, events, output, opens, truncates, quits>>

\* handleNewFileSubjectData. What comes while the page loads is held; nothing
\* reads heldData.
NewFileData ==
    /\ events # <<>>
    /\ events' = Tail(events)
    /\ LET e == Head(events)
       IN page' = IF page.at = "closed" THEN page
                  ELSE IF e.fileop = "truncate" THEN [page EXCEPT !.screen = <<>>, !.heldData = <<>>]
                  ELSE IF page.loaded THEN Write(page, <<e.data>>, None)
                  ELSE [page EXCEPT !.heldData = Append(@, e.data)]
    /\ odd' = IF page.at # "closed" /\ ~page.loaded THEN odd \cup {"raced"} ELSE odd
    /\ UNCHANGED <<file, cache, rtinfo, infos, save, output, opens, truncates, quits>>

\* mutation: what is written before the page has loaded is not counted
ParseUncounted ==
    /\ page.writes # <<>>
    /\ LET w == Head(page.writes)
           heard == page.loaded /\ w.set = None /\ w.data # <<>>
           p == [page EXCEPT !.writes = Tail(@), !.screen = @ \o w.data,
                             !.ptyOffset = IF w.set # None THEN w.set ELSE IF page.loaded THEN @ + Len(w.data) ELSE @,
                             !.processed = IF w.set # None THEN @ ELSE @ + Len(w.data),
                             !.status = IF heard THEN Mark(Last(w.data)) ELSE @]
       IN /\ page' = IF page.at = "writing" /\ p.writes = <<>> THEN Loaded(p, TRUE) ELSE p
          /\ infos' = IF heard THEN Append(infos, p.status) ELSE infos
    /\ UNCHANGED <<file, cache, rtinfo, save, events, output, opens, truncates, quits, odd>>

\* xterm parses what was written. Marks are heard once the page has loaded
\* (handleOsc16162Command), and a cached screen has none; the callback of doTerminalWrite counts.
Parse ==
    /\ page.writes # <<>>
    /\ LET w == Head(page.writes)
           heard == page.loaded /\ w.set = None /\ w.data # <<>>
           p == [page EXCEPT !.writes = Tail(@), !.screen = @ \o w.data,
                             !.ptyOffset = IF w.set # None THEN w.set ELSE @ + Len(w.data),
                             !.processed = IF w.set # None THEN @ ELSE @ + Len(w.data),
                             !.status = IF heard THEN Mark(Last(w.data)) ELSE @]
       IN /\ page' = IF page.at = "writing" /\ p.writes = <<>> THEN Loaded(p, TRUE) ELSE p
          /\ infos' = IF heard THEN Append(infos, p.status) ELSE infos
    /\ UNCHANGED <<file, cache, rtinfo, save, events, output, opens, truncates, quits, odd>>

\* processAndCacheData, every five seconds when idle. One call at a time.
ProcessAndCacheData ==
    /\ page.at = "open" /\ page.caching
    /\ page.processed > 0 /\ page.processed >= MinProcessed
    /\ save = None
    /\ save' = [data |-> page.screen, ptyOffset |-> page.ptyOffset, written |-> FALSE]
    /\ page' = [page EXCEPT !.processed = 0]
    /\ UNCHANGED <<file, cache, rtinfo, infos, events, output, opens, truncates, quits, odd>>

\* dispose, and the end of a page: its events go with it, its calls do not.
Dispose ==
    /\ page.at # "closed"
    /\ page' = ClosedPage
    /\ events' = <<>>
    /\ odd' = odd \cup IF events # <<>> \/ page.writes # <<>> THEN {"unheard"} ELSE {}
    /\ UNCHANGED <<file, cache, rtinfo, infos, save, output, opens, truncates, quits>>

Load == GetRTInfo \/ StatCache \/ ReadCache \/ StatMain \/ ReadMain \/ Parse

TermNext ==
    \/ AppendData \/ Truncate \/ SaveState \/ SaveMeta \/ SetRTInfo \/ Quit
    \/ InitTerminal \/ Load \/ NewFileData \/ ProcessAndCacheData \/ Dispose

TermSpec == TermInit /\ [][TermNext]_termVars /\ WF_termVars(Load)

----
TermTypeOK ==
    /\ file \in Seq(1..MaxOutput)
    /\ cache # None => cache.data \in Seq(1..MaxOutput) /\ cache.ptyOffset \in Nat
    /\ page.at \in {"closed", "rtinfo", "cache", "main", "writing", "open"}
    /\ page.screen \in Seq(1..MaxOutput)
    /\ page.ptyOffset \in Nat /\ page.processed \in Nat
    /\ {page.status, rtinfo} \subseteq {None, "running-command", "ready"}

\* A loaded page that has nothing left to do.
Settled == page.at = "open" /\ events = <<>> /\ page.writes = <<>>

\* The whole output once and in order, whatever was cached, closed and opened
\* before, as long as nothing was written or cleared while a page loaded, no cache
\* was replaced while it was read or found half written, and the file still had
\* what the cache did not.
ScreenIsFile == Settled /\ odd \cap {"raced", "truncated", "torn", "swapped", "lapped"} = {} => page.screen = file

\* A half-written cache repeats output, and hides none. What a circular file has
\* dropped may be missing, in the middle of the screen too, and output may be
\* repeated then, as it is counted short; what the file still has is shown.
Kept(data) == SubSeq(data, DataStartIdx(Len(data)) + 1, Len(data))
NothingHidden == Settled /\ odd \cap {"raced", "truncated", "swapped"} = {} =>
                   ToSet(IF "lapped" \in odd THEN Kept(file) ELSE file) \subseteq ToSet(page.screen)

\* The count the next page starts at: what is shown is the file up to ptyOffset.
CountsShown == page.at = "open" /\ odd \cap {"raced", "truncated", "torn", "swapped", "lapped"} = {}
                   => page.ptyOffset <= Len(file) /\ page.screen = SubSeq(file, 1, page.ptyOffset)

\* The state of the shell that the block shows is that of the last mark, after
\* any number of pages, when a page was there to hear each.
StatusFresh == Settled /\ infos = <<>> /\ odd \cap {"raced", "unheard", "truncated"} = {} /\ file # <<>>
                   => page.status = Mark(Last(file)) /\ rtinfo = page.status

\* An open terminal shows its file and the state of its shell.
ShowsFile == ScreenIsFile /\ NothingHidden /\ CountsShown /\ StatusFresh

\* However the fetches end, the page takes input and follows output in the end.
Loads == page.at = "rtinfo" ~> page.at \in {"open", "closed"}

\* What durable-sessions.mdx:19 promises: "Full scrollback buffer preserved
\* across reconnections", whatever happens while a page loads.
FullScrollback == Settled /\ odd \subseteq {"raced", "unheard"} => ToSet(file) \subseteq ToSet(page.screen)
\* What workspaces.mdx:68 promises: "The tabs, layouts, and terminal and AI
\* histories of a saved workspace are persisted automatically", when a command
\* that clears on start ran and no output came while a page loaded.
HistoryPersisted == Settled /\ odd \subseteq {"truncated", "unheard"} => ToSet(file) \subseteq ToSet(page.screen)
====
