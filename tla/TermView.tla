------------------------------ MODULE TermView ------------------------------
(* A terminal's screen: the block's output file on the server, its events,   *)
(* and the TermWrap of the view that shows it.  A view is filled from a      *)
(* saved screen, from the part of the file after it, and then from events;   *)
(* the saved screen goes with the file offset it is supposed to reach.       *)
(* Saves are sent and not waited for, by views that are shown and by views   *)
(* that were closed: nothing stops the timer of a disposed view.             *)
(* A byte is identified by the order in which it was appended.               *)
EXTENDS Integers, Sequences, SequencesExt

CONSTANTS MaxFile,          \* size of the circular file
          MinDataForCache,  \* bytes processed before a save
          MaxBytes,         \* bound on the bytes appended
          MaxTruncates,     \* bound on the restarts that truncate the file
          MaxViews,         \* bound on the views opened
          MaxSaves          \* bound on the saves

ASSUME TermAssumption ==
  {MaxFile, MinDataForCache, MaxBytes, MaxTruncates, MaxViews, MaxSaves} \subseteq Nat \ {0}

VARIABLES
  termFile,       \* every byte appended since the file was last truncated
  cacheFile,      \* the saved screen: [exists, screen, ptyoffset]
  publishing,     \* the event the block controller is about to publish
  events,         \* published, not yet handled by the page
  saving,         \* the saves under way: the server writes the data, then the offset
  disposed,       \* the closed views whose idle timer still runs
  phase,          \* the view: what it waits for, "loaded", "failed" (loaded, never saved), "none"
  mainOffset,     \* from where the view asked for the file
  mainData,       \* the answer
  terminal,       \* what xterm has parsed
  writes,         \* what xterm has queued: [data, offset], offset -1 to count
  ptyOffset, dataBytesProcessed, heldData,
  appended, truncates, views, saves,
  disturbed       \* history: output or a save was under way while a view was loading, a load
                  \* failed or was cut short, or the steps of two saves crossed

serverVars == <<termFile, cacheFile, saving>>
outputVars == <<publishing, events, appended, truncates>>
loadVars == <<phase, mainOffset, mainData, views>>
termVars == <<terminal, writes, ptyOffset, dataBytesProcessed, heldData>>
vars == <<serverVars, outputVars, loadVars, termVars, disposed, saves, disturbed>>

NoEvent == [fileop |-> "none", byte |-> 0]
Loading == phase \in {"rtinfo", "cache", "main", "fetched", "writing"}
LoadedFlag == phase \in {"loaded", "failed"}
BetweenSteps == {s \in saving : s.step = "meta"}

Init ==
  /\ termFile = <<>> /\ cacheFile = [exists |-> FALSE, screen |-> <<>>, ptyoffset |-> 0]
  /\ publishing = NoEvent /\ events = <<>> /\ saving = {} /\ disposed = {}
  /\ phase = "none" /\ mainOffset = 0 /\ mainData = <<>>
  /\ terminal = <<>> /\ writes = <<>> /\ ptyOffset = 0 /\ dataBytesProcessed = 0 /\ heldData = <<>>
  /\ appended = 0 /\ truncates = 0 /\ views = 0 /\ saves = 0 /\ disturbed = FALSE

-----------------------------------------------------------------------------
(* The block controller: the file changes first, the event is published next. *)

DataStartIdx == IF Len(termFile) > MaxFile THEN Len(termFile) - MaxFile ELSE 0

HandleAppendBlockFile ==
  /\ publishing = NoEvent /\ appended < MaxBytes
  /\ appended' = appended + 1
  /\ termFile' = Append(termFile, appended')
  /\ publishing' = [fileop |-> "append", byte |-> appended']
  /\ disturbed' = (disturbed \/ Loading)
  /\ UNCHANGED <<cacheFile, saving, events, truncates, loadVars, termVars, disposed, saves>>

(* A restarted shell truncates the file and deletes the saved screen. *)
HandleTruncateBlockFile ==
  /\ publishing = NoEvent /\ truncates < MaxTruncates
  /\ truncates' = truncates + 1
  /\ termFile' = <<>>
  /\ cacheFile' = [exists |-> FALSE, screen |-> <<>>, ptyoffset |-> 0]
  /\ publishing' = [fileop |-> "truncate", byte |-> 0]
  /\ disturbed' = (disturbed \/ Loading)
  /\ UNCHANGED <<saving, events, appended, loadVars, termVars, disposed, saves>>

Publish ==
  /\ publishing # NoEvent
  /\ events' = Append(events, publishing)
  /\ publishing' = NoEvent
  /\ disturbed' = (disturbed \/ Loading)
  /\ UNCHANGED <<serverVars, appended, truncates, loadVars, termVars, disposed, saves>>

-----------------------------------------------------------------------------
(* TermWrap *)

DoTerminalWrite(data, offset) == writes' = Append(writes, [data |-> data, offset |-> offset])

HandleNewFileSubjectData_WritesTruncation ==
  /\ events # <<>> /\ LoadedFlag
  /\ DoTerminalWrite(<<Head(events).byte>>, -1)
  /\ events' = Tail(events)
  /\ UNCHANGED <<serverVars, publishing, appended, truncates, loadVars, terminal, ptyOffset, dataBytesProcessed,
                 heldData, disposed, saves, disturbed>>

(* An event for a page without the view is dropped.  One that arrives before *)
(* the view is loaded is put aside.                                          *)
HandleNewFileSubjectData ==
  /\ events # <<>>
  /\ events' = Tail(events)
  /\ disturbed' = (disturbed \/ Loading)
  /\ LET msg == Head(events)
     IN  \/ phase = "none" /\ UNCHANGED <<terminal, writes, heldData>>
         \/ /\ phase # "none" /\ msg.fileop = "truncate"
            /\ terminal' = <<>> /\ heldData' = <<>>
            /\ UNCHANGED writes
         \/ /\ LoadedFlag /\ msg.fileop = "append"
            /\ DoTerminalWrite(<<msg.byte>>, -1)
            /\ UNCHANGED <<terminal, heldData>>
         \/ /\ Loading /\ msg.fileop = "append"
            /\ heldData' = Append(heldData, msg.byte)
            /\ UNCHANGED <<terminal, writes>>
  /\ UNCHANGED <<serverVars, publishing, appended, truncates, loadVars, ptyOffset, dataBytesProcessed, disposed, saves>>

(* xterm parses a queued write and calls back. *)
XtermParses ==
  /\ writes # <<>>
  /\ LET w == Head(writes)
     IN  /\ terminal' = terminal \o w.data
         /\ ptyOffset' = IF w.offset >= 0 THEN w.offset ELSE ptyOffset + Len(w.data)
         /\ dataBytesProcessed' = IF w.offset >= 0 THEN dataBytesProcessed ELSE dataBytesProcessed + Len(w.data)
  /\ writes' = Tail(writes)
  /\ UNCHANGED <<serverVars, outputVars, loadVars, heldData, disposed, saves, disturbed>>

(* A view is mounted: a new TermWrap, subscribed to the file's events first. *)
InitTerminal ==
  /\ phase = "none" /\ views < MaxViews
  /\ views' = views + 1
  /\ phase' = "rtinfo"
  /\ disturbed' = (disturbed \/ publishing # NoEvent \/ events # <<>> \/ BetweenSteps # {})
  /\ UNCHANGED <<serverVars, outputVars, mainOffset, mainData, termVars, disposed, saves>>

(* Failing to get the runtime information is only logged. *)
RTInfoAnswers ==
  /\ phase = "rtinfo" /\ phase' = "cache"
  /\ UNCHANGED <<serverVars, outputVars, mainOffset, mainData, views, termVars, disposed, saves, disturbed>>

(* The saved screen is written with its offset, and the file is asked for    *)
(* from there.                                                               *)
CacheFetched ==
  /\ phase = "cache" /\ phase' = "main"
  /\ IF cacheFile.exists /\ cacheFile.screen # <<>>
     THEN DoTerminalWrite(cacheFile.screen, cacheFile.ptyoffset)
     ELSE UNCHANGED writes
  /\ mainOffset' = cacheFile.ptyoffset
  /\ UNCHANGED <<serverVars, outputVars, mainData, views, terminal, ptyOffset, dataBytesProcessed, heldData,
                 disposed, saves, disturbed>>

(* handleWaveFile: the bytes from the offset, or from the oldest one kept.   *)
FileFrom(offset) ==
  SubSeq(termFile, 1 + (IF offset > DataStartIdx THEN offset ELSE DataStartIdx), Len(termFile))

MainRead ==
  /\ phase = "main" /\ phase' = "fetched"
  /\ mainData' = FileFrom(mainOffset)
  /\ UNCHANGED <<serverVars, outputVars, mainOffset, views, termVars, disposed, saves, disturbed>>

MainFetched ==
  /\ phase = "fetched" /\ phase' = "writing"
  /\ DoTerminalWrite(mainData, -1)
  /\ mainData' = <<>>
  /\ UNCHANGED <<serverVars, outputVars, mainOffset, views, terminal, ptyOffset, dataBytesProcessed, heldData,
                 disposed, saves, disturbed>>

(* The write has been parsed: the view is loaded.  What was put aside stays  *)
(* aside.                                                                    *)
Loaded ==
  /\ phase = "writing" /\ writes = <<>>
  /\ phase' = "loaded"
  /\ UNCHANGED <<serverVars, outputVars, mainOffset, mainData, views, termVars, disposed, saves, disturbed>>

(* A request that fails still ends the loading, but starts no idle saving.   *)
LoadFails ==
  /\ phase \in {"cache", "main"}
  /\ phase' = "failed"
  /\ disturbed' = TRUE
  /\ UNCHANGED <<serverVars, outputVars, mainOffset, mainData, views, termVars, disposed, saves>>

(* processAndCacheData, at an idle moment: the save is sent and not waited   *)
(* for.  Starts are MinTermSaveIntervalMs apart, which does not keep two     *)
(* saves from overlapping.                                                   *)
Send(view, offset) ==
  /\ view.dataBytesProcessed >= MinDataForCache /\ saves < MaxSaves
  /\ saves' = saves + 1
  /\ saving' = saving \cup {[id |-> saves', step |-> "data", screen |-> view.terminal, ptyoffset |-> offset]}
  /\ UNCHANGED <<termFile, cacheFile, outputVars, loadVars, terminal, writes, ptyOffset, heldData, disturbed>>

ThisView == [view |-> views, terminal |-> terminal, writes |-> writes, ptyOffset |-> ptyOffset,
             dataBytesProcessed |-> dataBytesProcessed]

ProcessAndCacheData_CountsQueued ==
  /\ phase = "loaded"
  /\ Send(ThisView, ptyOffset + Len(writes))
  /\ dataBytesProcessed' = 0 /\ UNCHANGED disposed

ProcessAndCacheData ==
  /\ phase = "loaded"
  /\ Send(ThisView, ptyOffset)
  /\ dataBytesProcessed' = 0 /\ UNCHANGED disposed

Become(d, d2) == disposed' = (disposed \ {d}) \cup {d2}

(* The same in a view that was closed: its timer goes on.                    *)
DisposedSaves(d) ==
  /\ Send(d, d.ptyOffset)
  /\ Become(d, [d EXCEPT !.dataBytesProcessed = 0])
  /\ UNCHANGED dataBytesProcessed

(* A block that is an agent's by now is not saved.                           *)
AgentBlockSkips ==
  /\ phase = "loaded" /\ dataBytesProcessed >= MinDataForCache
  /\ dataBytesProcessed' = 0
  /\ UNCHANGED <<serverVars, outputVars, loadVars, terminal, writes, ptyOffset, heldData, disposed, saves, disturbed>>

DisposedSkips(d) ==
  /\ d.dataBytesProcessed >= MinDataForCache
  /\ Become(d, [d EXCEPT !.dataBytesProcessed = 0])
  /\ UNCHANGED <<serverVars, outputVars, loadVars, termVars, saves, disturbed>>

(* SaveTerminalState writes the screen, then its offset. *)
SaveData(s) ==
  /\ s.step = "data"
  /\ cacheFile' = [exists |-> TRUE, screen |-> s.screen, ptyoffset |-> cacheFile.ptyoffset]
  /\ saving' = (saving \ {s}) \cup {[s EXCEPT !.step = "meta"]}
  /\ disturbed' = (disturbed \/ Loading \/ BetweenSteps # {})
  /\ UNCHANGED <<termFile, outputVars, loadVars, termVars, disposed, saves>>

SaveMeta(s) ==
  /\ s.step = "meta"
  /\ cacheFile' = IF cacheFile.exists THEN [cacheFile EXCEPT !.ptyoffset = s.ptyoffset] ELSE cacheFile
  /\ saving' = saving \ {s}
  /\ disturbed' = (disturbed \/ Loading)
  /\ UNCHANGED <<termFile, outputVars, loadVars, termVars, disposed, saves>>

(* dispose: a loaded view keeps its timer, and xterm may still parse what it *)
(* has queued; the events are the next view's.  What a view that is closed   *)
(* while it loads goes on to do is left out.                                 *)
Dispose ==
  /\ phase # "none"
  /\ phase' = "none"
  /\ terminal' = <<>> /\ writes' = <<>> /\ ptyOffset' = 0 /\ dataBytesProcessed' = 0 /\ heldData' = <<>>
  /\ disposed' = IF phase = "loaded" THEN disposed \cup {ThisView} ELSE disposed
  /\ disturbed' = (disturbed \/ Loading)
  /\ UNCHANGED <<serverVars, outputVars, mainOffset, mainData, views, saves>>

DisposedParses(d) ==
  /\ d.writes # <<>>
  /\ LET n == Len(Head(d.writes).data)
     IN  Become(d, [d EXCEPT !.terminal = @ \o Head(d.writes).data, !.writes = Tail(@),
                             !.ptyOffset = @ + n, !.dataBytesProcessed = @ + n])
  /\ UNCHANGED <<serverVars, outputVars, loadVars, termVars, saves, disturbed>>

Next ==
  \/ HandleAppendBlockFile \/ HandleTruncateBlockFile \/ Publish
  \/ HandleNewFileSubjectData \/ XtermParses
  \/ InitTerminal \/ RTInfoAnswers \/ CacheFetched \/ MainRead \/ MainFetched \/ Loaded \/ LoadFails \/ Dispose
  \/ ProcessAndCacheData \/ AgentBlockSkips \/ \E s \in saving : SaveData(s) \/ SaveMeta(s)
  \/ \E d \in disposed : DisposedSaves(d) \/ DisposedSkips(d) \/ DisposedParses(d)

Spec == Init /\ [][Next]_vars

-----------------------------------------------------------------------------
(* Properties. *)

TypeOK ==
  /\ appended \in 0..MaxBytes /\ truncates \in 0..MaxTruncates
  /\ termFile \in Seq(1..MaxBytes) /\ terminal \in Seq(1..MaxBytes) /\ heldData \in Seq(1..MaxBytes)
  /\ cacheFile \in [exists : BOOLEAN, screen : Seq(1..MaxBytes), ptyoffset : Nat]
  /\ saving \subseteq [id : 1..MaxSaves, step : {"data", "meta"}, screen : Seq(1..MaxBytes), ptyoffset : Nat]
  /\ phase \in {"none", "rtinfo", "cache", "main", "fetched", "writing", "loaded", "failed"} /\ mainOffset \in Nat
  /\ ptyOffset \in Nat /\ dataBytesProcessed \in Nat
  /\ views \in 0..MaxViews /\ saves \in 0..MaxSaves /\ disturbed \in BOOLEAN

(* Nothing is left to come: the screen should now show the file. *)
CaughtUp == phase = "loaded" /\ events = <<>> /\ publishing = NoEvent /\ writes = <<>>

Kept == FileFrom(0)

(* The terminal's history is preserved when it is opened again: a loaded     *)
(* view that has handled every event shows every byte the file keeps.        *)
ShowsFile == CaughtUp => \A b \in ToSet(Kept) : b \in ToSet(terminal)

(* Saved screen, offset, file and events fit together as long as the file is *)
(* not truncated, no output comes and no save ends while a view loads, and   *)
(* the server does not write the screen of one save between the two steps of *)
(* another: over any number of views and saves, those of closed views        *)
(* included, the screen shows every byte the file keeps, and each once until *)
(* the file has wrapped.                                                     *)
QuietLoadsAreExact ==
  CaughtUp /\ ~disturbed /\ truncates = 0 =>
    /\ ShowsFile
    /\ appended <= MaxFile => terminal = termFile
=============================================================================
