--------------------------- MODULE TermView_proof ---------------------------
(* A terminal's screen shows the kept part of its file, for every size of the *)
(* file, threshold for a save and number of bytes, views and saves, those of  *)
(* closed views included: saved screen and saved offset fit together as long  *)
(* as the file is not truncated, neither output nor a save is under way while *)
(* a view loads, and no two saves are between their two steps at once.        *)
EXTENDS TermView, SequenceLemmas

-----------------------------------------------------------------------------
(* The inductive invariant. *)

Bytes == 1 .. MaxBytes
Events == [fileop : {"append"}, byte : Bytes] \cup {[fileop |-> "truncate", byte |-> 0]}
Writes == [data : Seq(Bytes), offset : Nat \cup {-1}]
Saves == [id : 1 .. MaxSaves, step : {"data", "meta"}, screen : Seq(Bytes), ptyoffset : Nat]
Views == [view : Nat, terminal : Seq(Bytes), writes : Seq(Writes), ptyOffset : Nat, dataBytesProcessed : Nat]

Types ==
  /\ TypeOK
  /\ publishing \in Events \cup {NoEvent} /\ events \in Seq(Events)
  /\ writes \in Seq(Writes) /\ mainData \in Seq(Bytes) /\ disposed \subseteq Views

(* What the properties speak of: no truncation, no output while loading, and  *)
(* no crossing of saves.                                                      *)
Exact == truncates = 0 /\ ~disturbed

FirstBytes(n) == [i \in 1 .. n |-> i]

(* The data shows the first n bytes, as far as the file keeps them; before    *)
(* the file has wrapped it is those bytes.                                    *)
Reaches(data, n) ==
  /\ n \in 0 .. appended
  /\ \A b \in 1 .. n : b > DataStartIdx => b \in ToSet(data)
  /\ appended <= MaxFile => data = FirstBytes(n)

FileInv == truncates = 0 => termFile = FirstBytes(appended)

(* The saved screen reaches its offset, except between the two steps of a     *)
(* save; what is to be saved reaches its offset.                              *)
CacheInv ==
  Exact =>
    /\ \A s \in saving : Reaches(s.screen, s.ptyoffset)
    /\ BetweenSteps = {} => Reaches(cacheFile.screen, cacheFile.ptyoffset)
    /\ \A s \in BetweenSteps : cacheFile.exists /\ cacheFile.screen = s.screen
    /\ \A s, t \in BetweenSteps : s = t
    /\ cacheFile.screen # <<>> => cacheFile.exists

(* How far a view has come that is being filled: the screen, the offset it    *)
(* counts, and what xterm has yet to parse.                                   *)
Filling(data, offset, rest) == terminal = data /\ ptyOffset = offset /\ writes = rest

ScreenWrite == [data |-> cacheFile.screen, offset |-> cacheFile.ptyoffset]
MainPart == FileFrom(cacheFile.ptyoffset)
MainWrite == [data |-> MainPart, offset |-> -1]

(* A view that loads gets the saved screen, if there is one, and the file     *)
(* from the saved offset on.                                                  *)
ScreenInv ==
  IF cacheFile.screen = <<>>
  THEN Filling(<<>>, 0, <<>>)
  ELSE Filling(<<>>, 0, <<ScreenWrite>>) \/ Filling(cacheFile.screen, cacheFile.ptyoffset, <<>>)

MainInv ==
  IF cacheFile.screen = <<>>
  THEN Filling(<<>>, 0, <<MainWrite>>) \/ Filling(MainPart, Len(MainPart), <<>>)
  ELSE \/ Filling(<<>>, 0, <<ScreenWrite, MainWrite>>)
       \/ Filling(cacheFile.screen, cacheFile.ptyoffset, <<MainWrite>>)
       \/ Filling(cacheFile.screen \o MainPart, cacheFile.ptyoffset + Len(MainPart), <<>>)

LoadInv ==
  Exact /\ Loading =>
    /\ publishing = NoEvent /\ events = <<>> /\ BetweenSteps = {}
    /\ phase \in {"rtinfo", "cache"} => Filling(<<>>, 0, <<>>)
    /\ phase \in {"main", "fetched"} => mainOffset = cacheFile.ptyoffset /\ ScreenInv
    /\ phase = "fetched" => mainData = MainPart
    /\ phase = "writing" => MainInv

(* A loaded view has parsed the file but for the bytes xterm has yet to       *)
(* parse, those in events, and the one about to be published.                 *)
Published == IF publishing = NoEvent THEN appended ELSE appended - 1
Handled == Published - Len(events)
Parsed == Handled - Len(writes)

ShowInv ==
  Exact /\ phase = "loaded" =>
    /\ publishing \in {NoEvent, [fileop |-> "append", byte |-> appended]}
    /\ \A i \in 1 .. Len(events) : events[i] = [fileop |-> "append", byte |-> Handled + i]
    /\ \A i \in 1 .. Len(writes) : writes[i] = [data |-> <<Parsed + i>>, offset |-> -1]
    /\ Reaches(terminal, Parsed)
    /\ ptyOffset <= Parsed /\ (appended <= MaxFile => ptyOffset = Parsed)

PhaseInv ==
  /\ phase = "failed" => disturbed
  /\ phase = "none" => Filling(<<>>, 0, <<>>)

(* A closed view has parsed n bytes, and xterm may go on with the bytes it    *)
(* has queued.                                                                *)
ClosedShows(d, n) ==
  /\ Reaches(d.terminal, n) /\ d.ptyOffset <= n /\ (appended <= MaxFile => d.ptyOffset = n)
  /\ n + Len(d.writes) <= appended
  /\ \A i \in 1 .. Len(d.writes) : d.writes[i] = [data |-> <<n + i>>, offset |-> -1]

DisposedInv == Exact => \A d \in disposed : \E n \in Nat : ClosedShows(d, n)

IInv == Types /\ FileInv /\ CacheInv /\ LoadInv /\ ShowInv /\ PhaseInv /\ DisposedInv

SaveSteps == \E s \in saving : SaveData(s) \/ SaveMeta(s)
ClosedSteps == \E d \in disposed : DisposedSaves(d) \/ DisposedSkips(d) \/ DisposedParses(d)

-----------------------------------------------------------------------------
(* Types. *)

LEMMA ConstantTypes ==
  /\ MaxFile \in Nat \ {0} /\ MinDataForCache \in Nat \ {0} /\ MaxBytes \in Nat \ {0}
  /\ MaxTruncates \in Nat \ {0} /\ MaxViews \in Nat \ {0} /\ MaxSaves \in Nat \ {0}
  BY TermAssumption

LEMMA FileFromType ==
  ASSUME TypeOK, NEW offset \in Nat
  PROVE  FileFrom(offset) \in Seq(Bytes)
  <1>1. termFile \in Seq(Bytes) /\ Len(termFile) \in Nat /\ DataStartIdx \in Nat
    BY ConstantTypes DEF TypeOK, DataStartIdx, Bytes
  <1>2. PICK m \in Nat \ {0} : m = 1 + (IF offset > DataStartIdx THEN offset ELSE DataStartIdx)
    BY <1>1
  <1>3. \A i \in m .. Len(termFile) : termFile[i] \in Bytes
    BY <1>1, ElementOfSeq
  <1>4. SubSeq(termFile, m, Len(termFile)) \in Seq(Bytes)
    BY <1>1, <1>3, SubSeqProperties
  <1> QED BY <1>2, <1>4 DEF FileFrom

LEMMA InitTypes == Init => Types
  <1> SUFFICES ASSUME Init PROVE Types
    OBVIOUS
  <1>1. /\ <<>> \in Seq(Bytes) /\ <<>> \in Seq(Events) /\ <<>> \in Seq(Writes)
    BY EmptySeq
  <1>2. TypeOK
    <2>1. /\ cacheFile \in [exists : BOOLEAN, screen : Seq(Bytes), ptyoffset : Nat]
          /\ saving = {} /\ disposed = {}
      BY <1>1 DEF Init
    <2>2. /\ appended \in 0..MaxBytes /\ truncates \in 0..MaxTruncates
          /\ views \in 0..MaxViews /\ saves \in 0..MaxSaves
          /\ mainOffset \in Nat /\ ptyOffset \in Nat /\ dataBytesProcessed \in Nat
      BY ConstantTypes DEF Init
    <2>3. termFile \in Seq(Bytes) /\ terminal \in Seq(Bytes) /\ heldData \in Seq(Bytes)
      BY <1>1 DEF Init
    <2>4. disturbed \in BOOLEAN /\ phase = "none"
      BY DEF Init
    <2> QED BY <2>1, <2>2, <2>3, <2>4 DEF TypeOK, Bytes
  <1>3. disposed \subseteq Views
    BY DEF Init
  <1> QED BY <1>1, <1>2, <1>3 DEF Init, Types

LEMMA NextTypes ==
  ASSUME Types, Next
  PROVE  Types'
  <1>1. TypeOK /\ publishing \in Events \cup {NoEvent} /\ events \in Seq(Events)
        /\ writes \in Seq(Writes) /\ mainData \in Seq(Bytes)
        /\ <<>> \in Seq(Bytes) /\ disposed \subseteq Views /\ saving \subseteq Saves
    BY EmptySeq DEF Types, TypeOK, Saves, Bytes
  <1>2. /\ termFile \in Seq(Bytes) /\ terminal \in Seq(Bytes) /\ heldData \in Seq(Bytes)
        /\ cacheFile.screen \in Seq(Bytes) /\ cacheFile.ptyoffset \in Nat
        /\ appended \in Nat /\ disturbed \in BOOLEAN
    BY <1>1 DEF TypeOK, Bytes
  <1>3. CASE HandleAppendBlockFile
    <2>1. appended + 1 \in Bytes
      BY <1>2, <1>3, ConstantTypes DEF HandleAppendBlockFile, Bytes
    <2>2. Append(termFile, appended + 1) \in Seq(Bytes)
      BY <1>2, <2>1, AppendProperties
    <2>3. publishing' \in Events
      BY <1>3, <2>1 DEF HandleAppendBlockFile, Events
    <2> QED BY <1>1, <1>3, <2>1, <2>2, <2>3, ConstantTypes
        DEF HandleAppendBlockFile, Types, TypeOK, Bytes, loadVars, termVars
  <1>4. CASE HandleTruncateBlockFile
    <2>1. cacheFile' \in [exists : BOOLEAN, screen : Seq(Bytes), ptyoffset : Nat] /\ termFile' \in Seq(Bytes)
      BY <1>1, <1>4 DEF HandleTruncateBlockFile
    <2>2. truncates' \in 0 .. MaxTruncates /\ disturbed' \in BOOLEAN /\ publishing' \in Events
      BY <1>1, <1>2, <1>4, ConstantTypes DEF HandleTruncateBlockFile, TypeOK, Events
    <2>3. UNCHANGED <<saving, events, appended, loadVars, termVars, disposed, saves>>
      BY <1>4 DEF HandleTruncateBlockFile
    <2> QED BY <1>1, <2>1, <2>2, <2>3 DEF Types, TypeOK, Bytes, loadVars, termVars
  <1>5. CASE Publish
    <2>1. publishing \in Events
      BY <1>1, <1>5 DEF Publish
    <2>2. Append(events, publishing) \in Seq(Events)
      BY <1>1, <2>1, AppendProperties
    <2> QED BY <1>1, <1>5, <2>2 DEF Publish, Types, TypeOK, serverVars, loadVars, termVars
  <1>6. CASE HandleNewFileSubjectData
    <2>1. Head(events) \in Events /\ Tail(events) \in Seq(Events)
      BY <1>1, <1>6, RangeHeadTail DEF HandleNewFileSubjectData
    <2>2. Head(events).fileop = "append" => Head(events).byte \in Bytes
      BY <2>1 DEF Events
    <2>3. terminal' \in Seq(Bytes) /\ writes' \in Seq(Writes) /\ heldData' \in Seq(Bytes)
      <3>1. ASSUME Head(events).fileop = "append"
            PROVE  /\ Append(writes, [data |-> <<Head(events).byte>>, offset |-> -1]) \in Seq(Writes)
                   /\ Append(heldData, Head(events).byte) \in Seq(Bytes)
        <4>1. <<Head(events).byte>> \in Seq(Bytes)
          BY <2>2, <3>1
        <4>2. [data |-> <<Head(events).byte>>, offset |-> -1] \in Writes
          BY <4>1 DEF Writes
        <4> QED BY <1>1, <1>2, <2>2, <3>1, <4>2, AppendProperties
      <3> QED BY <1>1, <1>2, <1>6, <3>1 DEF HandleNewFileSubjectData, DoTerminalWrite
    <2> QED BY <1>1, <1>6, <2>1, <2>3 DEF HandleNewFileSubjectData, Types, TypeOK, Bytes, serverVars, loadVars
  <1>7. CASE XtermParses
    <2>1. Head(writes) \in Writes /\ Tail(writes) \in Seq(Writes)
      BY <1>1, <1>7, RangeHeadTail DEF XtermParses
    <2>2. /\ Head(writes).data \in Seq(Bytes) /\ Len(Head(writes).data) \in Nat
          /\ Head(writes).offset \in Nat \cup {-1}
      BY <2>1 DEF Writes
    <2>3. terminal \o Head(writes).data \in Seq(Bytes)
      BY <1>2, <2>2, ConcatProperties
    <2>4. ptyOffset' \in Nat /\ dataBytesProcessed' \in Nat
      <3>1. PICK o \in Nat \cup {-1}, k \in Nat : o = Head(writes).offset /\ k = Len(Head(writes).data)
        BY <2>2
      <3>2. /\ ptyOffset' = IF o >= 0 THEN o ELSE ptyOffset + k
            /\ dataBytesProcessed' = IF o >= 0 THEN dataBytesProcessed ELSE dataBytesProcessed + k
        BY <1>7, <3>1 DEF XtermParses
      <3>3. ptyOffset \in Nat /\ dataBytesProcessed \in Nat
        BY <1>1 DEF TypeOK
      <3> QED BY <3>2, <3>3
    <2> QED BY <1>1, <1>7, <2>1, <2>3, <2>4 DEF XtermParses, Types, TypeOK, Bytes, serverVars, outputVars, loadVars
  <1>8. CASE InitTerminal \/ RTInfoAnswers \/ Loaded \/ LoadFails
    <2>1. /\ views' \in 0..MaxViews /\ disturbed' \in BOOLEAN /\ phase' \in {"rtinfo", "cache", "loaded", "failed"}
          /\ UNCHANGED <<serverVars, outputVars, mainOffset, mainData, termVars, disposed, saves>>
      <3>1. disturbed' \in BOOLEAN
        BY <1>2, <1>8 DEF InitTerminal, RTInfoAnswers, Loaded, LoadFails
      <3>2. views' \in 0..MaxViews
        <4>1. views' = views \/ (views' = views + 1 /\ views < MaxViews)
          BY <1>8 DEF InitTerminal, RTInfoAnswers, Loaded, LoadFails
        <4>2. views \in 0..MaxViews
          BY <1>1 DEF TypeOK
        <4> QED BY <4>1, <4>2, ConstantTypes
      <3> QED BY <1>8, <3>1, <3>2 DEF InitTerminal, RTInfoAnswers, Loaded, LoadFails
    <2> QED BY <1>1, <2>1 DEF Types, TypeOK, serverVars, outputVars, termVars
  <1>9. CASE CacheFetched
    <2>1. writes' \in Seq(Writes)
      <3>1. [data |-> cacheFile.screen, offset |-> cacheFile.ptyoffset] \in Writes
        BY <1>2 DEF Writes
      <3> QED BY <1>1, <1>9, <3>1, AppendProperties DEF CacheFetched, DoTerminalWrite
    <2> QED BY <1>1, <1>2, <1>9, <2>1 DEF CacheFetched, Types, TypeOK, serverVars, outputVars
  <1>10. CASE MainRead
    <2>1. FileFrom(mainOffset) \in Seq(Bytes)
      BY <1>1, FileFromType DEF TypeOK
    <2> QED BY <1>1, <1>10, <2>1 DEF MainRead, Types, TypeOK, serverVars, outputVars, termVars
  <1>11. CASE MainFetched
    <2>1. writes' \in Seq(Writes)
      <3>1. [data |-> mainData, offset |-> -1] \in Writes
        BY <1>1 DEF Writes
      <3> QED BY <1>1, <1>11, <3>1, AppendProperties DEF MainFetched, DoTerminalWrite
    <2> QED BY <1>1, <1>2, <1>11, <2>1 DEF MainFetched, Types, TypeOK, serverVars, outputVars
  <1>12. ASSUME NEW view, NEW offset \in Nat, Send(view, offset), view.terminal \in Seq(Bytes),
                dataBytesProcessed' \in Nat, disposed' \subseteq Views
         PROVE  Types'
    <2>1. PICK n \in 1 .. MaxSaves : saves' = n
      <3>1. saves' = saves + 1 /\ saves < MaxSaves /\ saves \in Nat
        BY <1>1, <1>12, ConstantTypes DEF Send, TypeOK
      <3> QED BY <3>1, ConstantTypes
    <2>2. saving' \subseteq Saves
      <3>1. saving' = saving \cup {[id |-> n, step |-> "data", screen |-> view.terminal, ptyoffset |-> offset]}
        BY <1>12, <2>1 DEF Send
      <3>2. [id |-> n, step |-> "data", screen |-> view.terminal, ptyoffset |-> offset] \in Saves
        BY <1>12, <2>1 DEF Saves
      <3> QED BY <1>1, <3>1, <3>2
    <2>3. saves' \in 0 .. MaxSaves
      BY <2>1, ConstantTypes
    <2>4. UNCHANGED <<termFile, cacheFile, outputVars, loadVars, terminal, writes, ptyOffset, heldData, disturbed>>
      BY <1>12 DEF Send
    <2> QED BY <1>1, <1>12, <2>2, <2>3, <2>4 DEF Types, TypeOK, Saves, Bytes, outputVars, loadVars
  <1>13. CASE ProcessAndCacheData
    <2>1. Send(ThisView, ptyOffset) /\ dataBytesProcessed' = 0 /\ disposed' = disposed
      BY <1>13 DEF ProcessAndCacheData
    <2>2. ThisView.terminal \in Seq(Bytes) /\ ptyOffset \in Nat
      BY <1>1, <1>2 DEF ThisView, TypeOK
    <2> QED BY <1>1, <1>12, <2>1, <2>2
  <1>14. CASE AgentBlockSkips
    BY <1>1, <1>14 DEF AgentBlockSkips, Types, TypeOK, serverVars, outputVars, loadVars
  <1>15. CASE SaveSteps
    <2>1. PICK s \in saving : SaveData(s) \/ SaveMeta(s)
      BY <1>15 DEF SaveSteps
    <2>2. /\ s \in Saves /\ s.screen \in Seq(Bytes) /\ s.ptyoffset \in Nat
          /\ [s EXCEPT !.step = "meta"] \in Saves
      BY <1>1, <2>1 DEF Saves
    <2>3. cacheFile' \in [exists : BOOLEAN, screen : Seq(Bytes), ptyoffset : Nat]
      <3>1. cacheFile \in [exists : BOOLEAN, screen : Seq(Bytes), ptyoffset : Nat]
        BY <1>1 DEF TypeOK, Bytes
      <3>2. CASE SaveData(s)
        BY <2>2, <3>1, <3>2 DEF SaveData
      <3>3. CASE SaveMeta(s)
        <4>1. cacheFile' = cacheFile \/ cacheFile' = [cacheFile EXCEPT !.ptyoffset = s.ptyoffset]
          BY <3>3 DEF SaveMeta
        <4>2. [cacheFile EXCEPT !.ptyoffset = s.ptyoffset] \in [exists : BOOLEAN, screen : Seq(Bytes), ptyoffset : Nat]
          BY <2>2, <3>1
        <4> QED BY <3>1, <4>1, <4>2
      <3> QED BY <2>1, <3>2, <3>3
    <2>4. saving' \subseteq Saves
      BY <1>1, <2>1, <2>2 DEF SaveData, SaveMeta
    <2>5. disturbed' \in BOOLEAN
      BY <1>2, <2>1 DEF SaveData, SaveMeta
    <2>6. UNCHANGED <<termFile, outputVars, loadVars, termVars, disposed, saves>>
      BY <2>1 DEF SaveData, SaveMeta
    <2> QED BY <1>1, <2>3, <2>4, <2>5, <2>6 DEF Types, TypeOK, Saves, Bytes, outputVars, loadVars, termVars
  <1>16. CASE Dispose
    <2>1. disposed' \subseteq Views
      <3>1. ThisView \in Views
        BY <1>1, <1>2 DEF ThisView, Views, TypeOK
      <3> QED BY <1>1, <1>16, <3>1 DEF Dispose
    <2>2. disturbed' \in BOOLEAN
      BY <1>2, <1>16 DEF Dispose
    <2> QED BY <1>1, <1>16, <2>1, <2>2, EmptySeq DEF Dispose, Types, TypeOK, Bytes, serverVars, outputVars
  <1>17. CASE ClosedSteps
    <2>1. PICK d \in disposed : DisposedSaves(d) \/ DisposedSkips(d) \/ DisposedParses(d)
      BY <1>17 DEF ClosedSteps
    <2>2. /\ d \in Views /\ d.terminal \in Seq(Bytes) /\ d.writes \in Seq(Writes)
          /\ d.ptyOffset \in Nat /\ d.dataBytesProcessed \in Nat
      BY <1>1, <2>1 DEF Views
    <2>3. CASE DisposedSaves(d)
      <3>1. [d EXCEPT !.dataBytesProcessed = 0] \in Views
        BY <2>2 DEF Views
      <3>2. Send(d, d.ptyOffset) /\ dataBytesProcessed' \in Nat /\ disposed' \subseteq Views
        BY <1>1, <2>3, <3>1 DEF DisposedSaves, Become, TypeOK
      <3> QED BY <1>12, <2>2, <3>2
    <2>4. CASE DisposedParses(d)
      <3>1. Head(d.writes) \in Writes /\ Tail(d.writes) \in Seq(Writes)
        BY <2>2, <2>4, RangeHeadTail DEF DisposedParses
      <3>2. PICK n \in Nat, t \in Seq(Bytes) : n = Len(Head(d.writes).data) /\ t = d.terminal \o Head(d.writes).data
        <4>1. PICK x, y \in Seq(Bytes) : x = d.terminal /\ y = Head(d.writes).data
          BY <2>2, <3>1 DEF Writes
        <4>2. x \o y \in Seq(Bytes) /\ Len(y) \in Nat
          BY <4>1, ConcatProperties
        <4> QED BY <4>1, <4>2
      <3>3. [d EXCEPT !.terminal = t, !.writes = Tail(d.writes), !.ptyOffset = d.ptyOffset + n,
                      !.dataBytesProcessed = d.dataBytesProcessed + n] \in Views
        <4>1. d.ptyOffset + n \in Nat /\ d.dataBytesProcessed + n \in Nat
          BY <2>2, <3>2
        <4>2. PICK o \in Nat, b \in Nat, w \in Seq(Writes) :
                o = d.ptyOffset + n /\ b = d.dataBytesProcessed + n /\ w = Tail(d.writes)
          BY <3>1, <4>1
        <4>3. [d EXCEPT !.terminal = t, !.writes = w, !.ptyOffset = o, !.dataBytesProcessed = b] \in Views
          BY <2>2, <3>2, <4>2 DEF Views
        <4> QED BY <4>2, <4>3
      <3>4. disposed' \subseteq Views
        BY <1>1, <2>4, <3>2, <3>3 DEF DisposedParses, Become
      <3> QED BY <1>1, <2>4, <3>4 DEF DisposedParses, Types, TypeOK, serverVars, outputVars, loadVars, termVars
    <2>5. CASE DisposedSkips(d)
      <3>1. [d EXCEPT !.dataBytesProcessed = 0] \in Views
        BY <2>2 DEF Views
      <3>2. disposed' \subseteq Views
        BY <1>1, <2>5, <3>1 DEF DisposedSkips, Become
      <3> QED BY <1>1, <2>5, <3>2 DEF DisposedSkips, Types, TypeOK, serverVars, outputVars, loadVars, termVars
    <2> QED BY <2>1, <2>3, <2>4, <2>5
  <1> QED BY <1>3, <1>4, <1>5, <1>6, <1>7, <1>8, <1>9, <1>10, <1>11, <1>13, <1>14, <1>15, <1>16, <1>17
      DEF Next, SaveSteps, ClosedSteps

-----------------------------------------------------------------------------
(* Data that shows the first bytes of the file. *)

LEMMA FirstBytesProperties ==
  ASSUME NEW n \in Nat
  PROVE  /\ FirstBytes(n) \in Seq(Nat) /\ Len(FirstBytes(n)) = n
         /\ \A i \in 1 .. n : FirstBytes(n)[i] = i
         /\ n = 0 => FirstBytes(n) = <<>>
  <1>1. FirstBytes(n) \in [1 .. n -> Nat]
    BY DEF FirstBytes
  <1> QED BY <1>1 DEF FirstBytes

LEMMA FirstBytesNext ==
  ASSUME NEW n \in Nat
  PROVE  /\ Append(FirstBytes(n), n + 1) = FirstBytes(n + 1)
         /\ FirstBytes(n) \o <<n + 1>> = FirstBytes(n + 1)
  <1> DEFINE s == FirstBytes(n)
             t == FirstBytes(n + 1)
  <1>1. /\ s \in Seq(Nat) /\ Len(s) = n /\ \A i \in 1 .. n : s[i] = i
        /\ t \in Seq(Nat) /\ Len(t) = n + 1 /\ \A i \in 1 .. n + 1 : t[i] = i
    BY FirstBytesProperties
  <1> HIDE DEF s, t
  <1>2. /\ Append(s, n + 1) \in Seq(Nat) /\ Len(Append(s, n + 1)) = n + 1
        /\ \A i \in 1 .. n : Append(s, n + 1)[i] = s[i]
        /\ Append(s, n + 1)[n + 1] = n + 1
    BY <1>1, AppendProperties
  <1>3. \A i \in 1 .. n + 1 : Append(s, n + 1)[i] = t[i]
    BY <1>1, <1>2
  <1>4. Append(s, n + 1) = t
    BY <1>1, <1>2, <1>3, SeqEqual
  <1>5. Append(s, n + 1) = s \o <<n + 1>>
    BY <1>1, AppendIsConcat
  <1> QED BY <1>4, <1>5 DEF s, t

LEMMA FileFacts ==
  ASSUME Types, FileInv, truncates = 0
  PROVE  /\ termFile = FirstBytes(appended) /\ Len(termFile) = appended /\ appended \in Nat
         /\ DataStartIdx = IF appended > MaxFile THEN appended - MaxFile ELSE 0
         /\ DataStartIdx \in 0 .. appended
  <1>1. appended \in Nat
    BY DEF Types, TypeOK
  <1>2. termFile = FirstBytes(appended) /\ Len(termFile) = appended
    BY <1>1, FirstBytesProperties DEF FileInv
  <1> QED BY <1>1, <1>2, ConstantTypes DEF DataStartIdx

LEMMA ReachesNothing ==
  ASSUME NEW d, d = <<>>, appended \in Nat
  PROVE  Reaches(d, 0)
  BY FirstBytesProperties DEF Reaches

(* One more byte parsed. *)
LEMMA ReachesNext ==
  ASSUME NEW d \in Seq(Bytes), NEW n \in Nat, Reaches(d, n), n + 1 \in Bytes, n + 1 <= appended,
         appended \in Nat
  PROVE  Reaches(d \o <<n + 1>>, n + 1)
  <1>1. PICK e \in Seq(Bytes) : e = <<n + 1>> /\ Range(e) = {n + 1}
    <2>1. <<n + 1>> \in Seq(Bytes)
      OBVIOUS
    <2> QED BY <2>1, RangeOne
  <1>2. Range(d \o e) = Range(d) \cup {n + 1}
    <2>1. Range(d \o e) = Range(d) \cup Range(e)
      BY RangeConcat
    <2> QED BY <1>1, <2>1
  <1>3. ToSet(d \o e) = Range(d \o e) /\ ToSet(d) = Range(d)
    BY DEF ToSet, Range
  <1>4. \A b \in 1 .. n + 1 : b \in 1 .. n \/ b = n + 1
    OBVIOUS
  <1>5. \A b \in 1 .. n + 1 : b > DataStartIdx => b \in ToSet(d \o e)
    BY <1>2, <1>3, <1>4 DEF Reaches
  <1>6. appended <= MaxFile => d \o e = FirstBytes(n + 1)
    BY <1>1, FirstBytesNext DEF Reaches
  <1>7. n + 1 \in 0 .. appended
    OBVIOUS
  <1> QED BY <1>1, <1>5, <1>6, <1>7 DEF Reaches

(* A smaller offset is reached as well, once the file has wrapped. *)
LEMMA ReachesLess ==
  ASSUME NEW d, NEW n \in Nat, NEW m \in Nat, Reaches(d, n), m <= n, appended \in Nat,
         appended <= MaxFile => m = n
  PROVE  Reaches(d, m)
  BY DEF Reaches

(* The part of the file from an offset on. *)
LEMMA MainPartFacts ==
  ASSUME Types, FileInv, truncates = 0, NEW o \in 0 .. appended
  PROVE  LET m == IF o > DataStartIdx THEN o ELSE DataStartIdx
         IN  /\ FileFrom(o) \in Seq(Bytes)
             /\ Len(FileFrom(o)) = appended - m
             /\ \A i \in 1 .. appended - m : FileFrom(o)[i] = m + i
             /\ m \in 0 .. appended
  <1>1. PICK m \in 0 .. appended : m = IF o > DataStartIdx THEN o ELSE DataStartIdx
    BY FileFacts
  <1>2. /\ termFile \in Seq(Bytes) /\ Len(termFile) = appended /\ appended \in Nat
        /\ \A i \in 1 .. appended : termFile[i] = i
    BY FileFacts, FirstBytesProperties DEF Types, TypeOK, Bytes
  <1>3. FileFrom(o) = SubSeq(termFile, m + 1, appended)
    <2>1. m + 1 = 1 + (IF o > DataStartIdx THEN o ELSE DataStartIdx)
      BY <1>1
    <2> QED BY <1>2, <2>1 DEF FileFrom
  <1>4. \A i \in m + 1 .. appended : termFile[i] \in Bytes
    BY <1>2, ElementOfSeq
  <1>5. /\ SubSeq(termFile, m + 1, appended) \in Seq(Bytes)
        /\ Len(SubSeq(termFile, m + 1, appended)) = IF m + 1 <= appended THEN appended - (m + 1) + 1 ELSE 0
        /\ \A i \in 1 .. appended - (m + 1) + 1 : SubSeq(termFile, m + 1, appended)[i] = termFile[m + 1 + i - 1]
    BY <1>2, <1>4, SubSeqProperties
  <1>6. \A i \in 1 .. appended - m : FileFrom(o)[i] = m + i
    <2> SUFFICES ASSUME NEW i \in 1 .. appended - m PROVE FileFrom(o)[i] = m + i
      OBVIOUS
    <2>1. i \in 1 .. appended - (m + 1) + 1 /\ m + 1 + i - 1 = m + i /\ m + i \in 1 .. appended
      BY <1>2
    <2> QED BY <1>2, <1>3, <1>5, <2>1
  <1>7. Len(FileFrom(o)) = appended - m
    BY <1>2, <1>3, <1>5
  <1> QED BY <1>1, <1>3, <1>5, <1>6, <1>7

(* A view filled from a saved screen and the file from its offset on shows    *)
(* what the file keeps; without a saved screen the offset is that of none.    *)
LEMMA FilledReaches ==
  ASSUME Types, FileInv, truncates = 0, NEW d \in Seq(Bytes), NEW o \in Nat, Reaches(d, o)
  PROVE  /\ Reaches(d \o FileFrom(o), appended)
         /\ o + Len(FileFrom(o)) <= appended
         /\ appended <= MaxFile => o + Len(FileFrom(o)) = appended
         /\ d = <<>> => Reaches(FileFrom(o), appended) /\ (appended <= MaxFile => o = 0)
  <1>1. /\ o \in 0 .. appended /\ appended \in Nat /\ DataStartIdx \in 0 .. appended
        /\ appended <= MaxFile => DataStartIdx = 0
    BY FileFacts, ConstantTypes DEF Reaches
  <1>2. PICK m \in 0 .. appended :
          /\ m = IF o > DataStartIdx THEN o ELSE DataStartIdx
          /\ FileFrom(o) \in Seq(Bytes) /\ Len(FileFrom(o)) = appended - m
          /\ \A i \in 1 .. appended - m : FileFrom(o)[i] = m + i
    BY <1>1, MainPartFacts
  <1>3. PICK f \in Seq(Bytes) : f = FileFrom(o)
    BY <1>2
  <1>4. \A b \in m + 1 .. appended : b \in Range(f)
    <2> SUFFICES ASSUME NEW b \in m + 1 .. appended PROVE b \in Range(f)
      OBVIOUS
    <2>1. b - m \in 1 .. Len(f) /\ f[b - m] = b
      BY <1>1, <1>2, <1>3
    <2> QED BY <2>1, RangeEquality
  <1>5. ToSet(d \o f) = Range(d) \cup Range(f) /\ ToSet(d) = Range(d)
    <2>1. Range(d \o f) = Range(d) \cup Range(f)
      BY RangeConcat
    <2> QED BY <2>1 DEF ToSet, Range
  <1>6. \A b \in 1 .. appended : b > DataStartIdx => b \in ToSet(d \o f)
    <2> SUFFICES ASSUME NEW b \in 1 .. appended, b > DataStartIdx PROVE b \in Range(d) \cup Range(f)
      BY <1>5
    <2>1. b \in 1 .. o \/ b \in m + 1 .. appended
      BY <1>1, <1>2
    <2> QED BY <1>4, <1>5, <2>1 DEF Reaches
  <1>7. ASSUME appended <= MaxFile
        PROVE  d \o f = FirstBytes(appended) /\ m = o
    <2>1. m = o /\ d = FirstBytes(o)
      BY <1>1, <1>2, <1>7 DEF Reaches
    <2>2. Len(d) = o /\ (\A i \in 1 .. o : d[i] = i) /\ Len(f) = appended - o
      BY <1>2, <1>3, <2>1, FirstBytesProperties
    <2>3. /\ d \o f \in Seq(Nat) /\ Len(d \o f) = appended
          /\ \A i \in 1 .. appended : (d \o f)[i] = i
      <3>1. /\ d \o f \in Seq(Bytes) /\ Len(d \o f) = Len(d) + Len(f)
            /\ \A i \in 1 .. Len(d) + Len(f) : (d \o f)[i] = IF i <= Len(d) THEN d[i] ELSE f[i - Len(d)]
        BY ConcatProperties
      <3>2. Len(d \o f) = appended
        BY <1>1, <2>2, <3>1
      <3>3. \A i \in 1 .. appended : (d \o f)[i] = i
        <4> SUFFICES ASSUME NEW i \in 1 .. appended PROVE (d \o f)[i] = i
          OBVIOUS
        <4>1. CASE i <= o
          BY <1>1, <2>2, <3>1, <4>1
        <4>2. CASE i > o
          <5>1. i - o \in 1 .. appended - m /\ ~(i <= Len(d)) /\ m + (i - o) = i
            BY <1>1, <2>1, <2>2, <4>2
          <5>2. (d \o f)[i] = f[i - o]
            BY <1>1, <2>2, <3>1, <5>1
          <5> QED BY <1>2, <1>3, <5>1, <5>2
        <4>3. i <= o \/ i > o
          BY <1>1
        <4> QED BY <4>1, <4>2, <4>3
      <3>4. d \o f \in Seq(Nat)
        <4>1. Bytes \subseteq Nat
          BY DEF Bytes
        <4> QED BY <3>1, <4>1, SeqMonotonic
      <3> QED BY <3>2, <3>3, <3>4
    <2>4. /\ FirstBytes(appended) \in Seq(Nat) /\ Len(FirstBytes(appended)) = appended
          /\ \A i \in 1 .. appended : FirstBytes(appended)[i] = i
      BY <1>1, FirstBytesProperties
    <2>5. \A i \in 1 .. appended : (d \o f)[i] = FirstBytes(appended)[i]
      BY <2>3, <2>4
    <2>6. d \o f = FirstBytes(appended)
      BY <2>3, <2>4, <2>5, SeqEqual
    <2> QED BY <2>1, <2>6
  <1>8. Reaches(d \o f, appended)
    BY <1>1, <1>6, <1>7 DEF Reaches
  <1>9. /\ o + Len(f) <= appended
        /\ appended <= MaxFile => o + Len(f) = appended
    BY <1>1, <1>2, <1>3, <1>7
  <1>10. ASSUME d = <<>>
         PROVE  Reaches(f, appended) /\ (appended <= MaxFile => o = 0)
    <2>1. d \o f = f
      BY <1>10, ConcatEmptySeq
    <2>2. appended <= MaxFile => Len(d) = o
      BY <1>1, FirstBytesProperties DEF Reaches
    <2> QED BY <1>8, <1>10, <2>1, <2>2
  <1> QED BY <1>3, <1>8, <1>9, <1>10

(* More output leaves what the data shows as it is.                           *)
LEMMA ReachesStep ==
  ASSUME Types, HandleAppendBlockFile \/ UNCHANGED <<termFile, appended>>,
         NEW d, NEW n, Reaches(d, n)
  PROVE  Reaches(d, n)'
  <1>1. appended \in Nat /\ Len(termFile) \in Nat /\ termFile \in Seq(Bytes)
    BY DEF Types, TypeOK, Bytes
  <1>2. CASE HandleAppendBlockFile
    <2>1. appended' = appended + 1
      BY <1>2 DEF HandleAppendBlockFile
    <2>2. Len(termFile') = Len(termFile) + 1
      BY <1>1, <1>2 DEF HandleAppendBlockFile
    <2>3. PICK l \in Nat : l = Len(termFile)
      BY <1>1
    <2>4. /\ DataStartIdx = IF l > MaxFile THEN l - MaxFile ELSE 0
          /\ DataStartIdx' = IF l + 1 > MaxFile THEN l + 1 - MaxFile ELSE 0
      BY <1>1, <2>2, <2>3, ConstantTypes DEF DataStartIdx
    <2>5. \A b \in 1 .. n : b > DataStartIdx' => b > DataStartIdx
      <3>1. PICK x \in Nat, y \in Nat : x = DataStartIdx /\ y = DataStartIdx' /\ y >= x
        BY <2>4, ConstantTypes
      <3>2. n \in Nat
        BY <1>1 DEF Reaches
      <3> QED BY <3>1, <3>2
    <2> QED BY <1>1, <2>1, <2>5, ConstantTypes DEF Reaches
  <1>3. CASE UNCHANGED <<termFile, appended>>
    BY <1>3 DEF Reaches, DataStartIdx
  <1> QED BY <1>2, <1>3

-----------------------------------------------------------------------------
(* Steps that keep a view exact. *)

LEMMA ExactBefore ==
  ASSUME Types, Next, Exact'
  PROVE  Exact /\ ~HandleTruncateBlockFile /\ ~LoadFails
  <1>1. truncates \in Nat /\ disturbed \in BOOLEAN
    BY ConstantTypes DEF Types, TypeOK
  <1>2. truncates' = 0 /\ disturbed' = FALSE
    <2>1. disturbed' \in BOOLEAN
      BY NextTypes DEF Types, TypeOK
    <2> QED BY <2>1 DEF Exact
  <1>3. ~HandleTruncateBlockFile
    BY <1>1, <1>2 DEF HandleTruncateBlockFile
  <1>4. ~LoadFails
    BY <1>2 DEF LoadFails
  <1>5. truncates = 0
    BY <1>2, <1>3 DEF Next, HandleAppendBlockFile, Publish, HandleNewFileSubjectData, XtermParses, InitTerminal,
      RTInfoAnswers, CacheFetched, MainRead, MainFetched, Loaded, LoadFails, Dispose, ProcessAndCacheData, SaveData,
      SaveMeta, AgentBlockSkips, DisposedSaves, DisposedSkips, DisposedParses, Send, outputVars
  <1>6. ~disturbed
    BY <1>1, <1>2, <1>3, Zenon DEF Next, HandleAppendBlockFile, Publish, HandleNewFileSubjectData, XtermParses,
      InitTerminal, RTInfoAnswers, CacheFetched, MainRead, MainFetched, Loaded, LoadFails, Dispose,
      ProcessAndCacheData, SaveData, SaveMeta, AgentBlockSkips, DisposedSaves, DisposedSkips, DisposedParses, Send
  <1> QED BY <1>3, <1>4, <1>5, <1>6 DEF Exact

(* Output, and a save, while a view loads disturb it.                         *)
LEMMA LoadingUndisturbed ==
  ASSUME Loading, ~disturbed', Next
  PROVE  ~HandleAppendBlockFile /\ ~Publish /\ ~HandleNewFileSubjectData /\ ~SaveSteps
  BY DEF HandleAppendBlockFile, Publish, HandleNewFileSubjectData, SaveSteps, SaveData, SaveMeta

LEMMA FileStep ==
  ASSUME Types, Next
  PROVE  HandleAppendBlockFile \/ HandleTruncateBlockFile \/ UNCHANGED <<termFile, appended, truncates>>
  BY DEF Next, Publish, HandleNewFileSubjectData, XtermParses, InitTerminal, RTInfoAnswers, CacheFetched, MainRead,
    MainFetched, Loaded, LoadFails, Dispose, ProcessAndCacheData, AgentBlockSkips, SaveData, SaveMeta,
    DisposedSaves, DisposedSkips, DisposedParses, Send, outputVars, serverVars

LEMMA NextFile ==
  ASSUME Types, FileInv, Next
  PROVE  FileInv'
  <1> SUFFICES ASSUME truncates' = 0 PROVE termFile' = FirstBytes(appended')
    BY DEF FileInv
  <1>1. appended \in Nat /\ truncates \in Nat
    BY ConstantTypes DEF Types, TypeOK
  <1>2. CASE HandleAppendBlockFile
    <2>1. termFile = FirstBytes(appended) /\ termFile' = Append(termFile, appended + 1) /\ appended' = appended + 1
      BY <1>2 DEF HandleAppendBlockFile, FileInv
    <2> QED BY <1>1, <2>1, FirstBytesNext
  <1>3. ~HandleTruncateBlockFile
    BY <1>1 DEF HandleTruncateBlockFile
  <1>4. CASE UNCHANGED <<termFile, appended, truncates>>
    BY <1>4 DEF FileInv
  <1> QED BY <1>2, <1>3, <1>4, FileStep

LEMMA NextPhase ==
  ASSUME Types, PhaseInv, Next
  PROVE  PhaseInv'
  <1>1. disturbed \in BOOLEAN
    BY DEF Types, TypeOK
  <1>2. CASE HandleAppendBlockFile \/ HandleTruncateBlockFile \/ Publish \/ SaveSteps
    BY <1>2 DEF HandleAppendBlockFile, HandleTruncateBlockFile, Publish, SaveSteps, SaveData, SaveMeta, loadVars,
      termVars, PhaseInv, Filling
  <1>3. CASE HandleNewFileSubjectData
    BY <1>3 DEF HandleNewFileSubjectData, loadVars, LoadedFlag, Loading, PhaseInv, Filling
  <1>4. CASE XtermParses
    BY <1>4 DEF XtermParses, loadVars, PhaseInv, Filling
  <1>5. CASE InitTerminal \/ RTInfoAnswers \/ CacheFetched \/ MainRead \/ MainFetched \/ Loaded \/ LoadFails
    BY <1>5 DEF InitTerminal, RTInfoAnswers, CacheFetched, MainRead, MainFetched, Loaded, LoadFails, PhaseInv
  <1>6. CASE Dispose
    BY <1>6 DEF Dispose, PhaseInv, Filling
  <1>7. CASE ProcessAndCacheData \/ AgentBlockSkips \/ ClosedSteps
    BY <1>7 DEF ProcessAndCacheData, AgentBlockSkips, ClosedSteps, DisposedSaves, DisposedSkips, DisposedParses,
      Send, loadVars, termVars, PhaseInv, Filling
  <1> QED BY <1>2, <1>3, <1>4, <1>5, <1>6, <1>7 DEF Next, SaveSteps, ClosedSteps

(* Data that reaches n bytes shows m of them, if m is what a view counts.     *)
LEMMA CountedReached ==
  ASSUME NEW d, NEW n \in Nat, NEW m \in Nat, Reaches(d, n), m <= n, appended <= MaxFile => m = n,
         appended \in Nat
  PROVE  Reaches(d, m)
  BY ReachesLess

(* A save that is sent is of a screen that reaches its offset.                *)
LEMMA SendCache ==
  ASSUME CacheInv, Exact, Types, NEW view, NEW offset, Send(view, offset), Reaches(view.terminal, offset)
  PROVE  CacheInv'
  <1>1. PICK n : n = [id |-> saves', step |-> "data", screen |-> view.terminal, ptyoffset |-> offset]
    OBVIOUS
  <1>2. saving' = saving \cup {n} /\ n.step = "data" /\ n.screen = view.terminal /\ n.ptyoffset = offset
    BY <1>1 DEF Send
  <1>3. BetweenSteps' = BetweenSteps /\ UNCHANGED <<cacheFile, termFile, appended>>
    BY <1>2 DEF BetweenSteps, Send, outputVars
  <1>4. UNCHANGED DataStartIdx
    BY <1>3 DEF DataStartIdx
  <1>5. \A s \in saving' : Reaches(s.screen, s.ptyoffset)
    BY <1>2 DEF CacheInv
  <1> QED BY <1>3, <1>4, <1>5 DEF CacheInv, Reaches

LEMMA NextCache ==
  ASSUME IInv, Next
  PROVE  CacheInv'
  <1> SUFFICES ASSUME Exact' PROVE CacheInv'
    BY DEF CacheInv
  <1>1. /\ Types /\ CacheInv /\ ShowInv /\ DisposedInv /\ Exact /\ ~HandleTruncateBlockFile /\ ~LoadFails
        /\ appended \in Nat /\ ptyOffset \in Nat
    BY ExactBefore DEF IInv, Types, TypeOK
  <1>2. HandleAppendBlockFile \/ UNCHANGED <<termFile, appended>>
    BY <1>1, FileStep
  <1>3. ASSUME UNCHANGED <<saving, cacheFile>>
        PROVE  CacheInv'
    <2>1. UNCHANGED BetweenSteps
      BY <1>3 DEF BetweenSteps
    <2>2. ASSUME NEW s \in saving'
          PROVE  Reaches(s.screen, s.ptyoffset)'
      <3>1. PICK d, n : d = s.screen /\ n = s.ptyoffset
        OBVIOUS
      <3>2. Reaches(d, n)
        BY <1>1, <1>3, <2>2, <3>1 DEF CacheInv
      <3> QED BY <1>1, <1>2, <3>1, <3>2, ReachesStep
    <2>3. ASSUME BetweenSteps' = {}
          PROVE  Reaches(cacheFile.screen, cacheFile.ptyoffset)'
      <3>1. PICK d, n : d = cacheFile.screen /\ n = cacheFile.ptyoffset
        OBVIOUS
      <3>2. Reaches(d, n)'
        BY <1>1, <1>2, <2>1, <2>3, <3>1, ReachesStep DEF CacheInv
      <3> QED BY <1>3, <3>1, <3>2
    <2> QED BY <1>1, <1>3, <2>1, <2>2, <2>3 DEF CacheInv
  <1>4. CASE ProcessAndCacheData
    <2>1. Send(ThisView, ptyOffset) /\ ThisView.terminal = terminal /\ phase = "loaded"
      BY <1>4 DEF ProcessAndCacheData, ThisView
    <2>2. Reaches(terminal, ptyOffset)
      <3>1. PICK p \in Nat : Reaches(terminal, p) /\ ptyOffset <= p /\ (appended <= MaxFile => ptyOffset = p)
        <4>1. /\ Reaches(terminal, Parsed) /\ ptyOffset <= Parsed
              /\ appended <= MaxFile => ptyOffset = Parsed
          BY <1>1, <2>1 DEF ShowInv
        <4> QED BY <1>1, <4>1 DEF Reaches
      <3> QED BY <1>1, <3>1, CountedReached
    <2> QED BY <1>1, <2>1, <2>2, SendCache
  <1>5. ASSUME NEW d \in disposed, DisposedSaves(d)
        PROVE  CacheInv'
    <2>1. PICK n \in Nat : ClosedShows(d, n)
      BY <1>1, <1>5 DEF DisposedInv
    <2>2. d.ptyOffset \in Nat
      BY <1>1, <1>5 DEF Types, Views
    <2>3. Reaches(d.terminal, d.ptyOffset)
      BY <1>1, <2>1, <2>2, CountedReached DEF ClosedShows
    <2> QED BY <1>1, <1>5, <2>3, SendCache DEF DisposedSaves
  <1>6. ASSUME NEW s \in saving, SaveData(s)
        PROVE  CacheInv'
    <2>1. BetweenSteps = {} /\ s \in Saves /\ s.step = "data" /\ Reaches(s.screen, s.ptyoffset)
      <3>1. disturbed' = FALSE
        <4>1. disturbed' \in BOOLEAN
          BY <1>1, NextTypes DEF Types, TypeOK
        <4> QED BY <4>1 DEF Exact
      <3>2. BetweenSteps = {}
        BY <1>6, <3>1 DEF SaveData
      <3> QED BY <1>1, <1>6, <3>2 DEF SaveData, CacheInv, Types, TypeOK, Saves, Bytes
    <2>2. PICK t, x, m : t = [s EXCEPT !.step = "meta"] /\ x = s.screen /\ m = s.ptyoffset
      OBVIOUS
    <2>3. t.step = "meta" /\ t.screen = x /\ t.ptyoffset = m
      BY <2>1, <2>2 DEF Saves
    <2>4. /\ saving' = (saving \ {s}) \cup {t} /\ cacheFile'.exists = TRUE /\ cacheFile'.screen = x
          /\ UNCHANGED <<termFile, appended>>
      BY <1>6, <2>2 DEF SaveData, outputVars
    <2>5. BetweenSteps' = {t}
      BY <2>1, <2>3, <2>4 DEF BetweenSteps
    <2>6. ASSUME NEW u \in saving'
          PROVE  Reaches(u.screen, u.ptyoffset)'
      <3>1. PICK d, n : d = u.screen /\ n = u.ptyoffset
        OBVIOUS
      <3>2. Reaches(d, n)
        BY <1>1, <2>1, <2>2, <2>3, <2>4, <2>6, <3>1 DEF CacheInv
      <3> QED BY <1>1, <1>2, <3>1, <3>2, ReachesStep
    <2> QED BY <2>3, <2>4, <2>5, <2>6 DEF CacheInv
  <1>7. ASSUME NEW s \in saving, SaveMeta(s)
        PROVE  CacheInv'
    <2>1. /\ s \in BetweenSteps /\ Reaches(s.screen, s.ptyoffset) /\ cacheFile.exists /\ cacheFile.screen = s.screen
          /\ BetweenSteps = {s}
      <3>1. s \in BetweenSteps
        BY <1>7 DEF SaveMeta, BetweenSteps
      <3> QED BY <1>1, <1>7, <3>1 DEF CacheInv
    <2>2. PICK x, m : x = s.screen /\ m = s.ptyoffset
      OBVIOUS
    <2>3. /\ saving' = saving \ {s} /\ cacheFile'.exists /\ cacheFile'.screen = x /\ cacheFile'.ptyoffset = m
          /\ UNCHANGED <<termFile, appended>>
      BY <1>1, <1>7, <2>1, <2>2 DEF SaveMeta, outputVars, Types, TypeOK
    <2>4. BetweenSteps' = {}
      BY <2>1, <2>3 DEF BetweenSteps
    <2>5. Reaches(x, m)'
      BY <1>1, <1>2, <2>1, <2>2, ReachesStep
    <2>6. Reaches(cacheFile.screen, cacheFile.ptyoffset)'
      BY <2>3, <2>5
    <2>7. ASSUME NEW u \in saving'
          PROVE  Reaches(u.screen, u.ptyoffset)'
      <3>1. PICK d, n : d = u.screen /\ n = u.ptyoffset
        OBVIOUS
      <3>2. Reaches(d, n)
        BY <1>1, <2>3, <2>7, <3>1 DEF CacheInv
      <3> QED BY <1>1, <1>2, <3>1, <3>2, ReachesStep
    <2> QED BY <2>3, <2>4, <2>6, <2>7 DEF CacheInv
  <1>8. UNCHANGED <<saving, cacheFile>> \/ ProcessAndCacheData \/ SaveSteps \/ \E d \in disposed : DisposedSaves(d)
    BY <1>1 DEF Next, SaveSteps, HandleAppendBlockFile, Publish, HandleNewFileSubjectData, XtermParses, InitTerminal,
      RTInfoAnswers, CacheFetched, MainRead, MainFetched, Loaded, Dispose, AgentBlockSkips, DisposedSkips,
      DisposedParses, serverVars
  <1> QED BY <1>3, <1>4, <1>5, <1>6, <1>7, <1>8 DEF SaveSteps

-----------------------------------------------------------------------------
(* A view that loads. *)

LEMMA NextLoad ==
  ASSUME IInv, Next
  PROVE  LoadInv'
  <1> SUFFICES ASSUME Exact', Loading' PROVE LoadInv'
    BY DEF LoadInv
  <1>1. /\ Types /\ CacheInv /\ LoadInv /\ PhaseInv /\ Exact /\ ~HandleTruncateBlockFile /\ ~LoadFails
        /\ disturbed' = FALSE /\ disturbed = FALSE
    <2>1. disturbed \in BOOLEAN /\ disturbed' \in BOOLEAN
      BY NextTypes DEF IInv, Types, TypeOK
    <2> QED BY <2>1, ExactBefore DEF IInv, Exact
  <1>2. ASSUME phase' = phase
        PROVE  ~HandleAppendBlockFile /\ ~Publish /\ ~HandleNewFileSubjectData /\ ~SaveSteps
    <2>1. Loading
      BY <1>2 DEF Loading
    <2> QED BY <1>1, <2>1, LoadingUndisturbed
  <1>3. /\ ~HandleAppendBlockFile /\ ~Publish /\ ~HandleNewFileSubjectData /\ ~SaveSteps
        /\ ~ProcessAndCacheData /\ ~AgentBlockSkips /\ ~Loaded /\ ~Dispose
    <2>1. ~ProcessAndCacheData /\ ~AgentBlockSkips /\ ~Loaded /\ ~Dispose
      BY DEF ProcessAndCacheData, AgentBlockSkips, Send, Loaded, Dispose, Loading, loadVars
    <2>2. HandleAppendBlockFile \/ Publish \/ HandleNewFileSubjectData \/ SaveSteps => phase' = phase
      BY DEF HandleAppendBlockFile, Publish, HandleNewFileSubjectData, SaveSteps, SaveData, SaveMeta, loadVars
    <2> QED BY <1>2, <2>1, <2>2
  <1>4. UNCHANGED <<termFile, cacheFile, publishing, events>> /\ UNCHANGED BetweenSteps
    <2>1. ASSUME ~ClosedSteps
          PROVE  UNCHANGED <<termFile, cacheFile, publishing, events, saving>>
      BY <1>1, <1>3, <2>1 DEF Next, SaveSteps, ClosedSteps, XtermParses, InitTerminal, RTInfoAnswers, CacheFetched,
        MainRead, MainFetched, serverVars, outputVars
    <2>2. ASSUME NEW d \in disposed, DisposedSkips(d) \/ DisposedParses(d)
          PROVE  UNCHANGED <<termFile, cacheFile, publishing, events, saving>>
      BY <2>2 DEF DisposedSkips, DisposedParses, serverVars, outputVars
    <2>3. ASSUME NEW d \in disposed, DisposedSaves(d)
          PROVE  UNCHANGED <<termFile, cacheFile, publishing, events>> /\ UNCHANGED BetweenSteps
      BY <2>3 DEF DisposedSaves, Send, BetweenSteps, outputVars
    <2>4. UNCHANGED saving => UNCHANGED BetweenSteps
      BY DEF BetweenSteps
    <2> QED BY <2>1, <2>2, <2>3, <2>4 DEF ClosedSteps
  <1>5. UNCHANGED <<ScreenWrite, MainPart, MainWrite>>
    BY <1>4 DEF ScreenWrite, MainWrite, MainPart, FileFrom, DataStartIdx
  <1>6. CASE InitTerminal
    <2>1. /\ phase' = "rtinfo" /\ publishing = NoEvent /\ events = <<>> /\ BetweenSteps = {}
          /\ UNCHANGED <<terminal, writes, ptyOffset>> /\ phase = "none"
      BY <1>1, <1>6 DEF InitTerminal, termVars
    <2>2. Filling(<<>>, 0, <<>>)'
      BY <1>1, <2>1 DEF PhaseInv, Filling
    <2> QED BY <1>4, <2>1, <2>2 DEF LoadInv, NoEvent
  <1>7. ASSUME ~InitTerminal
        PROVE  /\ Loading /\ (publishing = NoEvent /\ events = <<>> /\ BetweenSteps = {})
               /\ (publishing = NoEvent /\ events = <<>> /\ BetweenSteps = {})'
    <2>1. Loading
      <3>1. ClosedSteps => phase' = phase
        BY DEF ClosedSteps, DisposedSaves, DisposedSkips, DisposedParses, Send, loadVars
      <3> QED BY <1>1, <1>3, <1>7, <3>1 DEF Next, SaveSteps, ClosedSteps, XtermParses, RTInfoAnswers, CacheFetched,
          MainRead, MainFetched, Loading, loadVars
    <2>2. publishing = NoEvent /\ events = <<>> /\ BetweenSteps = {}
      BY <1>1, <2>1 DEF LoadInv
    <2> QED BY <1>4, <2>1, <2>2 DEF NoEvent
  <1>8. CASE RTInfoAnswers
    <2>1. phase = "rtinfo" /\ phase' = "cache" /\ UNCHANGED <<terminal, writes, ptyOffset>>
      BY <1>8 DEF RTInfoAnswers, termVars
    <2>2. Filling(<<>>, 0, <<>>)'
      BY <1>1, <1>7, <2>1 DEF LoadInv, Filling, InitTerminal
    <2> QED BY <1>7, <2>1, <2>2 DEF LoadInv, InitTerminal
  <1>9. CASE CacheFetched
    <2>1. /\ phase = "cache" /\ phase' = "main" /\ UNCHANGED <<terminal, ptyOffset>>
          /\ mainOffset' = cacheFile'.ptyoffset
      BY <1>4, <1>9 DEF CacheFetched
    <2>2. Filling(<<>>, 0, <<>>)
      BY <1>1, <1>7, <2>1 DEF LoadInv, InitTerminal
    <2>3. ScreenInv'
      <3>1. CASE cacheFile.screen = <<>>
        <4>1. writes' = writes
          BY <1>9, <3>1 DEF CacheFetched
        <4> QED BY <1>4, <2>1, <2>2, <3>1, <4>1 DEF ScreenInv, Filling
      <3>2. CASE cacheFile.screen # <<>>
        <4>1. cacheFile.exists
          BY <1>1, <3>2 DEF CacheInv
        <4>2. writes' = Append(<<>>, ScreenWrite)
          BY <1>9, <2>2, <3>2, <4>1 DEF CacheFetched, DoTerminalWrite, ScreenWrite, Filling
        <4>3. writes' = <<ScreenWrite>>
          BY <4>2
        <4> QED BY <1>4, <1>5, <2>1, <2>2, <3>2, <4>3 DEF ScreenInv, Filling
      <3> QED BY <3>1, <3>2
    <2> QED BY <1>7, <2>1, <2>3 DEF LoadInv, InitTerminal
  <1>10. CASE MainRead
    <2>1. /\ phase = "main" /\ phase' = "fetched" /\ UNCHANGED <<terminal, writes, ptyOffset, mainOffset>>
          /\ mainData' = FileFrom(mainOffset)
      BY <1>10 DEF MainRead, termVars
    <2>2. mainOffset = cacheFile.ptyoffset /\ ScreenInv
      BY <1>1, <1>7, <2>1 DEF LoadInv, InitTerminal
    <2>3. ScreenInv'
      BY <1>4, <1>5, <2>1, <2>2 DEF ScreenInv, Filling
    <2>4. mainData' = MainPart'
      BY <1>5, <2>1, <2>2 DEF MainPart
    <2> QED BY <1>4, <1>7, <2>1, <2>2, <2>3, <2>4 DEF LoadInv, InitTerminal
  <1>11. CASE MainFetched
    <2>1. /\ phase = "fetched" /\ phase' = "writing" /\ UNCHANGED <<terminal, ptyOffset>>
          /\ writes' = Append(writes, [data |-> mainData, offset |-> -1])
      BY <1>11 DEF MainFetched, DoTerminalWrite
    <2>2. mainData = MainPart /\ ScreenInv
      BY <1>1, <1>7, <2>1 DEF LoadInv, InitTerminal
    <2>3. PICK m, s : m = MainWrite /\ s = ScreenWrite
      OBVIOUS
    <2>4. writes' = Append(writes, m)
      BY <2>1, <2>2, <2>3 DEF MainWrite
    <2>5. /\ writes = <<>> => writes' = <<m>>
          /\ writes = <<s>> => writes' = <<s, m>>
      <3>1. Append(<<>>, m) = <<m>> /\ Append(<<s>>, m) = <<s, m>>
        BY AppendSecond
      <3> QED BY <2>4, <3>1
    <2>6. m = MainWrite' /\ s = ScreenWrite'
      BY <1>5, <2>3
    <2>7. MainInv'
      BY <1>4, <2>1, <2>2, <2>3, <2>5, <2>6 DEF ScreenInv, MainInv, Filling
    <2> QED BY <1>7, <2>1, <2>7 DEF LoadInv, InitTerminal
  <1>12. CASE XtermParses
    <2>1. PICK w : w = Head(writes)
      OBVIOUS
    <2>2. /\ UNCHANGED <<phase, mainOffset, mainData>> /\ writes # <<>> /\ writes' = Tail(writes)
          /\ terminal' = terminal \o w.data
          /\ ptyOffset' = IF w.offset >= 0 THEN w.offset ELSE ptyOffset + Len(w.data)
          /\ Loading
      BY <1>7, <1>12, <2>1 DEF XtermParses, loadVars, InitTerminal
    <2>3. PICK s, c, m, t, r :
            /\ s = cacheFile.screen /\ c = cacheFile.ptyoffset /\ m = MainPart
            /\ t = MainWrite /\ r = ScreenWrite
      OBVIOUS
    <2>4. /\ s = cacheFile.screen' /\ c = cacheFile.ptyoffset' /\ m = MainPart' /\ t = MainWrite'
      BY <1>4, <1>5, <2>3
    <2>5. s \in Seq(Bytes) /\ m \in Seq(Bytes) /\ Len(m) \in Nat /\ c \in Nat
      <3>1. s \in Seq(Bytes) /\ c \in Nat
        BY <1>1, <2>3 DEF Types, TypeOK, Bytes
      <3>2. m \in Seq(Bytes)
        BY <1>1, <2>3, <3>1, FileFromType DEF MainPart, Types
      <3> QED BY <3>1, <3>2
    <2>6. r = [data |-> s, offset |-> c] /\ t = [data |-> m, offset |-> -1]
      BY <2>3 DEF ScreenWrite, MainWrite
    <2>11. /\ Head(<<t>>) = t /\ Tail(<<t>>) = <<>> /\ Head(<<r>>) = r /\ Tail(<<r>>) = <<>>
           /\ Head(<<r, t>>) = r /\ Tail(<<r, t>>) = <<t>>
      OBVIOUS
    <2>7. CASE phase \in {"rtinfo", "cache"}
      BY <1>1, <2>2, <2>7 DEF LoadInv, Filling
    <2>8. ASSUME Filling(<<>>, 0, <<ScreenWrite>>)
          PROVE  Filling(s, c, <<>>)'
      <3>1. w = [data |-> s, offset |-> c] /\ Tail(writes) = <<>>
        BY <2>1, <2>3, <2>6, <2>8, <2>11 DEF Filling
      <3>2. ptyOffset' = c /\ terminal' = <<>> \o s
        BY <2>2, <2>5, <2>8, <3>1 DEF Filling
      <3> QED BY <2>2, <2>5, <3>1, <3>2, ConcatEmptySeq DEF Filling
    <2>9. CASE phase \in {"main", "fetched"}
      <3>1. mainOffset = cacheFile.ptyoffset /\ ScreenInv /\ (phase = "fetched" => mainData = MainPart)
        BY <1>1, <2>2, <2>9 DEF LoadInv
      <3>2. s # <<>> /\ Filling(<<>>, 0, <<ScreenWrite>>)
        BY <2>2, <2>3, <3>1 DEF ScreenInv, Filling
      <3>3. ScreenInv'
        BY <2>4, <2>8, <3>2 DEF ScreenInv, Filling
      <3> QED BY <1>4, <1>5, <1>7, <1>12, <2>2, <2>9, <3>1, <3>3 DEF LoadInv, InitTerminal, XtermParses
    <2>10. CASE phase = "writing"
      <3>1. MainInv
        BY <1>1, <2>2, <2>10 DEF LoadInv
      <3>2. ASSUME s = <<>> /\ Filling(<<>>, 0, <<MainWrite>>)
            PROVE  MainInv'
        <4>1. w = [data |-> m, offset |-> -1] /\ Tail(writes) = <<>> /\ terminal = <<>> /\ ptyOffset = 0
          BY <2>1, <2>3, <2>6, <2>11, <3>2 DEF Filling
        <4>2. terminal' = <<>> \o m /\ ptyOffset' = 0 + Len(m)
          BY <2>2, <4>1
        <4>3. Filling(m, Len(m), <<>>)'
          BY <2>2, <2>5, <4>1, <4>2, ConcatEmptySeq DEF Filling
        <4>4. (cacheFile.screen = <<>>)' /\ Filling(MainPart, Len(MainPart), <<>>)'
          BY <2>3, <2>4, <3>2, <4>3 DEF Filling
        <4> QED BY <4>4 DEF MainInv
      <3>3. ASSUME s # <<>> /\ Filling(<<>>, 0, <<ScreenWrite, MainWrite>>)
            PROVE  MainInv'
        <4>1. w = [data |-> s, offset |-> c] /\ Tail(writes) = <<t>> /\ terminal = <<>>
          BY <2>1, <2>3, <2>6, <2>11, <3>3 DEF Filling
        <4>2. terminal' = <<>> \o s /\ ptyOffset' = c
          BY <2>2, <2>5, <4>1
        <4>3. Filling(s, c, <<t>>)'
          BY <2>2, <2>5, <4>1, <4>2, ConcatEmptySeq DEF Filling
        <4>4. (cacheFile.screen # <<>>)' /\ Filling(cacheFile.screen, cacheFile.ptyoffset, <<MainWrite>>)'
          BY <2>3, <2>4, <3>3, <4>3 DEF Filling
        <4> QED BY <4>4 DEF MainInv
      <3>4. ASSUME s # <<>> /\ Filling(s, c, <<MainWrite>>)
            PROVE  MainInv'
        <4>1. w = [data |-> m, offset |-> -1] /\ Tail(writes) = <<>> /\ terminal = s /\ ptyOffset = c
          BY <2>1, <2>3, <2>6, <2>11, <3>4 DEF Filling
        <4>2. terminal' = s \o m /\ ptyOffset' = c + Len(m)
          BY <2>2, <4>1
        <4>3. Filling(s \o m, c + Len(m), <<>>)'
          BY <2>2, <4>1, <4>2 DEF Filling
        <4>4. (cacheFile.screen # <<>>)' /\ Filling(cacheFile.screen \o MainPart, cacheFile.ptyoffset + Len(MainPart), <<>>)'
          BY <2>3, <2>4, <3>4, <4>3 DEF Filling
        <4> QED BY <4>4 DEF MainInv
      <3>5. MainInv'
        <4>1. ~Filling(MainPart, Len(MainPart), <<>>)
              /\ ~Filling(cacheFile.screen \o MainPart, cacheFile.ptyoffset + Len(MainPart), <<>>)
          BY <2>2 DEF Filling
        <4>2. s = cacheFile.screen
          BY <2>3
        <4>3. \/ s = <<>> /\ Filling(<<>>, 0, <<MainWrite>>)
              \/ s # <<>> /\ Filling(<<>>, 0, <<ScreenWrite, MainWrite>>)
              \/ s # <<>> /\ Filling(s, c, <<MainWrite>>)
          BY <2>3, <3>1, <4>1 DEF MainInv
        <4> QED BY <3>2, <3>3, <3>4, <4>3
      <3> QED BY <1>7, <1>12, <2>2, <2>10, <3>5 DEF LoadInv, InitTerminal, XtermParses
    <2> QED BY <2>2, <2>7, <2>9, <2>10 DEF Loading
  <1>13. CASE ClosedSteps
    <2>1. UNCHANGED <<phase, mainOffset, mainData, terminal, writes, ptyOffset>>
      BY <1>13 DEF ClosedSteps, DisposedSaves, DisposedSkips, DisposedParses, Send, loadVars, termVars
    <2>2. ~InitTerminal
      BY <1>7, <2>1 DEF InitTerminal, Loading
    <2>3. UNCHANGED <<ScreenInv, MainInv>> /\ UNCHANGED Filling(<<>>, 0, <<>>)
      BY <1>4, <1>5, <2>1 DEF ScreenInv, MainInv, Filling
    <2> QED BY <1>1, <1>4, <1>5, <1>7, <2>1, <2>2, <2>3 DEF LoadInv
  <1> QED BY <1>1, <1>3, <1>6, <1>8, <1>9, <1>10, <1>11, <1>12, <1>13 DEF Next, SaveSteps, ClosedSteps

-----------------------------------------------------------------------------
(* A loaded view. *)

AppendEvent(b) == [fileop |-> "append", byte |-> b]
ByteWrite(b) == [data |-> <<b>>, offset |-> -1]

(* The same facts of the numbers themselves: a bytes appended, h handled by   *)
(* the page, p parsed by xterm; e events and w writes to go.                  *)
Shows(a, h, p, e, w) ==
  /\ a = appended /\ e = Len(events) /\ w = Len(writes)
  /\ \/ publishing = NoEvent /\ a = h + e
     \/ publishing = AppendEvent(a) /\ a = h + e + 1
  /\ h = p + w
  /\ \A i \in 1 .. e : events[i] = AppendEvent(h + i)
  /\ \A i \in 1 .. w : writes[i] = ByteWrite(p + i)
  /\ Reaches(terminal, p) /\ ptyOffset <= p /\ (a <= MaxFile => ptyOffset = p)

LEMMA ShowFacts ==
  ASSUME IInv, Exact, phase = "loaded"
  PROVE  \E a, h, p, e, w \in Nat : Shows(a, h, p, e, w)
  <1>1. Types /\ ShowInv
    BY DEF IInv
  <1>2. PICK a \in Nat, e \in Nat, w \in Nat : a = appended /\ e = Len(events) /\ w = Len(writes)
    <2>1. appended \in Nat /\ Len(events) \in Nat /\ Len(writes) \in Nat
      BY <1>1 DEF Types, TypeOK
    <2> QED BY <2>1
  <1>3. PICK p \in Nat : p = Parsed
    <2>1. Parsed \in Nat
      BY <1>1, <1>2 DEF ShowInv, Reaches
    <2> QED BY <2>1
  <1>4. PICK q \in Int : q = Published /\ (publishing = NoEvent => q = a) /\ (publishing # NoEvent => q = a - 1)
    <2>1. Published = IF publishing = NoEvent THEN a ELSE a - 1
      BY <1>2 DEF Published
    <2>2. Published \in Int
      BY <2>1
    <2> QED BY <2>1, <2>2
  <1>5. PICK h \in Int : h = Handled /\ h = q - e
    BY <1>2, <1>4 DEF Handled
  <1>6. p = h - w
    BY <1>2, <1>3, <1>5 DEF Parsed
  <1>7. h \in Nat /\ h = p + w
    BY <1>6
  <1>8. /\ \A i \in 1 .. e : events[i] = AppendEvent(h + i)
        /\ \A i \in 1 .. w : writes[i] = ByteWrite(p + i)
        /\ Reaches(terminal, p) /\ ptyOffset <= p /\ (a <= MaxFile => ptyOffset = p)
        /\ publishing \in {NoEvent, AppendEvent(a)}
    BY <1>1, <1>2, <1>3, <1>5 DEF ShowInv, AppendEvent, ByteWrite
  <1>9. \/ publishing = NoEvent /\ a = h + e
        \/ publishing = AppendEvent(a) /\ a = h + e + 1
    <2>1. CASE publishing = NoEvent
      BY <1>4, <1>5, <2>1
    <2>2. CASE publishing # NoEvent
      <3>1. a = h + e + 1
        BY <1>4, <1>5, <2>2
      <3> QED BY <1>8, <2>2, <3>1
    <2> QED BY <2>1, <2>2
  <1>10. Shows(a, h, p, e, w)
    BY <1>2, <1>7, <1>8, <1>9 DEF Shows
  <1> QED BY <1>7, <1>10

(* And back, for the next state. *)
LEMMA ShowBack ==
  ASSUME NEW a \in Nat, NEW h \in Nat, NEW p \in Nat, NEW e \in Nat, NEW w \in Nat, Shows(a, h, p, e, w)'
  PROVE  ShowInv'
  <1>0. /\ a = appended' /\ e = Len(events') /\ w = Len(writes')
        /\ \/ publishing' = NoEvent /\ a = h + e
           \/ publishing' = AppendEvent(a) /\ a = h + e + 1
        /\ h = p + w
        /\ \A i \in 1 .. e : events'[i] = AppendEvent(h + i)
        /\ \A i \in 1 .. w : writes'[i] = ByteWrite(p + i)
        /\ Reaches(terminal, p)' /\ ptyOffset' <= p /\ (a <= MaxFile => ptyOffset' = p)
    BY DEF Shows, NoEvent, AppendEvent, ByteWrite
  <1>1. AppendEvent(a) # NoEvent
    BY DEF AppendEvent, NoEvent
  <1>2. Published' = h + e
    <2>1. Published' = IF publishing' = NoEvent THEN a ELSE a - 1
      BY <1>0 DEF Published, NoEvent
    <2>2. CASE publishing' = NoEvent
      BY <1>0, <1>1, <2>1, <2>2
    <2>3. CASE publishing' # NoEvent
      BY <1>0, <1>1, <2>1, <2>3
    <2> QED BY <2>2, <2>3
  <1>3. Handled' = h
    BY <1>0, <1>2 DEF Handled
  <1>4. Parsed' = p
    BY <1>0, <1>3 DEF Parsed
  <1>5. publishing' \in {NoEvent, AppendEvent(a)}
    BY <1>0
  <1> QED BY <1>0, <1>3, <1>4, <1>5 DEF ShowInv, AppendEvent, ByteWrite, NoEvent

LEMMA NextShow ==
  ASSUME IInv, Next
  PROVE  ShowInv'
  <1> SUFFICES ASSUME Exact', phase' = "loaded" PROVE ShowInv'
    BY DEF ShowInv
  <1>1. Types /\ FileInv /\ CacheInv /\ LoadInv /\ Exact /\ ~HandleTruncateBlockFile /\ ~LoadFails
        /\ truncates = 0 /\ disturbed' = FALSE
    <2>1. disturbed' \in BOOLEAN
      BY NextTypes DEF IInv, Types, TypeOK
    <2> QED BY <2>1, ExactBefore DEF IInv, Exact
  <1>2. HandleAppendBlockFile \/ UNCHANGED <<termFile, appended>>
    BY <1>1, FileStep
  <1>3. CASE Loaded
    <2>1. /\ phase = "writing" /\ writes = <<>> /\ Loading
          /\ UNCHANGED <<termFile, appended, publishing, events, terminal, writes, ptyOffset>>
      BY <1>3 DEF Loaded, Loading, serverVars, outputVars, termVars
    <2>2. MainInv /\ publishing = NoEvent /\ events = <<>> /\ BetweenSteps = {}
      BY <1>1, <2>1 DEF LoadInv
    <2>3. PICK s, c, f : s = cacheFile.screen /\ c = cacheFile.ptyoffset /\ f = FileFrom(c)
      OBVIOUS
    <2>4. s \in Seq(Bytes) /\ c \in Nat /\ Reaches(s, c)
      BY <1>1, <2>2, <2>3 DEF Types, TypeOK, Bytes, CacheInv
    <2>5. /\ Reaches(s \o f, appended)
          /\ c + Len(f) <= appended
          /\ appended <= MaxFile => c + Len(f) = appended
          /\ s = <<>> => Reaches(f, appended) /\ (appended <= MaxFile => c = 0)
          /\ f \in Seq(Bytes)
      BY <1>1, <2>3, <2>4, FilledReaches, FileFromType DEF Types
    <2>6. \/ s = <<>> /\ terminal = f /\ ptyOffset = Len(f)
          \/ s # <<>> /\ terminal = s \o f /\ ptyOffset = c + Len(f)
      BY <2>1, <2>2, <2>3 DEF MainInv, Filling, MainPart
    <2>7. PICK a \in Nat, o \in Nat, t \in Seq(Bytes) : a = appended /\ t = terminal /\ o = ptyOffset
      <3>1. appended \in Nat /\ ptyOffset \in Nat /\ terminal \in Seq(Bytes)
        BY <1>1 DEF Types, TypeOK, Bytes
      <3> QED BY <3>1
    <2>8. Reaches(t, a) /\ o <= a /\ (a <= MaxFile => o = a)
      <3>1. Len(f) \in Nat
        BY <2>5
      <3>2. CASE s = <<>>
        BY <2>4, <2>5, <2>6, <2>7, <3>1, <3>2
      <3>3. CASE s # <<>>
        BY <2>4, <2>5, <2>6, <2>7, <3>1, <3>3
      <3> QED BY <3>2, <3>3
    <2>9. Reaches(t, a)'
      BY <1>1, <2>1, <2>8, ReachesStep
    <2>10. Reaches(terminal, a)'
      BY <2>1, <2>7, <2>9
    <2>11. /\ a = appended' /\ Len(events') = 0 /\ Len(writes') = 0 /\ publishing' = NoEvent /\ ptyOffset' = o
      BY <2>1, <2>2, <2>7 DEF NoEvent
    <2>12. a = a + 0 /\ (\A i \in 1 .. 0 : FALSE)
      OBVIOUS
    <2>13. Shows(a, a, a, 0, 0)'
      BY <2>8, <2>10, <2>11, <2>12 DEF Shows, NoEvent, AppendEvent, ByteWrite
    <2> QED BY <2>13, ShowBack
  <1>4. ASSUME ~Loaded
        PROVE  phase = "loaded"
    BY <1>1, <1>4 DEF Next, HandleAppendBlockFile, Publish, HandleNewFileSubjectData, XtermParses, InitTerminal,
      RTInfoAnswers, CacheFetched, MainRead, MainFetched, Dispose, ProcessAndCacheData, AgentBlockSkips, SaveData,
      SaveMeta, DisposedSaves, DisposedSkips, DisposedParses, Send, loadVars
  <1>5. ASSUME phase = "loaded"
        PROVE  ShowInv'
    <2>0. PICK a, h, p, e, w \in Nat : Shows(a, h, p, e, w)
      BY <1>1, <1>5, ShowFacts
    <2>1. /\ a = appended /\ e = Len(events) /\ w = Len(writes)
          /\ \/ publishing = NoEvent /\ a = h + e
             \/ publishing = AppendEvent(a) /\ a = h + e + 1
          /\ h = p + w
          /\ \A i \in 1 .. e : events[i] = AppendEvent(h + i)
          /\ \A i \in 1 .. w : writes[i] = ByteWrite(p + i)
          /\ Reaches(terminal, p) /\ ptyOffset <= p /\ (a <= MaxFile => ptyOffset = p)
      BY <2>0 DEF Shows
    <2>2. PICK t \in Seq(Bytes), o \in Nat : t = terminal /\ o = ptyOffset
      <3>1. terminal \in Seq(Bytes) /\ ptyOffset \in Nat
        BY <1>1 DEF Types, TypeOK, Bytes
      <3> QED BY <3>1
    <2>3. Reaches(t, p)'
      BY <1>1, <1>2, <2>1, <2>2, ReachesStep
    <2>4. events \in Seq(Events) /\ writes \in Seq(Writes) /\ AppendEvent(a) # NoEvent
      BY <1>1 DEF Types, AppendEvent, NoEvent
    <2>5. CASE HandleAppendBlockFile
      <3>1. /\ appended' = a + 1 /\ publishing = NoEvent /\ publishing' = AppendEvent(a + 1)
            /\ UNCHANGED <<events, writes, terminal, ptyOffset>>
        BY <2>1, <2>5 DEF HandleAppendBlockFile, termVars, AppendEvent
      <3>2. a + 1 = h + e + 1 /\ (a + 1 <= MaxFile => a <= MaxFile)
        <4>1. a = h + e
          BY <2>1, <2>4, <3>1
        <4> QED BY <4>1, ConstantTypes
      <3>3. /\ \A i \in 1 .. e : events'[i] = AppendEvent(h + i)
            /\ \A i \in 1 .. w : writes'[i] = ByteWrite(p + i)
            /\ Reaches(terminal, p)' /\ ptyOffset' <= p /\ (a + 1 <= MaxFile => ptyOffset' = p)
        BY <2>1, <2>2, <2>3, <3>1, <3>2
      <3>4. a + 1 \in Nat /\ e = Len(events') /\ w = Len(writes')
        BY <2>1, <3>1
      <3>5. Shows(a + 1, h, p, e, w)'
        BY <2>1, <3>1, <3>2, <3>3, <3>4 DEF Shows, NoEvent, AppendEvent, ByteWrite
      <3> QED BY <3>4, <3>5, ShowBack
    <2>6. CASE Publish
      <3>1. /\ appended' = a /\ publishing = AppendEvent(a) /\ a = h + e + 1 /\ publishing' = NoEvent
            /\ events' = Append(events, publishing) /\ UNCHANGED <<writes, terminal, ptyOffset>>
        BY <2>1, <2>6 DEF Publish, termVars
      <3>2. publishing \in Events
        BY <1>1, <2>4, <3>1 DEF Types
      <3>3. /\ Len(events') = e + 1 /\ events'[e + 1] = AppendEvent(h + (e + 1))
            /\ \A i \in 1 .. e : events'[i] = events[i]
        <4>1. /\ Len(Append(events, publishing)) = Len(events) + 1
              /\ Append(events, publishing)[Len(events) + 1] = publishing
              /\ \A i \in 1 .. Len(events) : Append(events, publishing)[i] = events[i]
          BY <2>4, <3>2, AppendProperties
        <4>2. a = h + (e + 1)
          BY <3>1
        <4> QED BY <2>1, <3>1, <4>1, <4>2
      <3>4. \A i \in 1 .. e + 1 : events'[i] = AppendEvent(h + i)
        <4>1. \A i \in 1 .. e + 1 : i \in 1 .. e \/ i = e + 1
          OBVIOUS
        <4> QED BY <2>1, <3>3, <4>1
      <3>5. e + 1 \in Nat /\ a = h + (e + 1) /\ w = Len(writes')
        BY <2>1, <3>1
      <3>6. /\ \A i \in 1 .. w : writes'[i] = ByteWrite(p + i)
            /\ Reaches(terminal, p)' /\ ptyOffset' <= p /\ (a <= MaxFile => ptyOffset' = p)
        BY <2>1, <2>2, <2>3, <3>1
      <3>7. Shows(a, h, p, e + 1, w)'
        BY <2>1, <3>1, <3>3, <3>4, <3>5, <3>6 DEF Shows, NoEvent, AppendEvent, ByteWrite
      <3> QED BY <3>5, <3>7, ShowBack
    <2>7. CASE HandleNewFileSubjectData
      <3>1. events # <<>> /\ events' = Tail(events) /\ UNCHANGED <<appended, publishing, ptyOffset>>
        BY <2>7 DEF HandleNewFileSubjectData
      <3>2. /\ e > 0 /\ Head(events) = events[1] /\ Len(events') = e - 1
            /\ \A i \in 1 .. e - 1 : events'[i] = events[i + 1]
        <4>1. e > 0
          BY <2>1, <2>4, <3>1, EmptySeq
        <4>2. /\ Len(Tail(events)) = Len(events) - 1
              /\ \A i \in 1 .. Len(Tail(events)) : Tail(events)[i] = events[i + 1]
          BY <2>4, <3>1, HeadTailProperties
        <4> QED BY <2>1, <2>4, <3>1, <4>1, <4>2
      <3>3. Head(events) = AppendEvent(h + 1)
        BY <2>1, <3>2
      <3>4. Head(events).fileop = "append" /\ Head(events).byte = h + 1
        BY <3>3 DEF AppendEvent
      <3>5. writes' = Append(writes, ByteWrite(h + 1)) /\ terminal' = terminal
        BY <1>5, <2>7, <3>4 DEF HandleNewFileSubjectData, DoTerminalWrite, ByteWrite, LoadedFlag, Loading
      <3>6. ByteWrite(h + 1) \in Writes
        <4>1. Head(events) \in Events
          BY <2>4, <3>1, RangeHeadTail
        <4>2. h + 1 \in Bytes
          BY <3>4, <4>1 DEF Events
        <4>3. <<h + 1>> \in Seq(Bytes)
          BY <4>2
        <4> QED BY <4>3 DEF ByteWrite, Writes
      <3>7. /\ Len(writes') = w + 1 /\ writes'[w + 1] = ByteWrite(p + (w + 1))
            /\ \A i \in 1 .. w : writes'[i] = writes[i]
        <4>1. /\ Len(Append(writes, ByteWrite(h + 1))) = Len(writes) + 1
              /\ Append(writes, ByteWrite(h + 1))[Len(writes) + 1] = ByteWrite(h + 1)
              /\ \A i \in 1 .. Len(writes) : Append(writes, ByteWrite(h + 1))[i] = writes[i]
          BY <2>4, <3>6, AppendProperties
        <4>2. h + 1 = p + (w + 1)
          BY <2>1
        <4> QED BY <2>1, <3>5, <4>1, <4>2
      <3>8. \A i \in 1 .. w + 1 : writes'[i] = ByteWrite(p + i)
        <4>1. \A i \in 1 .. w + 1 : i \in 1 .. w \/ i = w + 1
          OBVIOUS
        <4> QED BY <2>1, <3>7, <4>1
      <3>9. \A i \in 1 .. e - 1 : events'[i] = AppendEvent((h + 1) + i)
        <4>1. \A i \in 1 .. e - 1 : i + 1 \in 1 .. e /\ h + (i + 1) = (h + 1) + i
          OBVIOUS
        <4> QED BY <2>1, <3>2, <4>1
      <3>10. /\ e - 1 \in Nat /\ h + 1 \in Nat /\ w + 1 \in Nat
             /\ h + 1 = p + (w + 1) /\ (h + 1) + (e - 1) = h + e /\ (h + 1) + (e - 1) + 1 = h + e + 1
        BY <2>1, <3>2
      <3>11. a = appended' /\ e - 1 = Len(events') /\ w + 1 = Len(writes')
        BY <2>1, <3>1, <3>2, <3>7
      <3>12. \/ publishing' = NoEvent /\ a = (h + 1) + (e - 1)
             \/ publishing' = AppendEvent(a) /\ a = (h + 1) + (e - 1) + 1
        BY <2>1, <3>1, <3>10
      <3>13. Reaches(terminal, p)' /\ ptyOffset' <= p /\ (a <= MaxFile => ptyOffset' = p)
        BY <2>1, <2>2, <2>3, <3>1, <3>5
      <3>14. Shows(a, h + 1, p, e - 1, w + 1)'
        BY <3>8, <3>9, <3>10, <3>11, <3>12, <3>13 DEF Shows, NoEvent, AppendEvent, ByteWrite
      <3> QED BY <3>10, <3>14, ShowBack
    <2>8. CASE XtermParses
      <3>1. /\ writes # <<>> /\ writes' = Tail(writes)
            /\ UNCHANGED <<appended, publishing, events, termFile>>
        BY <2>8 DEF XtermParses, outputVars, serverVars
      <3>2. /\ w > 0 /\ Head(writes) = writes[1] /\ Len(writes') = w - 1
            /\ \A i \in 1 .. w - 1 : writes'[i] = writes[i + 1]
        <4>1. w > 0
          BY <2>1, <2>4, <3>1, EmptySeq
        <4>2. /\ Len(Tail(writes)) = Len(writes) - 1
              /\ \A i \in 1 .. Len(Tail(writes)) : Tail(writes)[i] = writes[i + 1]
          BY <2>4, <3>1, HeadTailProperties
        <4> QED BY <2>1, <2>4, <3>1, <4>1, <4>2
      <3>3. Head(writes) = ByteWrite(p + 1)
        <4>1. 1 \in 1 .. w
          BY <3>2
        <4>2. writes[1] = ByteWrite(p + 1)
          BY <2>1, <4>1
        <4> QED BY <3>2, <4>2
      <3>4. Head(writes).data = <<p + 1>> /\ Head(writes).offset = -1
        BY <3>3 DEF ByteWrite
      <3>5. p + 1 \in Bytes /\ p + 1 <= appended
        <4>1. p + 1 <= a
          BY <2>1, <3>2
        <4>2. a <= MaxBytes
          BY <1>1, <2>1 DEF Types, TypeOK
        <4> QED BY <2>1, <4>1, <4>2, ConstantTypes DEF Bytes
      <3>6. terminal' = t \o <<p + 1>> /\ ptyOffset' = o + 1
        <4>1. Len(<<p + 1>>) = 1 /\ ~(-1 >= 0)
          OBVIOUS
        <4> QED BY <2>2, <2>8, <3>4, <4>1 DEF XtermParses
      <3>7. Reaches(t \o <<p + 1>>, p + 1)
        BY <2>1, <2>2, <3>5, ReachesNext
      <3>8. PICK d : d = t \o <<p + 1>>
        OBVIOUS
      <3>9. Reaches(d, p + 1)'
        BY <1>1, <3>1, <3>7, <3>8, ReachesStep
      <3>10. Reaches(terminal, p + 1)'
        BY <3>6, <3>8, <3>9
      <3>11. /\ p + 1 \in Nat /\ w - 1 \in Nat /\ h = (p + 1) + (w - 1)
             /\ ptyOffset' <= p + 1 /\ (a <= MaxFile => ptyOffset' = p + 1)
        BY <2>1, <2>2, <3>2, <3>6
      <3>12. \A i \in 1 .. w - 1 : writes'[i] = ByteWrite((p + 1) + i)
        <4>1. \A i \in 1 .. w - 1 : i + 1 \in 1 .. w /\ p + (i + 1) = (p + 1) + i
          OBVIOUS
        <4> QED BY <2>1, <3>2, <4>1
      <3>13. a = appended' /\ e = Len(events') /\ w - 1 = Len(writes')
        BY <2>1, <3>1, <3>2
      <3>14. /\ \/ publishing' = NoEvent /\ a = h + e
                \/ publishing' = AppendEvent(a) /\ a = h + e + 1
             /\ \A i \in 1 .. e : events'[i] = AppendEvent(h + i)
        BY <2>1, <3>1
      <3>15. Shows(a, h, p + 1, e, w - 1)'
        BY <3>10, <3>11, <3>12, <3>13, <3>14 DEF Shows, NoEvent, AppendEvent, ByteWrite
      <3> QED BY <3>11, <3>15, ShowBack
    <2>9. CASE ProcessAndCacheData \/ AgentBlockSkips \/ SaveSteps \/ ClosedSteps
      <3>1. UNCHANGED <<appended, publishing, events, writes, terminal, ptyOffset>>
        BY <2>9 DEF ProcessAndCacheData, AgentBlockSkips, SaveSteps, SaveData, SaveMeta, ClosedSteps, DisposedSaves,
          DisposedSkips, DisposedParses, Send, outputVars, termVars
      <3>2. /\ a = appended' /\ e = Len(events') /\ w = Len(writes')
            /\ \/ publishing' = NoEvent /\ a = h + e
               \/ publishing' = AppendEvent(a) /\ a = h + e + 1
            /\ \A i \in 1 .. e : events'[i] = AppendEvent(h + i)
            /\ \A i \in 1 .. w : writes'[i] = ByteWrite(p + i)
            /\ ptyOffset' <= p /\ (a <= MaxFile => ptyOffset' = p)
        BY <2>1, <3>1
      <3>3. Reaches(terminal, p)'
        BY <2>2, <2>3, <3>1
      <3>4. Shows(a, h, p, e, w)'
        BY <2>1, <3>2, <3>3 DEF Shows, NoEvent, AppendEvent, ByteWrite
      <3> QED BY <3>4, ShowBack
    <2> QED BY <1>1, <1>5, <2>5, <2>6, <2>7, <2>8, <2>9 DEF Next, SaveSteps, ClosedSteps, InitTerminal, RTInfoAnswers,
        CacheFetched, MainRead, MainFetched, Loaded, Dispose
  <1> QED BY <1>3, <1>4, <1>5

-----------------------------------------------------------------------------
(* Closed views. *)

LEMMA ClosedStays ==
  ASSUME Types, HandleAppendBlockFile \/ UNCHANGED <<termFile, appended>>, NEW d, NEW n \in Nat, ClosedShows(d, n),
         d \in Views
  PROVE  ClosedShows(d, n)'
  <1>1. PICK t \in Seq(Bytes), o \in Nat, w \in Seq(Writes) : t = d.terminal /\ o = d.ptyOffset /\ w = d.writes
    <2>1. d.terminal \in Seq(Bytes) /\ d.ptyOffset \in Nat /\ d.writes \in Seq(Writes)
      BY DEF Views
    <2> QED BY <2>1
  <1>2. /\ Reaches(t, n) /\ o <= n /\ (appended <= MaxFile => o = n) /\ n + Len(w) <= appended
        /\ \A i \in 1 .. Len(w) : w[i] = [data |-> <<n + i>>, offset |-> -1]
    BY <1>1 DEF ClosedShows
  <1>3. Reaches(t, n)'
    BY <1>2, ReachesStep
  <1>4. /\ appended \in Nat /\ (appended' = appended \/ appended' = appended + 1) /\ Len(w) \in Nat
    BY <1>1 DEF HandleAppendBlockFile, Types, TypeOK
  <1>5. (appended' <= MaxFile => o = n) /\ n + Len(w) <= appended'
    BY <1>1, <1>2, <1>4, ConstantTypes
  <1> QED BY <1>1, <1>2, <1>3, <1>5 DEF ClosedShows

LEMMA NextDisposed ==
  ASSUME IInv, Next
  PROVE  DisposedInv'
  <1> SUFFICES ASSUME Exact', NEW d \in disposed' PROVE \E n \in Nat : ClosedShows(d, n)'
    BY DEF DisposedInv
  <1>1. /\ Types /\ DisposedInv /\ Exact /\ ~HandleTruncateBlockFile /\ ~LoadFails /\ appended \in 0 .. MaxBytes
        /\ disposed \subseteq Views
    BY ExactBefore DEF IInv, Types, TypeOK
  <1>2. HandleAppendBlockFile \/ UNCHANGED <<termFile, appended>>
    BY <1>1, FileStep
  <1>3. CASE d \in disposed
    <2>1. PICK n \in Nat : ClosedShows(d, n)
      BY <1>1, <1>3 DEF DisposedInv
    <2> QED BY <1>1, <1>2, <1>3, <2>1, ClosedStays
  <1>4. CASE Dispose /\ d \notin disposed
    <2>1. phase = "loaded" /\ d = ThisView
      BY <1>4 DEF Dispose
    <2>2. PICK a, h, p, e, w \in Nat : Shows(a, h, p, e, w)
      BY <1>1, <2>1, ShowFacts
    <2>3. /\ a = appended /\ w = Len(writes) /\ h = p + w /\ Reaches(terminal, p) /\ ptyOffset <= p
          /\ a <= MaxFile => ptyOffset = p
          /\ \A i \in 1 .. w : writes[i] = ByteWrite(p + i)
          /\ a = h + e \/ a = h + e + 1
      BY <2>2 DEF Shows
    <2>4. p + w <= a
      BY <2>3
    <2>5. d.terminal = terminal /\ d.writes = writes /\ d.ptyOffset = ptyOffset /\ d \in Views
      <3>1. ThisView \in Views
        BY <1>1 DEF ThisView, Views, Types, TypeOK, Bytes
      <3> QED BY <2>1, <3>1 DEF ThisView
    <2>6. ClosedShows(d, p)
      BY <2>3, <2>4, <2>5 DEF ClosedShows, ByteWrite
    <2> QED BY <1>1, <1>2, <2>5, <2>6, ClosedStays
  <1>5. ASSUME NEW c \in disposed, DisposedSaves(c) \/ DisposedSkips(c), d \notin disposed
        PROVE  \E n \in Nat : ClosedShows(d, n)'
    <2>1. PICK n \in Nat : ClosedShows(c, n)
      BY <1>1, <1>5 DEF DisposedInv
    <2>2. d = [c EXCEPT !.dataBytesProcessed = 0] /\ c \in Views
      BY <1>1, <1>5 DEF DisposedSaves, DisposedSkips, Become
    <2>3. d.terminal = c.terminal /\ d.writes = c.writes /\ d.ptyOffset = c.ptyOffset /\ d \in Views
      BY <2>2 DEF Views
    <2>4. ClosedShows(d, n)
      BY <2>1, <2>3 DEF ClosedShows
    <2> QED BY <1>1, <1>2, <2>3, <2>4, ClosedStays
  <1>6. ASSUME NEW c \in disposed, DisposedParses(c), d \notin disposed
        PROVE  \E n \in Nat : ClosedShows(d, n)'
    <2>1. PICK n \in Nat : ClosedShows(c, n)
      BY <1>1, <1>6 DEF DisposedInv
    <2>2. PICK t \in Seq(Bytes), o \in Nat, w \in Seq(Writes), b \in Nat :
            /\ t = c.terminal /\ o = c.ptyOffset /\ w = c.writes /\ b = c.dataBytesProcessed /\ c \in Views
      BY <1>1, <1>6 DEF Views
    <2>3. /\ Reaches(t, n) /\ o <= n /\ (appended <= MaxFile => o = n) /\ n + Len(w) <= appended
          /\ \A i \in 1 .. Len(w) : w[i] = [data |-> <<n + i>>, offset |-> -1]
      BY <2>1, <2>2 DEF ClosedShows
    <2>4. w # <<>> /\ Len(w) \in Nat \ {0} /\ Head(w) = w[1]
      BY <1>6, <2>2, EmptySeq, HeadTailProperties DEF DisposedParses
    <2>5. Head(w).data = <<n + 1>> /\ Len(Head(w).data) = 1
      <3>1. 1 \in 1 .. Len(w)
        BY <2>4
      <3>2. Head(w) = [data |-> <<n + 1>>, offset |-> -1]
        BY <2>3, <2>4, <3>1
      <3> QED BY <3>2
    <2>6. /\ d = [c EXCEPT !.terminal = t \o <<n + 1>>, !.writes = Tail(w), !.ptyOffset = o + 1,
                           !.dataBytesProcessed = b + 1]
      BY <1>6, <2>2, <2>5 DEF DisposedParses, Become
    <2>7. d.terminal = t \o <<n + 1>> /\ d.writes = Tail(w) /\ d.ptyOffset = o + 1
      BY <2>2, <2>6 DEF Views
    <2>8. n + 1 \in Bytes /\ n + 1 <= appended /\ n + 1 \in Nat
      BY <1>1, <2>3, <2>4, ConstantTypes DEF Bytes
    <2>9. Reaches(t \o <<n + 1>>, n + 1)
      BY <1>1, <2>2, <2>3, <2>8, ReachesNext
    <2>10. /\ Len(Tail(w)) = Len(w) - 1 /\ Tail(w) \in Seq(Writes)
           /\ \A i \in 1 .. Len(w) - 1 : Tail(w)[i] = w[i + 1]
      BY <2>4, HeadTailProperties
    <2>11. \A i \in 1 .. Len(Tail(w)) : Tail(w)[i] = [data |-> <<(n + 1) + i>>, offset |-> -1]
      <3>1. \A i \in 1 .. Len(w) - 1 : i + 1 \in 1 .. Len(w) /\ n + (i + 1) = (n + 1) + i
        BY <2>4
      <3> QED BY <2>3, <2>10, <3>1
    <2>12. (n + 1) + Len(Tail(w)) <= appended /\ o + 1 <= n + 1 /\ (appended <= MaxFile => o + 1 = n + 1)
      BY <2>3, <2>4, <2>10
    <2>13. ClosedShows(d, n + 1)
      BY <2>7, <2>9, <2>11, <2>12 DEF ClosedShows
    <2>14. d \in Views
      <3>1. disposed' \subseteq Views
        BY <1>1, NextTypes DEF Types
      <3> QED BY <3>1
    <2> QED BY <1>1, <1>2, <2>8, <2>13, <2>14, ClosedStays
  <1>7. disposed' = disposed \/ Dispose \/ ClosedSteps
    BY DEF Next, ClosedSteps, HandleAppendBlockFile, HandleTruncateBlockFile, Publish, HandleNewFileSubjectData,
      XtermParses, InitTerminal, RTInfoAnswers, CacheFetched, MainRead, MainFetched, Loaded, LoadFails,
      ProcessAndCacheData, AgentBlockSkips, SaveData, SaveMeta
  <1> QED BY <1>3, <1>4, <1>5, <1>6, <1>7 DEF ClosedSteps

-----------------------------------------------------------------------------
(* The theorems. *)

LEMMA InitInv == Init => IInv
  <1> SUFFICES ASSUME Init PROVE IInv
    OBVIOUS
  <1>1. Types
    BY InitTypes
  <1>2. appended = 0 /\ termFile = <<>> /\ appended \in Nat
    BY DEF Init
  <1>3. FileInv
    BY <1>2, FirstBytesProperties DEF FileInv
  <1>4. CacheInv
    <2>1. /\ saving = {} /\ BetweenSteps = {} /\ cacheFile.screen = <<>> /\ cacheFile.ptyoffset = 0
      BY DEF Init, BetweenSteps
    <2>2. Reaches(cacheFile.screen, 0)
      BY <1>2, <2>1, ReachesNothing
    <2> QED BY <2>1, <2>2 DEF CacheInv
  <1>5. LoadInv /\ ShowInv /\ PhaseInv /\ DisposedInv
    BY DEF Init, LoadInv, ShowInv, PhaseInv, DisposedInv, Loading, Filling
  <1> QED BY <1>1, <1>3, <1>4, <1>5 DEF IInv

LEMMA StutterInv ==
  ASSUME IInv, UNCHANGED vars
  PROVE  IInv'
  <1>1. /\ UNCHANGED <<termFile, cacheFile, publishing, events, saving>>
        /\ UNCHANGED <<phase, mainOffset, mainData, terminal, writes, ptyOffset, dataBytesProcessed, heldData>>
        /\ UNCHANGED <<appended, truncates, views, saves, disturbed, disposed>>
    BY DEF vars, serverVars, outputVars, loadVars, termVars
  <1>2. UNCHANGED <<Exact, Loading, DataStartIdx, MainPart, BetweenSteps>>
    BY <1>1 DEF Exact, Loading, DataStartIdx, MainPart, FileFrom, BetweenSteps
  <1>3. Types'
    BY <1>1 DEF IInv, Types, TypeOK, NoEvent
  <1>4. FileInv' /\ PhaseInv'
    BY <1>1 DEF IInv, FileInv, PhaseInv, Filling
  <1>5. CacheInv'
    BY <1>1, <1>2 DEF IInv, CacheInv, Reaches
  <1>6. LoadInv'
    <2>1. UNCHANGED <<ScreenInv, MainInv>>
      BY <1>1, <1>2 DEF ScreenInv, MainInv, Filling, ScreenWrite, MainWrite
    <2> QED BY <1>1, <1>2, <2>1 DEF IInv, LoadInv, Filling, NoEvent
  <1>7. ShowInv'
    <2>1. UNCHANGED Handled /\ UNCHANGED Parsed
      BY <1>1 DEF Parsed, Handled, Published, NoEvent
    <2> QED BY <1>1, <1>2, <2>1 DEF IInv, ShowInv, Reaches, NoEvent
  <1>8. DisposedInv'
    BY <1>1, <1>2 DEF IInv, DisposedInv, ClosedShows, Reaches
  <1> QED BY <1>3, <1>4, <1>5, <1>6, <1>7, <1>8 DEF IInv

LEMMA NextInv ==
  ASSUME IInv, [Next]_vars
  PROVE  IInv'
  <1>1. CASE Next
    <2>1. Types /\ FileInv /\ PhaseInv
      BY DEF IInv
    <2>2. Types' /\ FileInv' /\ PhaseInv'
      BY <1>1, <2>1, NextTypes, NextFile, NextPhase
    <2>3. CacheInv' /\ LoadInv' /\ ShowInv' /\ DisposedInv'
      BY <1>1, NextCache, NextLoad, NextShow, NextDisposed
    <2> QED BY <2>2, <2>3 DEF IInv
  <1>2. CASE UNCHANGED vars
    BY <1>2, StutterInv
  <1> QED BY <1>1, <1>2

(* The invariant behind the two theorems below. *)
THEOREM InvHolds == Spec => []IInv
  <1>1. Init => IInv
    BY InitInv
  <1>2. IInv /\ [Next]_vars => IInv'
    BY NextInv
  <1> QED BY <1>1, <1>2, PTL DEF Spec

(* Every variable of file, saved screen and view keeps its type. *)
THEOREM TypeCorrect == Spec => []TypeOK
  <1>1. IInv => TypeOK
    BY DEF IInv, Types
  <1> QED BY <1>1, InvHolds, PTL

LEMMA ExactScreen == IInv => QuietLoadsAreExact
  <1> SUFFICES ASSUME IInv, CaughtUp, ~disturbed, truncates = 0
               PROVE  ShowsFile /\ (appended <= MaxFile => terminal = termFile)
    BY DEF QuietLoadsAreExact
  <1>1. /\ Types /\ FileInv /\ Exact /\ phase = "loaded" /\ events = <<>> /\ publishing = NoEvent /\ writes = <<>>
    BY DEF IInv, Exact, CaughtUp
  <1>2. PICK a, h, p, e, w \in Nat : Shows(a, h, p, e, w)
    BY <1>1, ShowFacts
  <1>3. a = appended /\ p = a /\ Reaches(terminal, a)
    <2>1. a = appended /\ e = 0 /\ w = 0 /\ h = p + w /\ Reaches(terminal, p)
      BY <1>1, <1>2 DEF Shows
    <2>2. a = h + e
      BY <1>1, <1>2 DEF Shows, AppendEvent, NoEvent
    <2>3. p = a
      BY <2>1, <2>2
    <2> QED BY <2>1, <2>3
  <1>4. appended <= MaxFile => terminal = termFile
    BY <1>1, <1>3, FileFacts DEF Reaches
  <1>5. \A b \in ToSet(Kept) : b \in ToSet(terminal)
    <2> SUFFICES ASSUME NEW b \in ToSet(Kept) PROVE b \in ToSet(terminal)
      OBVIOUS
    <2>1. /\ DataStartIdx \in 0 .. appended /\ appended \in Nat /\ 0 \in 0 .. appended
      BY <1>1, FileFacts
    <2>2. PICK m \in 0 .. appended :
            /\ m = (IF 0 > DataStartIdx THEN 0 ELSE DataStartIdx)
            /\ FileFrom(0) \in Seq(Bytes) /\ Len(FileFrom(0)) = appended - m
            /\ \A i \in 1 .. appended - m : FileFrom(0)[i] = m + i
      BY <1>1, <2>1, MainPartFacts
    <2>3. m = DataStartIdx
      BY <2>1, <2>2
    <2>4. PICK i \in 1 .. appended - m : b = FileFrom(0)[i]
      BY <2>2 DEF Kept, ToSet
    <2>5. b = m + i /\ b \in 1 .. appended /\ b > m
      BY <2>1, <2>2, <2>4
    <2> QED BY <1>3, <2>3, <2>5 DEF Reaches
  <1> QED BY <1>4, <1>5 DEF ShowsFile

(* As long as the file is not truncated, neither output nor a save is under   *)
(* way while a view loads, and no save's screen is written between the steps  *)
(* of another, saved screen, saved offset, file and events fit together: over *)
(* any number of views and saves, with the saves of closed views among them,  *)
(* a screen that has caught up shows every byte the file keeps, and the file  *)
(* itself until it has wrapped.                                               *)
THEOREM LoadsCorrect == Spec => []QuietLoadsAreExact
  <1> QED BY ExactScreen, InvHolds, PTL
=============================================================================
