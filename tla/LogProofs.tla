----------------------------- MODULE LogProofs -----------------------------
(***************************************************************************)
(* Proofs about the log, for any number of threads, any lines, any level   *)
(* and any MAX_LOG_LINE_NUM.                                               *)
(***************************************************************************)
EXTENDS Log, FiniteSetTheorems, TLAPS

USE LogThreads, LogLines, LogLimit

\* The steps of the threads and of log_close, one name for each.
LEMMA Steps ==
    ASSUME [LogNext]_logVars
    PROVE  \/ \E t \in Threads : \/ \E ln \in Lines : LogLine(t, ln)
                                 \/ PreambleLock(t) \/ Reopen(t) \/ PreambleWrite(t)
                                 \/ TextTest(t) \/ TextLock(t) \/ TextWrite(t)
           \/ CloseLog \/ CloseFile \/ UNCHANGED logVars
BY DEF LogNext, LogStep

\* A step is one of a live server.
LEMMA Alive == ASSUME [LogNext]_logVars, ~UNCHANGED logVars PROVE ~crashed
BY DEF LogNext

-----------------------------------------------------------------------------
(* Types. *)

\* Only a line of the program has a prefix; END has none.
PrefixedLines == \A t \in Threads : lpc[t] \in {"lock", "reopen", "prefix"} => line[t] \in Lines

\* What a write leaves behind is of the right type.
LEMMA WriteType ==
    ASSUME LogTypeOK, NEW t \in Threads, NEW string \in Strings, Write(t, string)
    PROVE  /\ last_log_str' \in Strings /\ size' \in Nat /\ crashed' \in BOOLEAN
           /\ entry' = NoEntry \/ entry' \in Strings
           /\ log_mutex' = NoThread
<1> USE DEF LogTypeOK, Write, file, Crash
<1>1. CASE ~Wanted(t, string)
  BY <1>1
<1>2. CASE Wanted(t, string)
  <2>1. last_log_str' \in Strings /\ size' \in Nat /\ log_mutex' = NoThread
    BY <1>2
  <2>2. crashed' \in BOOLEAN
    BY <1>2
  <2>3. entry' = NoEntry \/ entry' \in Strings
    BY <1>2
  <2> QED BY <2>1, <2>2, <2>3
<1> QED BY <1>1, <1>2

\* The strings of the lines are strings.
LEMMA LineStrings ==
    /\ \A ln \in Lines \cup {EndLine} : Text(ln.text) \in Strings
    /\ \A ln \in Lines : Prefix(ln.site) \in Strings
<1>1. \A ln \in Lines : ln.site \in Sites /\ ln.text \in Texts
  OBVIOUS
<1>2. EndLine.text = "END"
  BY DEF EndLine
<1> QED BY <1>1, <1>2 DEF Text, Prefix, Strings

LEMMA TypeStep ==
    ASSUME LogTypeOK, PrefixedLines, [LogNext]_logVars
    PROVE  LogTypeOK' /\ PrefixedLines'
<1> USE DEF LogTypeOK, PrefixedLines, LogPC, Inside, Behind, Goto, file, Crash
<1>1. ASSUME NEW t \in Threads, NEW ln \in Lines, LogLine(t, ln)
      PROVE  LogTypeOK' /\ PrefixedLines'
  BY <1>1 DEF LogLine
<1>2. ASSUME NEW t \in Threads, PreambleLock(t) PROVE LogTypeOK' /\ PrefixedLines'
  <2>1. /\ lpc[t] = "lock" /\ log_mutex' = t
        /\ lpc' = [lpc EXCEPT ![t] = "reopen"] \/ lpc' = [lpc EXCEPT ![t] = "prefix"]
        /\ UNCHANGED <<def_log_level, last_log_str, size, entry, line, closing>>
    BY <1>2 DEF PreambleLock
  <2>2. count' \in 0..(MaxLogLineNum - 1)
    BY <1>2 DEF PreambleLock
  <2>3. log_file_handle' \in {"open", "NULL", "closed"} /\ crashed' \in BOOLEAN
    BY <1>2 DEF PreambleLock, Fclose
  <2>4. lpc' \in [Threads -> LogPC] /\ PrefixedLines'
    BY <2>1
  <2> QED BY <2>1, <2>2, <2>3, <2>4
<1>3. ASSUME NEW t \in Threads, Reopen(t) PROVE LogTypeOK' /\ PrefixedLines'
  BY <1>3 DEF Reopen
<1>4. ASSUME NEW t \in Threads, PreambleWrite(t) PROVE LogTypeOK' /\ PrefixedLines'
  <2>1. Prefix(line[t].site) \in Strings
    BY <1>4, LineStrings DEF PreambleWrite
  <2>2. /\ last_log_str' \in Strings /\ size' \in Nat /\ crashed' \in BOOLEAN
        /\ entry' = NoEntry \/ entry' \in Strings
        /\ log_mutex' \in Threads \cup {NoThread}
    BY <1>4, <2>1, WriteType DEF PreambleWrite
  <2> QED BY <1>4, <2>2 DEF PreambleWrite
<1>5. ASSUME NEW t \in Threads, TextTest(t) \/ TextLock(t) PROVE LogTypeOK' /\ PrefixedLines'
  BY <1>5 DEF TextTest, TextLock
<1>6. ASSUME NEW t \in Threads, TextWrite(t) PROVE LogTypeOK' /\ PrefixedLines'
  <2>1. Text(line[t].text) \in Strings
    BY LineStrings
  <2>2. /\ last_log_str' \in Strings /\ size' \in Nat /\ crashed' \in BOOLEAN
        /\ entry' = NoEntry \/ entry' \in Strings
        /\ log_mutex' = NoThread
    BY <1>6, <2>1, WriteType DEF TextWrite
  <2> QED BY <1>6, <2>2 DEF TextWrite
<1>7. CASE CloseLog \/ CloseFile
  BY <1>7 DEF CloseLog, CloseFile, Fclose
<1>8. CASE UNCHANGED logVars
  BY <1>8 DEF logVars
<1> QED BY <1>1, <1>2, <1>3, <1>4, <1>5, <1>6, <1>7, <1>8, Steps

LEMMA TypeInit == LogInit => LogTypeOK /\ PrefixedLines
<1>1. Start \in Strings
  BY DEF Start, Text, Strings
<1>2. LogInit => /\ last_log_str \in Strings /\ entry \in Strings
                 /\ size \in Nat /\ count \in 0..(MaxLogLineNum - 1)
  BY <1>1 DEF LogInit
<1>3. LogInit => /\ log_mutex \in Threads \cup {NoThread} /\ def_log_level \in LogLevels
                 /\ log_file_handle \in {"open", "NULL", "closed"}
                 /\ closing \in {"no", "end", "done"}
  BY DEF LogInit
<1>4. LogInit => crashed \in BOOLEAN
  BY DEF LogInit
<1>5. LogInit => /\ lpc \in [Threads -> LogPC] /\ line \in [Threads -> Lines \cup {EndLine}]
                 /\ PrefixedLines
  BY DEF LogInit, LogPC, PrefixedLines
<1> QED BY <1>2, <1>3, <1>4, <1>5 DEF LogTypeOK

LEMMA Typed == LogSpec => [](LogTypeOK /\ PrefixedLines)
BY TypeInit, TypeStep, PTL DEF LogSpec

\* The log of log.c keeps its types: the count below MAX_LOG_LINE_NUM, the string to compare
\* with a string that was logged.
THEOREM LogTypeCorrect == LogSpec => []LogTypeOK
BY Typed, PTL

-----------------------------------------------------------------------------
(* The mutex and the handle. *)

\* Why the log brings nothing down while it works: a thread inside a part of a line has the
\* mutex; a handle whose file is closed is about to be opened again, or main closed it; and
\* once NULL it stays NULL.
HandleInv ==
    /\ \A t \in Threads : lpc[t] \in Inside => log_mutex = t
    /\ log_file_handle = "closed" => closing = "done" \/ \E t \in Threads : lpc[t] = "reopen"
    /\ \A t \in Threads : lpc[t] = "reopen" => count = 0 /\ (log_file_handle # "NULL" \/ crashed)
    /\ CrashNeedsDeadHandle

\* A write by the thread that has the mutex, and is not about to open the file.
LEMMA WriteKeeps ==
    ASSUME LogTypeOK, HandleInv, NEW t \in Threads, NEW string,
           lpc[t] \in {"prefix", "text"}, Write(t, string),
           def_log_level' = def_log_level, log_file_handle' = log_file_handle,
           count' = count, closing' = closing, ~crashed,
           lpc'[t] \notin Inside, \A u \in Threads : u # t => lpc'[u] = lpc[u]
    PROVE  HandleInv'
<1> USE DEF LogTypeOK, HandleInv, Inside, CrashNeedsDeadHandle
<1>1. log_mutex = t
  OBVIOUS
<1>2. \A u \in Threads : lpc[u] \notin Inside \/ u = t
  BY <1>1
<1>3. \A u \in Threads : lpc'[u] \notin Inside
  BY <1>2
<1>4. log_file_handle = "closed" => closing = "done"
  BY <1>2
<1>5. crashed' => log_file_handle = "NULL" \/ log_file_handle = "closed"
  BY DEF Write, Wanted
<1> QED BY <1>3, <1>4, <1>5

LEMMA HandleStep ==
    ASSUME LogTypeOK, HandleInv, [LogNext]_logVars
    PROVE  HandleInv'
<1> USE DEF LogTypeOK, HandleInv, Inside, Goto, CrashNeedsDeadHandle
<1>1. CASE UNCHANGED logVars
  BY <1>1 DEF logVars
<1> SUFFICES ASSUME ~UNCHANGED logVars PROVE HandleInv'
  BY <1>1
<1>2. ~crashed
  BY Alive
<1>3. ASSUME NEW t \in Threads, NEW ln \in Lines, LogLine(t, ln) PROVE HandleInv'
  BY <1>3 DEF LogLine
<1>4. ASSUME NEW t \in Threads, PreambleLock(t) PROVE HandleInv'
  <2>1. \A u \in Threads : lpc[u] \notin Inside
    BY <1>4 DEF PreambleLock
  <2>2. log_file_handle = "closed" => closing = "done"
    BY <2>1
  <2>3. CASE count + 1 >= MaxLogLineNum
    <3>1. /\ log_mutex' = t /\ count' = 0 /\ lpc' = [lpc EXCEPT ![t] = "reopen"]
          /\ UNCHANGED <<def_log_level, closing>> /\ Fclose
      BY <1>4, <2>3 DEF PreambleLock
    <3>2. /\ crashed' => log_file_handle' = "NULL" \/ closing = "done"
          /\ log_file_handle' = "NULL" => crashed'
      BY <1>2, <2>2, <3>1 DEF Fclose, Crash
    <3>3. lpc'[t] = "reopen" /\ \A u \in Threads : u # t => lpc'[u] \notin Inside
      BY <2>1, <3>1
    <3> QED BY <3>1, <3>2, <3>3
  <2>4. CASE ~(count + 1 >= MaxLogLineNum)
    BY <1>2, <1>4, <2>1, <2>2, <2>4 DEF PreambleLock
  <2> QED BY <2>3, <2>4
<1>5. ASSUME NEW t \in Threads, Reopen(t) PROVE HandleInv'
  BY <1>2, <1>5 DEF Reopen
<1>6. ASSUME NEW t \in Threads, PreambleWrite(t) PROVE HandleInv'
  <2>1. CASE Write(t, Prefix(line[t].site))
    <3>2. /\ lpc[t] = "prefix" /\ lpc' = [lpc EXCEPT ![t] = "text_test"]
          /\ UNCHANGED <<def_log_level, log_file_handle, count, line, closing>>
      BY <1>6 DEF PreambleWrite
    <3>3. /\ lpc[t] \in {"prefix", "text"} /\ lpc'[t] \notin Inside
          /\ \A u \in Threads : u # t => lpc'[u] = lpc[u]
      BY <3>2
    <3> HIDE DEF LogTypeOK, HandleInv, Inside, Goto, CrashNeedsDeadHandle
    <3> QED BY <1>2, <2>1, <3>2, <3>3, WriteKeeps
  <2>2. CASE ~Write(t, Prefix(line[t].site))
    <3>1. def_log_level > 4
      <4>1. line[t].level \notin preamble_logstr /\ line[t].level <= def_log_level
        BY <1>6, <2>2 DEF PreambleWrite, Wanted
      <4>2. line[t].level \in 1..6 /\ def_log_level \in Nat
        BY DEF EndLine
      <4> QED BY <4>1, <4>2 DEF preamble_logstr
    <3>2. /\ lpc' = [lpc EXCEPT ![t] = "text_test"] /\ log_mutex' = log_mutex
          /\ UNCHANGED <<def_log_level, log_file_handle, count, closing>>
      BY <1>6, <2>2 DEF PreambleWrite
    <3>3. log_mutex = t
      BY <1>6 DEF PreambleWrite
    <3>4. \A u \in Threads : lpc'[u] \notin Inside
      BY <3>2, <3>3
    <3>5. log_file_handle = "closed" => closing = "done"
      BY <3>3, <1>6 DEF PreambleWrite
    <3> QED BY <3>1, <3>2, <3>4, <3>5
  <2> QED BY <2>1, <2>2
<1>7. ASSUME NEW t \in Threads, TextTest(t) \/ TextLock(t) PROVE HandleInv'
  BY <1>2, <1>7 DEF TextTest, TextLock
<1>8. ASSUME NEW t \in Threads, TextWrite(t) PROVE HandleInv'
  <2>1. /\ lpc[t] = "text" /\ lpc' = [lpc EXCEPT ![t] = "idle"]
        /\ UNCHANGED <<def_log_level, log_file_handle, count, line, closing>>
        /\ Write(t, Text(line[t].text))
    BY <1>8 DEF TextWrite
  <2>2. /\ lpc[t] \in {"prefix", "text"} /\ lpc'[t] \notin Inside
        /\ \A u \in Threads : u # t => lpc'[u] = lpc[u]
    BY <2>1
  <2> HIDE DEF LogTypeOK, HandleInv, Inside, Goto, CrashNeedsDeadHandle
  <2> QED BY <1>2, <2>1, <2>2, WriteKeeps
<1>9. CASE CloseLog
  BY <1>2, <1>9 DEF CloseLog
<1>10. CASE CloseFile
  BY <1>2, <1>10 DEF CloseFile, Fclose, Crash
<1> QED BY <1>3, <1>4, <1>5, <1>6, <1>7, <1>8, <1>9, <1>10, Steps

LEMMA HandleInit == LogInit => HandleInv
BY DEF LogInit, HandleInv, Inside, CrashNeedsDeadHandle

LEMMA Handles == LogSpec => [](LogTypeOK /\ PrefixedLines /\ HandleInv)
BY TypeInit, TypeStep, HandleInit, HandleStep, PTL DEF LogSpec

\* log.c:101, log.c:167: logging brings the server down only without an open file, or at a
\* level that has no label.
THEOREM CrashesAreExplained == LogSpec => []CrashNeedsDeadHandle
<1>1. HandleInv => CrashNeedsDeadHandle
  BY DEF HandleInv
<1> QED BY <1>1, Handles, PTL

-----------------------------------------------------------------------------
(* The filter and the prefixes. *)

\* log.c:105: the filter compares with the last string of the file.
THEOREM FilterIsRight == LogSpec => []FilterSeesTheFile
<1>1. LogInit => FilterSeesTheFile
  BY DEF LogInit, FilterSeesTheFile
<1>2. ASSUME FilterSeesTheFile, [LogNext]_logVars PROVE FilterSeesTheFile'
  <2> USE DEF FilterSeesTheFile, file
  <2>1. ASSUME NEW t \in Threads, NEW string, Write(t, string),
               UNCHANGED log_file_handle
        PROVE  FilterSeesTheFile'
    BY <1>2, <2>1 DEF Write
  <2>2. ASSUME NEW t \in Threads, PreambleWrite(t) \/ TextWrite(t) PROVE FilterSeesTheFile'
    BY <1>2, <2>1, <2>2 DEF PreambleWrite, TextWrite
  <2>3. ASSUME NEW t \in Threads, NEW ln \in Lines, LogLine(t, ln) PROVE FilterSeesTheFile'
    BY <1>2, <2>3 DEF LogLine
  <2>4. ASSUME NEW t \in Threads, PreambleLock(t) \/ Reopen(t) PROVE FilterSeesTheFile'
    BY <1>2, <2>4 DEF PreambleLock, Fclose, Reopen
  <2>5. ASSUME NEW t \in Threads, TextTest(t) \/ TextLock(t) PROVE FilterSeesTheFile'
    BY <1>2, <2>5 DEF TextTest, TextLock
  <2>6. CASE CloseLog \/ CloseFile \/ UNCHANGED logVars
    BY <1>2, <2>6 DEF CloseLog, CloseFile, Fclose, logVars
  <2> QED BY <1>2, <2>2, <2>3, <2>4, <2>5, <2>6, Steps
<1> QED BY <1>1, <1>2, PTL DEF LogSpec

\* log.h:24: a prefix that was written last has a writer who will write its text.
THEOREM PrefixesGetTheirText == LogSpec => []PrefixAwaitsText
<1>1. LogInit => PrefixAwaitsText
  BY DEF LogInit, PrefixAwaitsText, Start, Text
<1>2. ASSUME PrefixAwaitsText, LogTypeOK, HandleInv, [LogNext]_logVars PROVE PrefixAwaitsText'
  <2> USE DEF LogTypeOK, Goto, Behind
  <2> DEFINE Owes(t) == /\ lpc[t] \in Behind /\ line[t].level <= def_log_level
                        /\ Prefix(line[t].site) = last_log_str
  <2>1. CASE UNCHANGED logVars
    BY <1>2, <2>1 DEF PrefixAwaitsText, logVars
  <2>2. CASE ~UNCHANGED logVars
    <3>1. ~crashed
      BY <1>2, <2>2, Alive
    <3>2. ASSUME UNCHANGED <<def_log_level, last_log_str>>,
                 log_file_handle = "NULL" => log_file_handle' = "NULL",
                 \A u \in Threads : Owes(u) => lpc'[u] \in Behind /\ line'[u] = line[u]
          PROVE  PrefixAwaitsText'
      BY <1>2, <3>2 DEF PrefixAwaitsText
    <3>3. ASSUME NEW t \in Threads, NEW ln \in Lines, LogLine(t, ln) PROVE PrefixAwaitsText'
      BY <1>2, <3>2, <3>3 DEF LogLine
    <3>4. ASSUME NEW t \in Threads, PreambleLock(t) PROVE PrefixAwaitsText'
      <4>1. log_file_handle = "NULL" => log_file_handle' = "NULL"
        BY <3>4 DEF PreambleLock, Fclose
      <4>2. /\ UNCHANGED <<def_log_level, last_log_str, line>>
            /\ \A u \in Threads : lpc[u] \in Behind => lpc'[u] = lpc[u]
        BY <1>2, <3>4 DEF PreambleLock
      <4> QED BY <3>2, <4>1, <4>2
    <3>5. ASSUME NEW t \in Threads, Reopen(t) PROVE PrefixAwaitsText'
      <4>1. log_file_handle # "NULL"
        BY <1>2, <3>1, <3>5 DEF Reopen, HandleInv
      <4>2. /\ UNCHANGED <<def_log_level, last_log_str, line>>
            /\ \A u \in Threads : lpc[u] \in Behind => lpc'[u] = lpc[u]
        BY <1>2, <3>5 DEF Reopen
      <4> QED BY <3>2, <4>1, <4>2
    <3>6. ASSUME NEW t \in Threads, PreambleWrite(t) PROVE PrefixAwaitsText'
      <4>1. /\ lpc' = [lpc EXCEPT ![t] = "text_test"] /\ lpc[t] = "prefix"
            /\ UNCHANGED <<def_log_level, log_file_handle, line>>
        BY <3>6 DEF PreambleWrite
      <4>2. \/ UNCHANGED last_log_str
            \/ line[t].level <= def_log_level /\ last_log_str' = Prefix(line[t].site)
        BY <3>6 DEF PreambleWrite, Write, Wanted
      <4>3. CASE UNCHANGED last_log_str
        BY <1>2, <3>2, <4>1, <4>3
      <4>4. CASE line[t].level <= def_log_level /\ last_log_str' = Prefix(line[t].site)
        BY <1>2, <4>1, <4>4 DEF PrefixAwaitsText
      <4> QED BY <4>2, <4>3, <4>4
    <3>7. ASSUME NEW t \in Threads, TextTest(t) PROVE PrefixAwaitsText'
      <4>1. CASE log_file_handle = "NULL"
        BY <3>7, <4>1 DEF TextTest, PrefixAwaitsText
      <4>2. CASE log_file_handle # "NULL"
        BY <1>2, <3>2, <3>7, <4>2 DEF TextTest
      <4> QED BY <4>1, <4>2
    <3>8. ASSUME NEW t \in Threads, TextLock(t) PROVE PrefixAwaitsText'
      BY <1>2, <3>2, <3>8 DEF TextLock
    <3>9. ASSUME NEW t \in Threads, TextWrite(t) PROVE PrefixAwaitsText'
      <4>1. /\ lpc' = [lpc EXCEPT ![t] = "idle"] /\ Write(t, Text(line[t].text))
            /\ UNCHANGED <<def_log_level, log_file_handle, line>>
        BY <3>9 DEF TextWrite
      <4>2. Text(line[t].text).kind = "text" /\ \A s : Prefix(s) # Text(line[t].text) /\ Prefix(s).kind = "prefix"
        BY DEF Text, Prefix
      <4>3. CASE Wanted(t, Text(line[t].text))
        <5>1. last_log_str' = Text(line[t].text)
          BY <4>1, <4>3 DEF Write
        <5> QED BY <4>2, <5>1 DEF PrefixAwaitsText
      <4>4. CASE ~Wanted(t, Text(line[t].text))
        <5>1. UNCHANGED last_log_str
          BY <4>1, <4>4 DEF Write
        <5>2. ~Owes(t)
          BY <4>2, <4>4 DEF Wanted
        <5> QED BY <1>2, <3>2, <4>1, <5>1, <5>2
      <4> QED BY <4>3, <4>4
    <3>10. CASE CloseLog
      BY <1>2, <3>2, <3>10 DEF CloseLog
    <3>11. CASE CloseFile
      BY <1>2, <3>2, <3>11 DEF CloseFile, Fclose
    <3> QED BY <1>2, <2>2, <3>3, <3>4, <3>5, <3>6, <3>7, <3>8, <3>9, <3>10, <3>11, Steps
  <2> QED BY <2>1, <2>2
<1> QED BY <1>1, <1>2, Handles, PTL DEF LogSpec

-----------------------------------------------------------------------------
(* The size of the file. *)

Between == {t \in Threads : lpc[t] \in Behind}
Writing == {t \in Threads : lpc[t] = "prefix"}

\* Each line counted pays for its two strings; the texts that are owed and the prefix that is
\* about to be written are set against it, with one string for each thread and two for
\* "LOG START" and "LOG END".  A file that is closed is no longer written.
Paid ==
    log_file_handle = "open" =>
      size + Cardinality(Between) + 2 * Cardinality(Writing)
        <= 2 * count + Cardinality(Threads) + (IF closing = "no" THEN 1 ELSE 2)

SizeInv == Paid /\ FileBounded

\* The sets that are counted are finite, and their sizes numbers.
LEMMA Finite ==
    /\ Cardinality(Threads) \in Nat
    /\ IsFiniteSet(Between) /\ Cardinality(Between) \in Nat
    /\ IsFiniteSet(Writing) /\ Cardinality(Writing) \in Nat
BY FS_Subset, FS_CardinalityType DEF Between, Writing

\* The same of the next state.
LEMMA FiniteNext ==
    /\ IsFiniteSet(Between') /\ Cardinality(Between') \in Nat
    /\ IsFiniteSet(Writing') /\ Cardinality(Writing') \in Nat
BY FS_Subset, FS_CardinalityType DEF Between, Writing

\* A step that leaves the sets, the count and the file alone.
LEMMA PaidUnchanged ==
    ASSUME LogTypeOK, SizeInv, size' = size, Between' = Between, Writing' = Writing, count' = count,
           closing' = closing \/ (closing = "no" /\ closing' # "no"),
           log_file_handle' = "open" => log_file_handle = "open"
    PROVE  SizeInv'
BY Finite DEF SizeInv, Paid, FileBounded, LogTypeOK

\* A thread that writes its text, or a prefix, owes less by what it writes.
LEMMA PaidWrite ==
    ASSUME LogTypeOK, SizeInv,
           size' \in {size, size + 1}, log_file_handle # "open" => size' = size,
           log_file_handle' = log_file_handle, count' = count, closing' = closing,
           Cardinality(Between) + 2 * Cardinality(Writing)
             = Cardinality(Between') + 2 * Cardinality(Writing') + 1
    PROVE  SizeInv'
BY Finite, FiniteNext DEF SizeInv, Paid, FileBounded, LogTypeOK

LEMMA SizeStep ==
    ASSUME LogTypeOK, HandleInv, SizeInv, [LogNext]_logVars
    PROVE  SizeInv'
<1> USE DEF LogTypeOK, Goto, Behind, Inside
<1>1. ASSUME NEW t \in Threads, NEW ln \in Lines, LogLine(t, ln) PROVE SizeInv'
  <2>1. CASE log_file_handle = "NULL"
    BY <1>1, <2>1 DEF LogLine, SizeInv, Paid, FileBounded, file
  <2>2. CASE log_file_handle # "NULL"
    <3>1. /\ lpc[t] = "idle" /\ lpc' = [lpc EXCEPT ![t] = "lock"]
          /\ UNCHANGED <<log_file_handle, count, size, closing>>
      BY <1>1, <2>2 DEF LogLine, file
    <3>2. Between' = Between /\ Writing' = Writing
      BY <3>1 DEF Between, Writing
    <3> QED BY <3>1, <3>2, PaidUnchanged
  <2> QED BY <2>1, <2>2
<1>2. ASSUME NEW t \in Threads, PreambleLock(t) PROVE SizeInv'
  <2>1. CASE count + 1 >= MaxLogLineNum
    BY <1>2, <2>1 DEF PreambleLock, Fclose, SizeInv, Paid, FileBounded, file
  <2>2. CASE ~(count + 1 >= MaxLogLineNum)
    <3>1. /\ lpc[t] = "lock" /\ lpc' = [lpc EXCEPT ![t] = "prefix"] /\ count' = count + 1
          /\ UNCHANGED <<log_file_handle, size, closing>>
      BY <1>2, <2>2 DEF PreambleLock, file
    <3>2. Between' = Between /\ Writing' = Writing \cup {t} /\ t \notin Writing
      BY <3>1 DEF Between, Writing
    <3>3. Cardinality(Writing') = Cardinality(Writing) + 1
      BY <3>2, Finite, FS_AddElement
    <3> QED BY <3>1, <3>2, <3>3, Finite DEF SizeInv, Paid, FileBounded
  <2> QED BY <2>1, <2>2
<1>3. ASSUME NEW t \in Threads, Reopen(t) PROVE SizeInv'
  <2>1. CASE log_file_handle' = "open"
    <3>1. /\ lpc[t] = "reopen" /\ lpc' = [lpc EXCEPT ![t] = "prefix"]
          /\ size' = 0 /\ count' = 0 /\ closing' = closing
      BY <1>3, <2>1 DEF Reopen, HandleInv
    <3>2. \A u \in Threads : u # t => lpc[u] # "prefix"
      BY <3>1 DEF HandleInv
    <3>3. Writing' = {t} /\ Between' \subseteq Threads \ {t}
      BY <3>1, <3>2 DEF Between, Writing
    <3>4. Cardinality(Writing') = 1
      BY <3>3, FS_Singleton
    <3>5. IsFiniteSet(Threads \ {t}) /\ Cardinality(Threads \ {t}) = Cardinality(Threads) - 1
      BY FS_RemoveElement
    <3>6. Cardinality(Between') <= Cardinality(Threads) - 1
      BY <3>3, <3>5, FS_Subset
    <3> QED BY <3>1, <3>4, <3>6, Finite, FiniteNext DEF SizeInv, Paid, FileBounded
  <2>2. CASE log_file_handle' # "open"
    BY <1>3, <2>2 DEF Reopen, SizeInv, Paid, FileBounded, file
  <2> QED BY <2>1, <2>2
<1>4. ASSUME NEW t \in Threads, PreambleWrite(t) PROVE SizeInv'
  <2>1. /\ lpc[t] = "prefix" /\ lpc' = [lpc EXCEPT ![t] = "text_test"]
        /\ log_file_handle' = log_file_handle /\ count' = count /\ closing' = closing
    BY <1>4 DEF PreambleWrite
  <2>2. size' \in {size, size + 1} /\ (log_file_handle # "open" => size' = size)
    BY <1>4 DEF PreambleWrite, Write, file
  <2>3. /\ Writing' = Writing \ {t} /\ t \in Writing
        /\ Between' = Between \cup {t} /\ t \notin Between
    BY <2>1 DEF Between, Writing
  <2>4. /\ Cardinality(Writing') = Cardinality(Writing) - 1
        /\ Cardinality(Between') = Cardinality(Between) + 1
    BY <2>3, Finite, FS_RemoveElement, FS_AddElement
  <2> QED BY <2>1, <2>2, <2>4, Finite, PaidWrite
<1>5. ASSUME NEW t \in Threads, TextTest(t) PROVE SizeInv'
  <2>1. CASE log_file_handle = "NULL"
    BY <1>5, <2>1 DEF TextTest, SizeInv, Paid, FileBounded, file
  <2>2. CASE log_file_handle # "NULL"
    <3>1. /\ lpc[t] = "text_test" /\ lpc' = [lpc EXCEPT ![t] = "text_lock"]
          /\ UNCHANGED <<log_file_handle, count, size, closing>>
      BY <1>5, <2>2 DEF TextTest, file
    <3>2. Between' = Between /\ Writing' = Writing
      BY <3>1 DEF Between, Writing
    <3> QED BY <3>1, <3>2, PaidUnchanged
  <2> QED BY <2>1, <2>2
<1>6. ASSUME NEW t \in Threads, TextLock(t) PROVE SizeInv'
  <2>1. /\ lpc[t] = "text_lock" /\ lpc' = [lpc EXCEPT ![t] = "text"]
        /\ UNCHANGED <<log_file_handle, count, size, closing>>
    BY <1>6 DEF TextLock, file
  <2>2. Between' = Between /\ Writing' = Writing
    BY <2>1 DEF Between, Writing
  <2> QED BY <2>1, <2>2, PaidUnchanged
<1>7. ASSUME NEW t \in Threads, TextWrite(t) PROVE SizeInv'
  <2>1. /\ lpc[t] = "text" /\ lpc' = [lpc EXCEPT ![t] = "idle"]
        /\ log_file_handle' = log_file_handle /\ count' = count /\ closing' = closing
    BY <1>7 DEF TextWrite
  <2>2. size' \in {size, size + 1} /\ (log_file_handle # "open" => size' = size)
    BY <1>7 DEF TextWrite, Write, file
  <2>3. Writing' = Writing /\ Between' = Between \ {t} /\ t \in Between
    BY <2>1 DEF Between, Writing
  <2>4. Cardinality(Between') = Cardinality(Between) - 1
    BY <2>3, Finite, FS_RemoveElement
  <2> QED BY <2>1, <2>2, <2>3, <2>4, Finite, PaidWrite
<1>8. CASE CloseLog
  <2>1. CASE log_file_handle = "NULL"
    BY <1>8, <2>1 DEF CloseLog, SizeInv, Paid, FileBounded, file
  <2>2. CASE log_file_handle # "NULL"
    <3>1. /\ lpc[Main] = "idle" /\ lpc' = [lpc EXCEPT ![Main] = "text_test"]
          /\ closing = "no" /\ closing' = "end"
          /\ UNCHANGED <<log_file_handle, count, size>>
      BY <1>8, <2>2 DEF CloseLog, file
    <3>2. Writing' = Writing /\ Between' = Between \cup {Main} /\ Main \notin Between
      BY <3>1 DEF Between, Writing
    <3>3. Cardinality(Between') = Cardinality(Between) + 1
      BY <3>2, Finite, FS_AddElement
    <3> QED BY <3>1, <3>2, <3>3, Finite DEF SizeInv, Paid, FileBounded
  <2> QED BY <2>1, <2>2
<1>9. CASE CloseFile
  BY <1>9 DEF CloseFile, Fclose, SizeInv, Paid, FileBounded, file
<1>10. CASE UNCHANGED logVars
  <2>1. Between' = Between /\ Writing' = Writing
    BY <1>10 DEF logVars, Between, Writing
  <2> QED BY <1>10, <2>1, PaidUnchanged DEF logVars
<1> QED BY <1>1, <1>2, <1>3, <1>4, <1>5, <1>6, <1>7, <1>8, <1>9, <1>10, Steps

LEMMA SizeInit == LogInit => SizeInv
<1> SUFFICES ASSUME LogInit PROVE SizeInv
  OBVIOUS
<1>1. /\ size = 1 /\ count = 0 /\ closing = "no" /\ lpc = [t \in Threads |-> "idle"]
  BY DEF LogInit
<1>2. Between = {} /\ Writing = {}
  BY <1>1 DEF Between, Writing, Behind
<1>3. Cardinality(Between) = 0 /\ Cardinality(Writing) = 0
  BY <1>2, FS_EmptySet
<1> QED BY <1>1, <1>3, Finite DEF SizeInv, Paid, FileBounded

\* log.c:97: with k threads the file never has more than 2 * MAX_LOG_LINE_NUM + k strings.
THEOREM FileIsBounded == LogSpec => []FileBounded
<1>1. SizeInv => FileBounded
  BY DEF SizeInv
<1> QED BY <1>1, SizeInit, SizeStep, TypeInit, TypeStep, HandleInit, HandleStep, PTL DEF LogSpec
=============================================================================
