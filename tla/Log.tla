-------------------------------- MODULE Log --------------------------------
(***************************************************************************)
(* The log of server/log.c: LOG_INFO as the threads of the server run it,  *)
(* the file that starts afresh after MAX_LOG_LINE_NUM lines, and           *)
(* log_close, which main runs while the other threads still log.           *)
(*                                                                         *)
(* Granularity.  LOG_INFO writes a line in two parts, each under the       *)
(* mutex: the prefix (log_preamble) and the text (log_s).  Either tests    *)
(* the handle before it takes the mutex, so the test is a step of its own. *)
(* Inside the mutex the closing of a full file and its reopening are       *)
(* steps, for log_close takes no mutex for its fclose.                     *)
(*                                                                         *)
(* Data.  The file is its number of strings and the last of them.  A line  *)
(* is the LOG_INFO it comes from, its level and what its text becomes;     *)
(* a prefix is the same string whenever it comes from the same LOG_INFO.   *)
(***************************************************************************)
EXTENDS Integers, FiniteSets

CONSTANTS
    Threads, Main,      \* the threads that log, and main
    Sites, Texts,       \* LOG_INFO statements, and texts
    Lines,              \* the lines: [site, level, text]
    LogLevels,          \* the LogLevel of config.ini, one of these
    MaxLogLineNum,      \* MAX_LOG_LINE_NUM
    NoThread, NoEntry   \* nobody has log_mutex; the file is empty

ASSUME LogThreads == Main \in Threads /\ NoThread \notin Threads /\ IsFiniteSet(Threads)
ASSUME LogLines == Lines \subseteq [site : Sites, level : 1..6, text : Texts]
ASSUME LogLimit == LogLevels \subseteq Nat /\ MaxLogLineNum \in Nat \ {0, 1}

VARIABLES
    log_mutex, def_log_level,
    log_file_handle,    \* "open", "NULL", or "closed": not NULL, and its file closed
    last_log_str,
    count,              \* of log_preamble; that of log_s is never used
    size, entry,        \* the file: how many strings it has, and the last one
    lpc, line,          \* each thread, in the line it writes
    closing,            \* log_close: "no", "end" while it runs, "done"
    crashed             \* undefined behaviour has ended the server

file == <<size, entry>>
logVars == <<log_mutex, def_log_level, log_file_handle, last_log_str, count, size, entry, lpc, line,
             closing, crashed>>

Prefix(s) == [kind |-> "prefix", of |-> s]
Text(x) == [kind |-> "text", of |-> x]
Start == Text("START")
EndLine == [site |-> "none", level |-> 1, text |-> "END"]
Strings == [kind : {"prefix"}, of : Sites] \cup [kind : {"text"}, of : Texts \cup {"START", "END"}]

\* The levels that preamble_logstr, an array of five, has a label for.
preamble_logstr == 0..4

\* The steps in which a thread has the mutex, and those between a prefix and its text.
Inside == {"reopen", "prefix", "text"}
Behind == {"text_test", "text_lock", "text"}
LogPC == {"idle", "lock"} \cup Inside \cup Behind

\* log_init and log_set_level are behind.
LogInit ==
    /\ log_mutex = NoThread /\ log_file_handle = "open" /\ def_log_level \in LogLevels
    /\ last_log_str = Start /\ count = 0
    /\ size = 1 /\ entry = Start
    /\ lpc = [t \in Threads |-> "idle"] /\ line = [t \in Threads |-> EndLine]
    /\ closing = "no" /\ crashed = FALSE

Goto(t, pc) == lpc' = [lpc EXCEPT ![t] = pc]
Crash == crashed' = TRUE

-----------------------------------------------------------------------------
(* LOG_INFO. *)

\* log_preamble is called; without a handle it returns at once, and log_s is called.
LogLine(t, ln) ==
    /\ lpc[t] = "idle" /\ ~(t = Main /\ closing = "end")
    /\ Goto(t, IF log_file_handle = "NULL" THEN "text_test" ELSE "lock")
    /\ line' = [line EXCEPT ![t] = ln]
    /\ UNCHANGED <<def_log_level, log_mutex, log_file_handle, last_log_str, count, file, closing, crashed>>

\* fclose of a handle whose file is closed may crash or not; fclose of NULL does.
Fclose ==
    /\ log_file_handle' = IF log_file_handle = "NULL" THEN "NULL" ELSE "closed"
    /\ \/ log_file_handle = "open" /\ UNCHANGED crashed
       \/ log_file_handle = "closed" /\ crashed' \in BOOLEAN
       \/ log_file_handle = "NULL" /\ Crash

\* Faulty variant: one line more.
PreambleLockLate(t) ==
    /\ lpc[t] = "lock" /\ log_mutex = NoThread
    /\ log_mutex' = t
    /\ IF count + 1 > MaxLogLineNum
         THEN count' = 0 /\ Fclose /\ Goto(t, "reopen")
         ELSE count' = count + 1 /\ Goto(t, "prefix") /\ UNCHANGED <<log_file_handle, crashed>>
    /\ UNCHANGED <<def_log_level, last_log_str, file, line, closing>>

\* log_preamble takes the mutex and counts; a full file is closed.
PreambleLock(t) ==
    /\ lpc[t] = "lock" /\ log_mutex = NoThread
    /\ log_mutex' = t
    /\ IF count + 1 >= MaxLogLineNum
         THEN count' = 0 /\ Fclose /\ Goto(t, "reopen")
         ELSE count' = count + 1 /\ Goto(t, "prefix") /\ UNCHANGED <<log_file_handle, crashed>>
    /\ UNCHANGED <<def_log_level, last_log_str, file, line, closing>>

\* Faulty variant: the file is opened to append.
ReopenAppends(t) ==
    /\ lpc[t] = "reopen"
    /\ log_file_handle' = "open"
    /\ UNCHANGED file
    /\ Goto(t, "prefix")
    /\ UNCHANGED <<def_log_level, log_mutex, last_log_str, count, line, closing, crashed>>

\* fopen empties the file, or fails: an accept may have taken the last descriptor.
Reopen(t) ==
    /\ lpc[t] = "reopen"
    /\ \/ log_file_handle' = "open" /\ size' = 0 /\ entry' = NoEntry
       \/ log_file_handle' = "NULL" /\ UNCHANGED file
    /\ Goto(t, "prefix")
    /\ UNCHANGED <<def_log_level, log_mutex, last_log_str, count, line, closing, crashed>>

Wanted(t, string) == string # last_log_str /\ line[t].level <= def_log_level

\* Faulty variant: a string that is not wanted is remembered all the same.
WriteRemembersAll(t, string) ==
    /\ IF Wanted(t, string)
         THEN /\ size' = size + 1
              /\ entry' = string
              /\ UNCHANGED crashed
         ELSE UNCHANGED <<file, crashed>>
    /\ last_log_str' = string
    /\ log_mutex' = NoThread

\* The string goes to the file unless it is the last one again, or its level is too high;
\* fflush, and the mutex is released.  fprintf to NULL crashes; on a closed file either may.
Write(t, string) ==
    /\ IF Wanted(t, string)
         THEN /\ last_log_str' = string
              /\ \/ /\ log_file_handle = "open"
                    /\ size' = size + 1
                    /\ entry' = string
                    /\ UNCHANGED crashed
                 \/ log_file_handle = "closed" /\ crashed' \in BOOLEAN /\ UNCHANGED file
                 \/ log_file_handle = "NULL" /\ Crash /\ UNCHANGED file
         ELSE /\ UNCHANGED <<last_log_str, file>>
              /\ UNCHANGED crashed \/ (log_file_handle = "closed" /\ crashed' \in BOOLEAN)
    /\ log_mutex' = NoThread

\* log_preamble writes its string.  The label of a level above 4 is not in the array: what
\* is printed, if that does not crash, is anything.
PreambleWrite(t) ==
    /\ lpc[t] = "prefix"
    /\ \/ Write(t, Prefix(line[t].site))
       \/ /\ Wanted(t, Prefix(line[t].site)) /\ line[t].level \notin preamble_logstr
          /\ Crash /\ UNCHANGED <<log_mutex, last_log_str, file>>
    /\ Goto(t, "text_test")
    /\ UNCHANGED <<def_log_level, log_file_handle, count, line, closing>>

\* log_s: without a handle it returns.
TextTest(t) ==
    /\ lpc[t] = "text_test"
    /\ Goto(t, IF log_file_handle = "NULL" THEN "idle" ELSE "text_lock")
    /\ UNCHANGED <<def_log_level, log_mutex, log_file_handle, last_log_str, count, file, line, closing, crashed>>

\* Faulty variant: log_s takes no mutex.
TextLockFree(t) ==
    /\ lpc[t] = "text_lock"
    /\ log_mutex' = t
    /\ Goto(t, "text")
    /\ UNCHANGED <<def_log_level, log_file_handle, last_log_str, count, file, line, closing, crashed>>

TextLock(t) ==
    /\ lpc[t] = "text_lock" /\ log_mutex = NoThread
    /\ log_mutex' = t
    /\ Goto(t, "text")
    /\ UNCHANGED <<def_log_level, log_file_handle, last_log_str, count, file, line, closing, crashed>>

\* Faulty variant: the text is written only below the level.
TextWriteBelow(t) ==
    /\ lpc[t] = "text"
    /\ IF line[t].level < def_log_level
         THEN Write(t, Text(line[t].text))
         ELSE log_mutex' = NoThread /\ UNCHANGED <<last_log_str, file, crashed>>
    /\ Goto(t, "idle")
    /\ UNCHANGED <<def_log_level, log_file_handle, count, line, closing>>

TextWrite(t) ==
    /\ lpc[t] = "text"
    /\ Write(t, Text(line[t].text))
    /\ Goto(t, "idle")
    /\ UNCHANGED <<def_log_level, log_file_handle, count, line, closing>>

\* The steps of a line that has been begun.
LogStep(t) == \/ PreambleLock(t) \/ Reopen(t) \/ PreambleWrite(t)
              \/ TextTest(t) \/ TextLock(t) \/ TextWrite(t)

-----------------------------------------------------------------------------
(* log_close, by main as its last line. *)

\* With a handle, "LOG END" is written with log_s; without one nothing is done.
CloseLog ==
    /\ lpc[Main] = "idle" /\ closing = "no"
    /\ IF log_file_handle = "NULL"
         THEN closing' = "done" /\ UNCHANGED <<lpc, line>>
         ELSE /\ closing' = "end" /\ Goto(Main, "text_test")
              /\ line' = [line EXCEPT ![Main] = EndLine]
    /\ UNCHANGED <<def_log_level, log_mutex, log_file_handle, last_log_str, count, file, crashed>>

\* The file is closed without the mutex, and the handle kept.
CloseFile ==
    /\ lpc[Main] = "idle" /\ closing = "end"
    /\ Fclose
    /\ closing' = "done"
    /\ UNCHANGED <<def_log_level, log_mutex, last_log_str, count, file, lpc, line>>

-----------------------------------------------------------------------------

\* main logs nothing after log_close.
LogNext ==
    /\ ~crashed
    /\ \/ \E t \in Threads : \/ \E ln \in Lines : ~(t = Main /\ closing = "done") /\ LogLine(t, ln)
                             \/ LogStep(t)
       \/ CloseLog \/ CloseFile

LogSpec == LogInit /\ [][LogNext]_logVars

-----------------------------------------------------------------------------
(* Properties. *)

LogTypeOK ==
    /\ log_mutex \in Threads \cup {NoThread} /\ def_log_level \in LogLevels
    /\ log_file_handle \in {"open", "NULL", "closed"}
    /\ last_log_str \in Strings /\ count \in 0..(MaxLogLineNum - 1)
    /\ size \in Nat /\ (entry = NoEntry \/ entry \in Strings)
    /\ lpc \in [Threads -> LogPC] /\ line \in [Threads -> Lines \cup {EndLine}]
    /\ closing \in {"no", "end", "done"} /\ crashed \in BOOLEAN

\* The file is bounded (log.c:97) although only prefixes are counted: the texts that other
\* threads owe when the file starts afresh, and "LOG END", come on top.
FileBounded == size <= 2 * MaxLogLineNum + Cardinality(Threads)

\* A prefix is never the last word (log.h:24): while the log has a handle, a thread that has
\* yet to write the text stands behind a prefix that was written last, and will write it.
PrefixAwaitsText ==
    last_log_str.kind = "prefix" /\ log_file_handle # "NULL" =>
      \E t \in Threads : /\ lpc[t] \in Behind /\ line[t].level <= def_log_level
                         /\ Prefix(line[t].site) = last_log_str

\* What the filter of log.c:105 compares with is the last string of the file, whichever
\* thread wrote it; so only a string that would follow itself is left out.
FilterSeesTheFile ==
    log_file_handle = "open" /\ entry # NoEntry => last_log_str = entry

\* Logging brings the server down only after a full file could not be opened again
\* (log.c:101), once main has closed the log (log.c:167), or at a level that has no label.
CrashNeedsDeadHandle ==
    crashed => log_file_handle = "NULL" \/ closing = "done" \/ def_log_level > 4
=============================================================================
