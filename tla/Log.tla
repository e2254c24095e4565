--------------------------------- MODULE Log ---------------------------------
(***************************************************************************)
(* The log file: init and NekoLogger::log (nekoguard/src/ng_log.rs).  The  *)
(* logger counts the bytes it has written since the file was opened, on    *)
(* top of what was there, and starts the file afresh when the next line    *)
(* would take the count over the limit.  A line is its length.             *)
(***************************************************************************)
EXTENDS Naturals

CONSTANTS
    LineLengths,   \* the lengths of lines
    MaxFile        \* bound: longer files, and higher counts, are not followed

ASSUME LogAssumption == LineLengths \subseteq Nat \ {0} /\ MaxFile \in Nat

VARIABLES
    fileLen,       \* the file's real length, which outlives the process
    size,          \* LogFile.size
    written,       \* history: a line was logged since the file was opened
    mishap         \* history: the length could not be read or the file not emptied

logVars == <<fileLen, size, written, mishap>>

LogTypeOK ==
    /\ fileLen \in 0..MaxFile
    /\ size \in 0..MaxFile
    /\ written \in BOOLEAN /\ mishap \in BOOLEAN

LogInit == fileLen \in 0..MaxFile /\ size = 0 /\ written = FALSE /\ mishap = FALSE

-----------------------------------------------------------------------------
(* Faulty: what the file holds already is not counted.                      *)
LogOpenAnew ==
    /\ size' = 0 /\ written' = FALSE
    /\ UNCHANGED <<fileLen, mishap>>

(* init: start from the length of the file, or from 0 if it cannot be read. *)
LogOpen ==
    /\ \/ size' = fileLen /\ UNCHANGED mishap
       \/ size' = 0 /\ mishap' = TRUE
    /\ written' = FALSE
    /\ UNCHANGED fileLen

(* A write may fail after some of the line.                                 *)
WriteAll(from, n) == \E k \in 0..n : from + k <= MaxFile /\ fileLen' = from + k

(* log: a line that would take the count over max (0: no limit) empties the *)
(* file first; if that fails the line is appended all the same.  The line   *)
(* counts whether or not it was written.                                    *)
LogLine(n, max) ==
    LET over == max > 0 /\ size + n > max IN
    /\ \/ over /\ size' = n /\ WriteAll(0, n) /\ UNCHANGED mishap
       \/ over /\ size' = size + n /\ WriteAll(fileLen, n) /\ mishap' = TRUE
       \/ ~over /\ size' = size + n /\ WriteAll(fileLen, n) /\ UNCHANGED mishap
    /\ size' <= MaxFile
    /\ written' = TRUE

-----------------------------------------------------------------------------
(* With a limit, once a line has been logged the file is no longer than the *)
(* limit, or than the one line in it: over restarts, and with writes that   *)
(* fail half way, unless its length was unreadable or it could not be       *)
(* emptied.                                                                 *)
WithinLimit(max) ==
    max > 0 /\ written /\ ~mishap =>
        fileLen <= max \/ (fileLen <= size /\ size \in LineLengths)

=============================================================================
