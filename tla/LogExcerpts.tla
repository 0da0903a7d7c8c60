----------------------------- MODULE LogExcerpts -----------------------------
(***************************************************************************)
(* What scripts/playwright_session_handling.js shows of an app's log when  *)
(* a test fails: a window of lines around those that name the session,     *)
(* without the DEBUG records, whose dumps hold session values.  A record   *)
(* may be of several lines and only the first bears its level, but the     *)
(* window is cut by lines.  Excerpts are sets of positions in the log; the *)
(* "--" between two groups of grep's output is no line of a record and     *)
(* changes nothing in quiet.  A further line does not begin like a first   *)
(* one.  Rewording what is shown (redact) is left out.                     *)
(***************************************************************************)
EXTENDS Naturals, Sequences, FiniteSets

CONSTANTS After,       \* lines the window has after one that names the session
          MaxShown,    \* the most lines that are shown
          MaxLines     \* bound: the length of the log

ASSUME SizesAssumption == After \in Nat /\ MaxShown \in Nat /\ MaxLines \in Nat

VARIABLE log

(* A line: the position of its record's first line; whether the record is  *)
(* a DEBUG one; whether the word is in this line, which in a first line is *)
(* all that quiet goes by; whether the session's short id is.              *)
Line == [first : Nat, debug : BOOLEAN, word : BOOLEAN, names : BOOLEAN]

LogInit == log = << >>

(* The app logs a record's first line, which has its level in it ... *)
LogFirst(debug, word, names) ==
    /\ Len(log) < MaxLines
    /\ debug => word
    /\ log' = Append(log, [first |-> Len(log) + 1, debug |-> debug,
                           word |-> word, names |-> names])

(* ... and further lines of it. *)
LogFurther(word, names) ==
    /\ Len(log) # 0 /\ Len(log) < MaxLines
    /\ log' = Append(log, [log[Len(log)] EXCEPT !.word = word, !.names = names])

LogNext == \E word, names \in BOOLEAN :
    \/ \E debug \in BOOLEAN : LogFirst(debug, word, names)
    \/ LogFurther(word, names)

LogSpec == LogInit /\ [][LogNext]_log

------------------------------------------------------------------------------
Naming == {i \in DOMAIN log : log[i].names}

IsFirst(i) == log[i].first = i

(* sessionLogWindow: grep -A.  A command that fails reads as an empty log. *)
SessionLogWindow == {i \in DOMAIN log : \E j \in Naming : i \in j..(j + After)}

(* Mutants of Quiet: decides line by line; never stops dropping.           *)
Quiet_ByLine(excerpt) == {i \in excerpt : ~(IsFirst(i) /\ log[i].word)}

Quiet_NeverResumes(excerpt) ==
    {i \in excerpt : ~\E j \in excerpt : j <= i /\ IsFirst(j) /\ log[j].word}

(* quiet: a first line with the word starts the dropping, the next first   *)
(* line decides anew.  Before any first line everything is kept.           *)
Quiet(excerpt) ==
    {i \in excerpt :
        ~\E j \in excerpt : /\ j <= i /\ IsFirst(j) /\ log[j].word
                            /\ \A k \in excerpt : k \in (j + 1)..i => ~IsFirst(k)}

(* diagnose: of what is left, the lines that name the session, the last    *)
(* of them; none is reported as "nothing ... names this session".          *)
Answers == Quiet(SessionLogWindow) \cap Naming

Diagnose == {i \in Answers : Cardinality({j \in Answers : j > i}) < MaxShown}

------------------------------------------------------------------------------
(* The log is one of whole records: a line lies in the record of the first *)
(* line it belongs to, which is of the same level, and no other record     *)
(* starts between the two.                                                 *)
RecordsAreWhole ==
    /\ log \in Seq(Line)
    /\ \A i \in DOMAIN log :
        /\ log[i].first \in 1..i
        /\ IsFirst(log[i].first)
        /\ log[i].debug = log[log[i].first].debug
        /\ log[i].debug => log[log[i].first].word
        /\ \A k \in (log[i].first + 1)..i : ~IsFirst(k)

(* "Drop DEBUG records ... - whole records, not just their first line"     *)
(* (quiet): a line that is shown is of a DEBUG record only if that record  *)
(* starts outside of the window, which is cut without regard to records.   *)
DumpsAreNotShown ==
    \A i \in Diagnose : log[i].debug => log[i].first \notin SessionLogWindow

(* "the non-DEBUG lines that name this session, or - when nothing names    *)
(* it - a note saying so" (diagnose): a line that names the session is     *)
(* shown, or so many later ones are, unless its record is a DEBUG one,     *)
(* starts outside of the window, or has the word in its first line.        *)
NamingLinesAreShown ==
    \A i \in Naming \ Diagnose :
        \/ log[i].debug
        \/ log[i].first \notin SessionLogWindow
        \/ log[log[i].first].word
        \/ Cardinality({j \in Answers : j > i}) >= MaxShown
==============================================================================
