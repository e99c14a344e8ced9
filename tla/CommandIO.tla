------------------------------- MODULE CommandIO -------------------------------
(***************************************************************************)
(* How a command is executed in cdb: fasbExecuteCdbCommand writes it to    *)
(* cdb's stdin, between two commands that print a marker, and              *)
(* fasbReadOutput reads what comes back, byte by byte, up to the prompt.   *)
(* The application prints on the same console, at any time; cdb may give   *)
(* up halfway through a command, insert an error in the middle of a line,  *)
(* or end.                                                                 *)
(*                                                                         *)
(* Both functions run in the thread that talks to cdb.  The other actions  *)
(* are those of cdb and of the application.                                *)
(*                                                                         *)
(* What is read is a sequence of pieces that no test in the code takes     *)
(* apart: a marker, the prompt, a line feed, one half of a line of output, *)
(* some text of the application.  An error message is one piece with the   *)
(* CRLF it ends with.                                                      *)
(*                                                                         *)
(* Left out: HTML, callbacks, CR.  The messages "... failed, NTSTATUS ..." *)
(* (fasbReadOutput:147-155) are output as any other: grbEventFailedError   *)
(* (lines 59-65) matches a status of one hexadecimal digit, and theirs     *)
(* have eight.                                                             *)
(***************************************************************************)
EXTENDS Integers, SequencesExt

CONSTANTS
  OutputLines,     \* bound: the number of lines a command outputs
  MaxCommands,     \* bound: the number of commands
  MaxWrites        \* bound: how often the application prints something

ASSUME CommandIOAssumption == OutputLines \in Nat /\ MaxCommands \in Nat /\ MaxWrites \in Nat

VARIABLES
  pc,                              \* of the thread that talks to cdb
  command,                         \* the command that is executed
  uAttempt,
  bStartOfCommandOutputMarkerFound,
  bEndOfCommandOutputMarkerFound,
  sbFilteredCurrentLine,           \* the pieces of the line that is read
  asbFilteredLines,                \* the lines that were read
  bApplicationIsRunning,
  bCdbIsRunning,                   \* what the code knows of cdb
  cdb,                             \* whether cdb is running
  output,                          \* what cdb has still to print
  commands,                        \* how many commands were executed
  writes,                          \* how often the application has printed something
  midLine                          \* whether there is text on the current line of the console

lineVars == <<bStartOfCommandOutputMarkerFound, bEndOfCommandOutputMarkerFound,
              sbFilteredCurrentLine, asbFilteredLines>>
flagVars == <<bApplicationIsRunning, bCdbIsRunning>>
cdbVars == <<cdb, output>>
counters == <<commands, writes>>
vars == <<pc, command, uAttempt, lineVars, flagVars, cdbVars, counters, midLine>>

(***************************************************************************)
(* Commands, and the pieces cdb and the application print.                 *)
(***************************************************************************)
Piece(what) == [what |-> what]
START == Piece("start")            \* gsbStartOfCommandOutputMarker
END == Piece("end")                \* gsbEndOfCommandOutputMarker
PROMPT == Piece("prompt")
LF == Piece("lf")
ERROR == Piece("error")            \* what grbLineInterruptedByCdbError matches
CPP == Piece("first chance C++")   \* what grbFirstChanceCPPException matches
APPLICATION == Piece("application")

\* The half of a line that an execution of the command outputs.
Half(attempt, i, half) == [what |-> "output", attempt |-> attempt, line |-> i, half |-> half]
Line(attempt, i) == <<Half(attempt, i, 1), Half(attempt, i, 2)>>
Halves == [what : {"output"}, attempt : 0 .. 5, line : 1 .. OutputLines, half : {1, 2}]
Pieces == Halves \cup {START, END, PROMPT, LF, ERROR, CPP, APPLICATION}

\* How commands are executed: "once" and "retry" use markers, and "retry" is
\* bRetryOnTruncatedOutput; "run" is bApplicationWillBeRun, "quit" is bIgnoreOutput and "startup"
\* reads without a command.
Commands == {"once", "retry", "run", "quit"}
bUseMarkers == command \in {"once", "retry"}
uTries == IF command = "retry" THEN 5 ELSE 1

\* All lines of an execution as they are printed, each with a line feed, and as they are wanted.
Printed(attempt) ==
  [k \in 1 .. 3 * OutputLines |-> IF k % 3 = 0 THEN LF ELSE Half(attempt, (k \div 3) + 1, k % 3)]
AllLines(attempt) == [i \in 1 .. OutputLines |-> Line(attempt, i)]
AllHalves(attempt) == [k \in 1 .. 2 * OutputLines |-> Half(attempt, (k + 1) \div 2, 2 - (k % 2))]

\* An error message is printed anywhere or not at all.
WithErrors(pieces) == {pieces} \cup {InsertAt(pieces, i, ERROR) : i \in 1 .. Len(pieces) + 1}

\* cdb may stop executing at any command: what it has printed ends with a line feed, if anything.
Truncated(pieces) ==
  {SubSeq(pieces, 1, n) : n \in {0} \cup {i \in 1 .. Len(pieces) : pieces[i] \in {START, LF}}}

Outputs(c, attempt) ==
  CASE c \in {"once", "retry"} ->
         UNION {{Append(pieces, PROMPT) : pieces \in Truncated(<<START>> \o printed)
                                            \cup {<<START>> \o printed \o <<END>>}} :
                 printed \in WithErrors(Printed(attempt))}
    [] c = "run" -> {<<LF, PROMPT>>, <<CPP, LF, LF, PROMPT>>}
    [] c = "quit" -> {<<>>}
    [] c = "startup" -> {Append(Printed(attempt), PROMPT)}

TypeOK ==
  /\ pc \in {"ready", "writing", "reading", "truncated", "stopped", "failed"}
  /\ command \in Commands \cup {"startup"}
  /\ uAttempt \in 0 .. uTries
  /\ bStartOfCommandOutputMarkerFound \in BOOLEAN /\ bEndOfCommandOutputMarkerFound \in BOOLEAN
  /\ sbFilteredCurrentLine \in Seq(Pieces \ {LF, ERROR})
  /\ asbFilteredLines \in Seq(Seq(Pieces \ {LF, ERROR}) \ {<<>>})
  /\ bApplicationIsRunning = (pc = "reading" /\ command = "run")
  /\ bCdbIsRunning = (pc # "stopped")
  /\ cdb \in BOOLEAN /\ output \in Seq(Pieces)
  /\ commands \in 0 .. MaxCommands /\ writes \in 0 .. MaxWrites
  /\ midLine \in BOOLEAN

\* The output of cdb while it starts is read before any command.
Init ==
  /\ pc = "reading" /\ command = "startup" /\ uAttempt = 0
  /\ bStartOfCommandOutputMarkerFound = FALSE /\ bEndOfCommandOutputMarkerFound = FALSE
  /\ sbFilteredCurrentLine = <<>> /\ asbFilteredLines = <<>>
  /\ bApplicationIsRunning = FALSE /\ bCdbIsRunning = TRUE
  /\ cdb = TRUE /\ output \in Outputs("startup", 0)
  /\ commands = 0 /\ writes = 0 /\ midLine = FALSE

(***************************************************************************)
(* fasbExecuteCdbCommand.                                                  *)
(***************************************************************************)
\* A caller that catches cEndOfCommandOutputMarkerMissingException goes on.
fasbExecuteCdbCommand(c) ==
  /\ pc \in {"ready", "truncated"} /\ commands < MaxCommands
  /\ pc' = "writing" /\ command' = c /\ uAttempt' = 0 /\ commands' = commands + 1
  /\ UNCHANGED <<lineVars, flagVars, cdbVars, writes, midLine>>

\* A bug: only the first attempt starts without lines.
LinesOfAttempts == asbFilteredLines' = IF uAttempt = 0 THEN <<>> ELSE asbFilteredLines

NoLines == asbFilteredLines' = <<>>

fWriteBytes ==
  /\ pc = "writing" /\ cdb
  /\ pc' = "reading" /\ uAttempt' = uAttempt + 1
  /\ bStartOfCommandOutputMarkerFound' = FALSE /\ bEndOfCommandOutputMarkerFound' = FALSE
  /\ sbFilteredCurrentLine' = <<>> /\ NoLines
  /\ bApplicationIsRunning' = (command = "run")
  /\ output' \in Outputs(command, uAttempt')
  /\ midLine' = FALSE                \* the command ends the line of the prompt
  /\ UNCHANGED <<command, bCdbIsRunning, cdb, counters>>

fWriteBytesFails ==
  /\ pc = "writing" /\ ~cdb
  /\ pc' = "stopped" /\ uAttempt' = uAttempt + 1 /\ bCdbIsRunning' = FALSE
  /\ UNCHANGED <<command, lineVars, bApplicationIsRunning, cdbVars, counters, midLine>>

(***************************************************************************)
(* fasbReadOutput, for each piece it reads.  In all cases that end it, the *)
(* application is no longer running (lines 217-222).                       *)
(***************************************************************************)
\* A bug: no "finally".
EndOfReadWithoutFinally(next) == pc' = next /\ UNCHANGED bApplicationIsRunning

EndOfRead(next) == pc' = next /\ bApplicationIsRunning' = FALSE
KeepsReading == pc' = pc /\ UNCHANGED bApplicationIsRunning

\* The end marker must be followed by the prompt.
ReadAfterEndMarker ==
  /\ bEndOfCommandOutputMarkerFound
  /\ EndOfRead("failed")
  /\ UNCHANGED lineVars

FilteredLines ==
  IF sbFilteredCurrentLine \in {<<>>, <<CPP>>} THEN asbFilteredLines
  ELSE Append(asbFilteredLines, sbFilteredCurrentLine)

ReadLineFeed ==
  /\ ~bEndOfCommandOutputMarkerFound
  /\ asbFilteredLines' = FilteredLines /\ sbFilteredCurrentLine' = <<>>
  /\ KeepsReading
  /\ UNCHANGED <<bStartOfCommandOutputMarkerFound, bEndOfCommandOutputMarkerFound>>

\* The error is removed and the line goes on.
ReadError ==
  /\ ~bEndOfCommandOutputMarkerFound
  /\ KeepsReading
  /\ UNCHANGED lineVars

\* The start marker must be all there is on the line, the end marker may follow anything.
IsStart(piece) ==
  bUseMarkers /\ ~bStartOfCommandOutputMarkerFound
    /\ piece = START /\ sbFilteredCurrentLine = <<>>

\* A bug: the end marker is looked for after the start marker is found.
IsEndAfterStart(piece) ==
  bStartOfCommandOutputMarkerFound /\ ~bEndOfCommandOutputMarkerFound /\ piece = END

IsEnd(piece) == bUseMarkers /\ ~bEndOfCommandOutputMarkerFound /\ piece = END

ReadText(piece) ==
  /\ bStartOfCommandOutputMarkerFound' = (bStartOfCommandOutputMarkerFound \/ IsStart(piece))
  /\ bEndOfCommandOutputMarkerFound' = (bEndOfCommandOutputMarkerFound \/ IsEnd(piece))
  /\ sbFilteredCurrentLine' = IF IsStart(piece) \/ IsEnd(piece) THEN sbFilteredCurrentLine
                              ELSE Append(sbFilteredCurrentLine, piece)
  /\ UNCHANGED asbFilteredLines

AtPrompt == sbFilteredCurrentLine' = <<PROMPT>>
IsTruncated == bUseMarkers /\ ~bEndOfCommandOutputMarkerFound'

\* At the prompt the command is done, unless its output is truncated: it is tried again or given up.
EndOfText ==
  \/ ~AtPrompt /\ KeepsReading
  \/ AtPrompt /\ ~IsTruncated /\ EndOfRead("ready")
  \/ AtPrompt /\ IsTruncated /\ uAttempt < uTries /\ EndOfRead("writing")
  \/ AtPrompt /\ IsTruncated /\ uAttempt = uTries /\ EndOfRead("truncated")

Read(piece) ==
  \/ piece \in {LF, ERROR} /\ ReadAfterEndMarker
  \/ piece = LF /\ ReadLineFeed
  \/ piece = ERROR /\ ReadError
  \/ piece \notin {LF, ERROR} /\ ReadText(piece) /\ EndOfText

\* Markers are not text, and an error does not end the line it is in.
Shows(piece) == midLine' = CASE piece = LF -> FALSE
                             [] piece \in {START, END, PROMPT, ERROR} -> midLine
                             [] OTHER -> TRUE

ReadCdbOutput ==
  /\ pc = "reading" /\ output # <<>>
  /\ output' = Tail(output)
  /\ Read(Head(output)) /\ Shows(Head(output))
  /\ UNCHANGED <<command, uAttempt, bCdbIsRunning, cdb, counters>>

\* What the application prints while cdb is not read is read before the output of the next command.
ReadApplicationOutput(piece) ==
  /\ pc = "reading" /\ cdb /\ writes < MaxWrites
  /\ writes' = writes + 1
  /\ Read(piece) /\ Shows(piece)
  /\ UNCHANGED <<command, uAttempt, bCdbIsRunning, cdbVars, commands>>

ReadEOF ==
  /\ pc = "reading" /\ ~cdb /\ output = <<>>
  /\ asbFilteredLines' = FilteredLines /\ sbFilteredCurrentLine' = <<>>
  /\ bCdbIsRunning' = FALSE
  /\ EndOfRead("stopped")
  /\ UNCHANGED <<bStartOfCommandOutputMarkerFound, bEndOfCommandOutputMarkerFound,
                 command, uAttempt, cdbVars, counters, midLine>>

(***************************************************************************)
(* cdb ends when it is told to quit, or when it is terminated.             *)
(***************************************************************************)
CdbEnds ==
  /\ cdb
  /\ cdb' = FALSE
  /\ \E n \in 0 .. Len(output) : output' = SubSeq(output, 1, n)
  /\ UNCHANGED <<pc, command, uAttempt, lineVars, flagVars, counters, midLine>>

\* The bound is reached, or nothing is read from or written to cdb any more.
Ended ==
  /\ \/ pc \in {"stopped", "failed"}
     \/ pc \in {"ready", "truncated"} /\ commands = MaxCommands
  /\ UNCHANGED vars

Main == \/ fWriteBytes \/ fWriteBytesFails \/ ReadCdbOutput \/ ReadEOF

Next ==
  \/ Main
  \/ \E c \in Commands : fasbExecuteCdbCommand(c)
  \/ \E piece \in {APPLICATION, LF} : ReadApplicationOutput(piece)
  \/ CdbEnds
  \/ Ended

Spec == Init /\ [][Next]_vars

\* The thread goes on when there is something to read, and cdb ends when it is told to.
Fairness == WF_vars(Main) /\ WF_vars(CdbEnds /\ command = "quit" /\ pc = "reading")
FairSpec == Spec /\ Fairness

(***************************************************************************)
(* Properties.                                                             *)
(***************************************************************************)

\* FlattenSeq as a recursive function of the position, which proofs can expand.
Flat(lists) ==
  LET flat[n \in 0 .. Len(lists)] == IF n = 0 THEN <<>> ELSE flat[n - 1] \o lists[n]
  IN flat[Len(lists)]

\* What is left of some pieces without those that are not from cdb.
HalvesOf(text) == Flat([n \in DOMAIN text |-> IF text[n] \in Halves THEN <<text[n]>> ELSE <<>>])

CdbOutput(lines) == HalvesOf(Flat(lines))

\* What a command that uses markers returns is all of the output of its last execution and nothing
\* of an earlier one, whatever errors and output of the application are in between, and exactly its
\* lines if the application prints nothing; if the end marker never comes, the output that the
\* exception carries is the beginning of it (fasbReadOutput, and the retries of
\* fasbExecuteCdbCommand:76-100).
OutputIsOfLastAttempt ==
  /\ pc = "ready" /\ bUseMarkers =>
       /\ CdbOutput(asbFilteredLines) = AllHalves(uAttempt)
       /\ writes = 0 => asbFilteredLines = AllLines(uAttempt)
  /\ pc = "truncated" =>
       IsPrefix(CdbOutput(asbFilteredLines), AllHalves(uAttempt))

\* A read ends, in whatever way, as long as the prompt is to come, unless the application leaves
\* text on the line on which the prompt is printed: then the prompt is not recognized (line 205 of
\* fasbReadOutput), cdb waits for a command and the code for a prompt.
ReadEndsUnlessPromptIsMidLine ==
  pc = "reading" /\ (output # <<>> \/ ~cdb \/ command = "quit")
    ~> (pc # "reading" \/ (midLine /\ output = <<>> /\ cdb))
===============================================================================
