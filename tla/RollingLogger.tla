---------------------------- MODULE RollingLogger ----------------------------
(* Nuclex::Support::Text::RollingLogger: a logger that keeps its last lines *)
(* in a ring (Source/Text/RollingLogger.cpp). A line is its indentation and *)
(* the sequence of texts that were put into it; time and severity are not   *)
(* modelled.                                                                *)
EXTENDS Integers, Sequences

CONSTANTS HistoryLineCount, \* lines to be kept
          Message,          \* texts to log
          MaxIndentation,   \* bound: levels of indentation
          MaxAppended       \* bound: texts appended to a line

VARIABLE logger

LoggerAssumption ==
  /\ HistoryLineCount \in Nat \ {0}
  /\ MaxIndentation \in Nat /\ MaxAppended \in Nat

Size == HistoryLineCount + 1
Blank == [indentation |-> 0, text |-> <<>>]

Init ==
  logger = [lines |-> [l \in 0..Size - 1 |-> Blank], nextLineIndex |-> 0,
            oldestLineIndex |-> 0, indentationCount |-> 0,
            logged |-> <<>>, level |-> 0, draft |-> <<>>, intact |-> TRUE]

Current == logger.lines[logger.nextLineIndex]

(* GetLines(), the oldest one first *)
GetLines ==
  [i \in 1..(logger.nextLineIndex - logger.oldestLineIndex) % Size |->
     logger.lines[(logger.oldestLineIndex + i - 1) % Size]]

(* The line being formed is indented or unindented, too. *)
Indent ==
  /\ logger.level < MaxIndentation
  /\ logger' = [logger EXCEPT !.indentationCount = @ + 1, !.level = @ + 1,
                              !.lines[logger.nextLineIndex].indentation = @ + 1]

Unindent ==
  /\ logger.level > 0
  /\ logger' = [logger EXCEPT !.indentationCount = @ - 1, !.level = @ - 1,
                              !.lines[logger.nextLineIndex].indentation = @ - 1]

AppendText(message) ==
  /\ Len(logger.draft) < MaxAppended
  /\ logger' = [logger EXCEPT !.draft = Append(@, message),
                              !.lines[logger.nextLineIndex].text = Append(@, message)]

(* The line about to be formed is taken from the history. *)
OldestAfter(next) ==
  IF next = logger.oldestLineIndex THEN (next + 1) % Size ELSE logger.oldestLineIndex

(* Inform(), Warn() and Complain(), followed by advanceLine() *)
Log(message) ==
  LET next == (logger.nextLineIndex + 1) % Size
      formed == [Current EXCEPT !.text = Append(@, message)]
      entry == [indentation |-> logger.level, text |-> Append(logger.draft, message)]
      kept == Append(logger.logged, entry)
  IN logger' = [logger EXCEPT
       !.lines = [@ EXCEPT ![logger.nextLineIndex] = formed,
                           ![next] = [Blank EXCEPT !.indentation = logger.indentationCount]],
       !.nextLineIndex = next, !.oldestLineIndex = OldestAfter(next),
       !.draft = <<>>,
       !.logged = SubSeq(kept, IF Len(kept) > HistoryLineCount THEN 2 ELSE 1, Len(kept))]

(* The first line becomes the one being formed, with what it contains.      *)
Clear ==
  /\ logger.indentationCount = 0
  /\ logger' = [logger EXCEPT !.nextLineIndex = 0, !.oldestLineIndex = 0,
                              !.logged = <<>>, !.draft = <<>>,
                              !.intact = @ /\ logger.lines[0] = Blank]

Next ==
  /\ logger.intact
  /\ \/ Indent \/ Unindent \/ Clear
     \/ \E message \in Message : AppendText(message) \/ Log(message)

Spec == Init /\ [][Next]_logger

-----------------------------------------------------------------------------
(* Properties *)

TypeOK ==
  /\ \A l \in 0..Size - 1 : /\ logger.lines[l].indentation \in 0..MaxIndentation
                            /\ logger.lines[l].text \in Seq(Message)
  /\ {logger.nextLineIndex, logger.oldestLineIndex} \subseteq 0..Size - 1

(* The logger returns the latest lines as they were logged, each indented   *)
(* as it was when it was completed, as long as it was not cleared while its *)
(* first line held something.                                               *)
KeepsLatest ==
  logger.intact =>
    /\ GetLines = logger.logged
    /\ Current = [indentation |-> logger.level, text |-> logger.draft]
=============================================================================
