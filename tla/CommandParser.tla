--------------------------- MODULE CommandParser ---------------------------
(***************************************************************************)
(* command_parser.c as operators on the CommandParser structure.  A byte   *)
(* is its number on the line, so that a command shows which bytes it was   *)
(* put together from; length is the length of line.                        *)
(***************************************************************************)
EXTENDS Naturals, Sequences

CONSTANT
  LongestCommand  \* COMMAND_PARSER_BUFFER_SIZE - 1

ASSUME ParserAssumption == LongestCommand \in Nat \ {0}

ParserStart == [line |-> <<>>, discarding |-> FALSE, overflow_count |-> 0]

\* command_parser_reset
ParserReset(p) == [p EXCEPT !.line = <<>>, !.discarding = FALSE]

DiscardUntilEol(p) == [p EXCEPT !.line = <<>>, !.discarding = TRUE]

\* feed_byte returns true.
Completes(p, eol) == eol /\ ~p.discarding /\ p.line # <<>>

\* The parser after one byte.
Feed(p, byte, eol) ==
  CASE eol -> [p EXCEPT !.line = <<>>, !.discarding = FALSE]
    [] ~eol /\ p.discarding -> p
    [] ~eol /\ ~p.discarding /\ Len(p.line) >= LongestCommand ->
         [p EXCEPT !.overflow_count = @ + 1, !.line = <<>>, !.discarding = TRUE]
    [] ~eol /\ ~p.discarding /\ Len(p.line) < LongestCommand ->
         [p EXCEPT !.line = Append(@, byte)]

=============================================================================
