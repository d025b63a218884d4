------------------------------ MODULE ChildPipes ------------------------------
(***************************************************************************)
(* A program between two pipes on the GUI thread: the quote processor of a *)
(* reply (Cmd::pipe) and the markdown processor (ComposeMessage::build).   *)
(* All of the input is written before any output is read, and one output   *)
(* to its end before the other; nothing else happens meanwhile.            *)
(***************************************************************************)
EXTENDS Naturals

CONSTANTS
  PipeCapacity,                  \* what a pipe holds
  MaxInput, MaxPer, MaxWarnings  \* bounds: input, output for each of it, errors

ASSUME PipeAssumption ==
  PipeCapacity \in Nat \ {0} /\ {MaxInput, MaxPer, MaxWarnings} \subseteq Nat

VARIABLES
  pipe_of,     \* who calls: "quote" or "markdown"
  pipe_step,   \* "spawn", "write", "first", "second"; "back" or "thrown"
  unwritten,   \* of the input
  pipes,       \* what is in the pipes stdin, stdout and stderr
  stdin_open,
  child        \* the program, see PipeInit
pipeVars == <<pipe_of, pipe_step, unwritten, pipes, stdin_open, child>>

\* The program writes per units for each it reads and some errors, before the
\* rest or after it: at once, or when it has read all (whole).
PipeInit ==
  /\ pipe_of \in {"quote", "markdown"} /\ pipe_step = "spawn" /\ stdin_open = TRUE
  /\ unwritten \in 0 .. MaxInput /\ pipes = [stdin |-> 0, stdout |-> 0, stderr |-> 0]
  /\ child \in [runs : {FALSE}, whole : BOOLEAN, stderr_first : BOOLEAN, per : 0 .. MaxPer,
                input : {unwritten}, warnings : 0 .. MaxWarnings, stdout : {0}, stderr : {0}]

-----------------------------------------------------------------------------
(* The GUI thread.                                                         *)

First == IF pipe_of = "quote" THEN "stderr" ELSE "stdout"
Second == IF pipe_of = "quote" THEN "stdout" ELSE "stderr"

Spawn ==
  /\ pipe_step = "spawn"
  /\ \/ pipe_step' = "write" /\ child' = [child EXCEPT !.runs = TRUE, !.stderr = child.warnings]
     \/ pipe_step' = "back" /\ UNCHANGED child
  /\ UNCHANGED <<pipe_of, unwritten, pipes, stdin_open>>

\* Writing to a program that is gone is an error that nobody catches.
WriteInput ==
  /\ pipe_step = "write" /\ unwritten > 0
  /\ IF child.runs
     THEN /\ pipes.stdin < PipeCapacity /\ pipes' = [pipes EXCEPT !.stdin = @ + 1]
          /\ unwritten' = unwritten - 1 /\ UNCHANGED pipe_step
     ELSE pipe_step' = "thrown" /\ UNCHANGED <<pipes, unwritten>>
  /\ UNCHANGED <<pipe_of, stdin_open, child>>

\* Bug variant: stdin is closed with the rest at the end.
CloseInputLate ==
  /\ pipe_step = "write" /\ unwritten = 0
  /\ pipe_step' = "first" /\ UNCHANGED <<pipe_of, unwritten, pipes, stdin_open, child>>

CloseInput ==
  /\ pipe_step = "write" /\ unwritten = 0
  /\ pipe_step' = "first" /\ stdin_open' = FALSE
  /\ UNCHANGED <<pipe_of, unwritten, pipes, child>>

\* read_to_end
ReadToEnd(c, next) ==
  /\ \/ pipes[c] > 0 /\ pipes' = [pipes EXCEPT ![c] = @ - 1] /\ UNCHANGED pipe_step
     \/ pipes[c] = 0 /\ ~child.runs /\ pipe_step' = next /\ UNCHANGED pipes
  /\ UNCHANGED <<pipe_of, unwritten, stdin_open, child>>

GuiPipe ==
  \/ Spawn \/ WriteInput \/ CloseInput
  \/ pipe_step = "first" /\ ReadToEnd(First, "second")
  \/ pipe_step = "second" /\ ReadToEnd(Second, "back")

-----------------------------------------------------------------------------
(* The program.                                                            *)

AtEnd == ~stdin_open /\ pipes.stdin = 0
ChildReads ==
  /\ child.runs /\ pipes.stdin > 0 /\ (child.whole \/ child.stdout + child.stderr = 0)
  /\ pipes' = [pipes EXCEPT !.stdin = @ - 1]
  /\ child' = [child EXCEPT !.stdout = @ + child.per]
  /\ UNCHANGED <<pipe_of, pipe_step, unwritten, stdin_open>>

ChildWrites ==
  LET c == IF child.stdout = 0 \/ (child.stderr > 0 /\ child.stderr_first) THEN "stderr"
           ELSE "stdout"
  IN  /\ child.runs /\ (child.whole => AtEnd) /\ child[c] > 0 /\ pipes[c] < PipeCapacity
      /\ pipes' = [pipes EXCEPT ![c] = @ + 1] /\ child' = [child EXCEPT ![c] = @ - 1]
      /\ UNCHANGED <<pipe_of, pipe_step, unwritten, stdin_open>>

ChildEnds ==
  /\ child.runs /\ AtEnd /\ child.stdout + child.stderr = 0
  /\ child' = [child EXCEPT !.runs = FALSE]
  /\ UNCHANGED <<pipe_of, pipe_step, unwritten, pipes, stdin_open>>

\* It is killed, or ends without reading all its input.
ChildDies ==
  /\ child.runs /\ child' = [child EXCEPT !.runs = FALSE]
  /\ UNCHANGED <<pipe_of, pipe_step, unwritten, pipes, stdin_open>>

Filters == ChildReads \/ ChildWrites \/ ChildEnds
PipeNext == GuiPipe \/ Filters \/ ChildDies

\* The program does what it can, and so does the GUI thread.
PipeFairness == WF_pipeVars(GuiPipe) /\ WF_pipeVars(Filters)
PipeSpec == PipeInit /\ [][PipeNext]_pipeVars /\ PipeFairness

-----------------------------------------------------------------------------
(* Properties.                                                             *)

\* Type invariant.
PipeTypeOK ==
  /\ pipe_step \in {"spawn", "write", "first", "second", "back", "thrown"}
  /\ \A c \in DOMAIN pipes : pipes[c] \in 0 .. PipeCapacity
  /\ unwritten + pipes.stdin <= child.input

\* All that the program writes to a pipe.
Volume(c) == IF c = "stdout" THEN child.per * child.input ELSE child.warnings

\* The output read last fits into its pipe, and so does the other one, unless
\* the program does not write before it has read all, or has all its input
\* in its pipe.
Fits ==
  /\ Volume(Second) <= PipeCapacity
  /\ child.whole \/ child.input <= PipeCapacity \/ Volume(First) <= PipeCapacity

\* The program and the GUI thread do not wait for one another for ever, if
\* the output fits: with more of it they do, and the window is frozen.  In
\* any case the GUI thread goes on if the program dies (Cmd::pipe, build).
PipeReturns ==
  pipe_step # "spawn" /\ (Fits \/ ~child.runs) ~> pipe_step \in {"back", "thrown"}

=============================================================================
