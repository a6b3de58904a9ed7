---------------------------- MODULE CommandLine ----------------------------
(***************************************************************************)
(* The command line of the startup task, src/src/startup_windows.go: the   *)
(* task keeps the guard's arguments as one string, which the launched      *)
(* program takes apart again.  A text is a sequence of the characters "q"  *)
(* (quote), "b" (backslash), "blank" (space or tab) and others.            *)
(***************************************************************************)
EXTENDS Integers, SequencesExt

Backslashes(n) == [i \in 1..n |-> "b"]

\* A character inside the quotes.  Backslashes are held back: they are doubled
\* only before a quote, the closing one included.
Written(b, r) ==
  IF r = "b" THEN [b EXCEPT !.backslashes = @ + 1]
  ELSE [text |-> b.text
                 \o Backslashes(IF r = "q" THEN 2 * b.backslashes + 1 ELSE b.backslashes)
                 \o <<r>>,
        backslashes |-> 0]

Quoted(arg) ==
  LET b[i \in 0..Len(arg)] == IF i = 0 THEN [text |-> <<"q">>, backslashes |-> 0]
                              ELSE Written(b[i - 1], arg[i])
      end == b[Len(arg)]
  IN end.text \o Backslashes(2 * end.backslashes) \o <<"q">>

\* A bug: the arguments are quoted without a look at their backslashes.
WindowsCommandLineArg_Plain(arg) ==
  IF arg # <<>> /\ ToSet(arg) \cap {"blank", "q"} = {} THEN arg
  ELSE <<"q">> \o FlattenSeq([i \in DOMAIN arg |->
                                IF arg[i] = "q" THEN <<"b", "q">> ELSE <<arg[i]>>]) \o <<"q">>

WindowsCommandLineArg(arg) ==
  IF arg # <<>> /\ ToSet(arg) \cap {"blank", "q"} = {} THEN arg
  ELSE Quoted(arg)

\* The arguments, quoted as they need it, with a space between them.
WindowsCommandLine(args) ==
  LET line[i \in 0..Len(args)] ==
        IF i = 0 THEN <<>>
        ELSE IF i = 1 THEN WindowsCommandLineArg(args[1])
        ELSE line[i - 1] \o <<"blank">> \o WindowsCommandLineArg(args[i])
  IN line[Len(args)]

-----------------------------------------------------------------------------
(***************************************************************************)
(* The launched program, external: the rules by which a Windows program's  *)
(* runtime splits its command line.  Backslashes count only before a       *)
(* quote, half of them remaining; a quote opens or closes a quoted part,   *)
(* and one right after a closing one is kept.  within: an argument has     *)
(* begun; closed: its last character closed a quoted part.                 *)
(***************************************************************************)
Between(args) == [args |-> args, arg |-> <<>>, nslash |-> 0,
                  within |-> FALSE, inquote |-> FALSE, closed |-> FALSE]
Ended(s) == IF s.within THEN Between(Append(s.args, s.arg \o Backslashes(s.nslash))) ELSE s
Kept(s, c, n) == [s EXCEPT !.arg = @ \o Backslashes(n) \o <<c>>, !.nslash = 0,
                           !.within = TRUE, !.closed = FALSE]

ReadNext(s, c) ==
  CASE c = "blank" /\ ~s.inquote -> Ended(s)
    [] c = "b" -> [s EXCEPT !.nslash = @ + 1, !.within = TRUE, !.closed = FALSE]
    [] c = "q" /\ (s.nslash % 2 = 1 \/ s.closed) -> Kept(s, c, s.nslash \div 2)
    [] c = "q" /\ s.nslash % 2 = 0 /\ ~s.closed ->
         [s EXCEPT !.arg = @ \o Backslashes(s.nslash \div 2), !.nslash = 0, !.within = TRUE,
                   !.inquote = ~@, !.closed = s.inquote]
    [] OTHER -> Kept(s, c, s.nslash)

CommandLineToArgv(cmd) ==
  LET s[i \in 0..Len(cmd)] == IF i = 0 THEN Between(<<>>) ELSE ReadNext(s[i - 1], cmd[i])
  IN Ended(s[Len(cmd)]).args
=============================================================================
