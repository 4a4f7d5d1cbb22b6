------------------------------- MODULE Shell -------------------------------
(***************************************************************************)
(* The shell's own state (src/src/core/shell/shell.cpp): the working       *)
(* directory and the environment, changed by cd and export, which reach    *)
(* their handlers through the tokenizer of Execute and the command         *)
(* registry (command_registry.cpp).  A string is a sequence of symbols; a  *)
(* symbol is a character, or a whole word that is only ever compared as a  *)
(* whole ("cd", "PWD").  A command runs inside the keyboard interrupt, so  *)
(* it is one step.  What the other commands do to files is in Ext4.        *)
(***************************************************************************)
EXTENDS Paths

CONSTANTS
  Lines,      \* the raw input lines that may be executed
  Commands,   \* lists of words that may be typed, quoted where needed
  MaxArgs,    \* size of Execute's argv, 16
  MaxCmds,    \* size of the registry, 32
  EnvSize,    \* size of envs, 16
  KeyMax,     \* longest key CmdExport keeps, 31
  ValMax,     \* longest value CmdExport keeps, 63
  CwdMax      \* longest cwd SetCWD keeps, 255

Symbol == STRING

ASSUME ShellAssumption ==
  /\ {MaxArgs, MaxCmds, EnvSize, KeyMax, ValMax, CwdMax} \subseteq Nat \ {0}
  /\ ValMax <= CwdMax
  /\ Lines \subseteq Seq(Symbol) /\ Commands \subseteq Seq(Seq(Symbol))

VARIABLES
  cwd,    \* the working directory's path
  envs,   \* envs[0..env_count-1]
  typed   \* history: the words of the last line

state == <<cwd, envs>>

vars == <<cwd, envs, typed>>

PS1 == <<"PS1">>
PWD == <<"PWD">>

EnvVar(k, v) == [key |-> k, value |-> v]

-----------------------------------------------------------------------------
(* The command registry: an array filled by Shell::Init.                   *)

\* The commands in the order Shell::Init registers them.
Registrations ==
  <<"ls", "cd", "cat", "mkdir", "rm", "touch", "pwd", "date", "free",
    "uname", "uptime", "clear", "history", "echo", "help",
    "cp", "mv", "edit", "nano", "export">>

\* CommandRegistry::Register; a name stands for its handler.
Register(table, name) ==
  IF Len(table) >= MaxCmds \/ name \in ToSet(table) THEN table
  ELSE Append(table, name)

Registry == FoldLeft(Register, <<>>, Registrations)

\* CommandRegistry::Get: the handler, or "none".
Get(word) ==
  LET at == SelectInSeq(Registry, LAMBDA name : word = <<name>>)
  IN  IF at = 0 THEN "none" ELSE Registry[at]

-----------------------------------------------------------------------------
(* Execute's tokenizer: one pass over the line and its terminating 0.      *)

Push(t, word) ==
  IF Len(t.argv) < MaxArgs THEN Append(t.argv, word) ELSE t.argv

Quote == "\""

Space == " "

Slash == "/"

\* A symbol is a string, a fact the provers have to be told.
ASSUME SymbolAssumption == {Quote, Space, Slash} \subseteq Symbol

\* The loop's state.
Token(argv, start, in_quotes, in_token) ==
  [argv |-> argv, start |-> start, in_quotes |-> in_quotes, in_token |-> in_token]

\* The end of a token: a space, or the 0 behind the line's characters.
Ends(line, i) == i > Len(line) \/ line[i] = Space

\* Mutant of Unquoted: a word that was open before the quote stays open.
UnquotedOpen(t, word) == Token(Push(t, word), t.start, FALSE, t.in_token)

\* The end of a quoted word ends a word that was open before it, too.
Unquoted(t, word) == Token(Push(t, word), t.start, FALSE, FALSE)

\* One turn of the loop, on character i.
Scan(line, t, i) ==
  LET word == SubSeq(line, t.start, i - 1)
  IN  IF i <= Len(line) /\ line[i] = Quote THEN
        IF t.in_quotes THEN Unquoted(t, word)
        ELSE Token(t.argv, i + 1, TRUE, t.in_token)
      ELSE IF t.in_quotes THEN t
      ELSE IF Ends(line, i) THEN
        IF t.in_token THEN Token(Push(t, word), t.start, FALSE, FALSE) ELSE t
      ELSE IF t.in_token THEN t
      ELSE Token(t.argv, i, FALSE, TRUE)

\* argv[0..argc-1]
Tokenize(line) ==
  LET after[i \in 0..(Len(line) + 1)] ==
        IF i = 0 THEN Token(<<>>, 1, FALSE, FALSE) ELSE Scan(line, after[i - 1], i)
  IN  after[Len(line) + 1].argv

-----------------------------------------------------------------------------
(* Environment and working directory.                                      *)

KeyAt(e, k) == {i \in DOMAIN e : e[i].key = k}

\* Shell::GetEnv, for a key that is there: the first match.
GetEnv(e, k) == e[CHOOSE i \in KeyAt(e, k) : \A j \in KeyAt(e, k) : i <= j].value

\* Mutant of SetEnv: the search stops one entry short.
SetEnvShort(e, k, v) ==
  LET at == KeyAt(e, k) \ {Len(e)}
  IN  IF at # {} THEN [i \in DOMAIN e |-> IF i \in at THEN EnvVar(k, v) ELSE e[i]]
      ELSE IF Len(e) < EnvSize THEN Append(e, EnvVar(k, v)) ELSE e

\* Shell::SetEnv: overwrite the first match, or append while there is room.
SetEnv(e, k, v) ==
  IF KeyAt(e, k) # {}
  THEN LET at == CHOOSE i \in KeyAt(e, k) : \A j \in KeyAt(e, k) : i <= j
       IN  [i \in DOMAIN e |-> IF i = at THEN EnvVar(k, v) ELSE e[i]]
  ELSE IF Len(e) < EnvSize THEN Append(e, EnvVar(k, v)) ELSE e

\* Shell::SetCWD.  The bound: paths that fit the 64 bytes of a variable's
\* value, into which SetEnv copies PWD without looking at its length.
SetCWD(path) ==
  /\ Len(path) <= ValMax
  /\ cwd' = Cut(path, CwdMax)
  /\ envs' = SetEnv(envs, PWD, Cut(path, CwdMax))

\* Where cd .. leads: a trailing slash goes first, then the last name.
Up(path) ==
  LET bare == IF Last(path) = "/" THEN Front(path) ELSE path
      slash == SelectLastInSeq(bare, LAMBDA c : c = "/")
  IN  IF slash <= 1 THEN <<"/">> ELSE SubSeq(bare, 1, slash - 1)

\* Directory and relative argument with one slash between them.
Joined(path, arg) ==
  path \o (IF Last(path) = "/" THEN <<>> ELSE <<"/">>) \o arg

Absolute(path) == path # <<>> /\ path[1] = "/"

\* CmdCd.  Ext4::DirExists is true for every name.
CmdCd(argv) ==
  \/ Len(argv) < 2 /\ SetCWD(<<"/">>)
  \/ /\ Len(argv) >= 2
     /\ LET path == argv[2]
        IN  \/ path = <<".">> /\ UNCHANGED state
            \/ path = <<".", ".">> /\ Len(cwd) <= 1 /\ UNCHANGED state
            \/ path = <<".", ".">> /\ Len(cwd) > 1 /\ SetCWD(Up(cwd))
            \/ /\ path \notin {<<".">>, <<".", ".">>}
               /\ Absolute(path)
               /\ SetCWD(path)
            \/ /\ path \notin {<<".">>, <<".", ".">>}
               /\ ~Absolute(path)
               /\ SetCWD(Joined(cwd, path))

\* CmdExport: KEY=VALUE, cut at the first equals sign.
CmdExport(argv) ==
  LET arg == argv[2]
      eq == SelectInSeq(arg, LAMBDA c : c = "=")
      key == Cut(IF eq = 0 THEN arg ELSE SubSeq(arg, 1, eq - 1), KeyMax)
      val == IF eq = 0 THEN <<>> ELSE Cut(SubSeq(arg, eq + 1, Len(arg)), ValMax)
  IN  \/ Len(argv) < 2 /\ UNCHANGED state
      \/ Len(argv) >= 2 /\ key = <<>> /\ UNCHANGED state
      \/ /\ Len(argv) >= 2 /\ key # <<>>
         /\ envs' = SetEnv(envs, key, val)
         /\ UNCHANGED cwd

\* Shell::Execute.  Only cd and export change the shell's state.
Execute(line) ==
  LET argv == Tokenize(line)
      handler == IF argv = <<>> THEN "none" ELSE Get(argv[1])
  IN  \/ handler = "cd" /\ CmdCd(argv)
      \/ handler = "export" /\ CmdExport(argv)
      \/ handler \notin {"cd", "export"} /\ UNCHANGED state

-----------------------------------------------------------------------------

\* Shell::Shell; PROMPT stands for the prompt's template.
Init ==
  /\ cwd = <<"/">>
  /\ envs = SetEnv(<<>>, PS1, <<"PROMPT">>)
  /\ typed = <<>>

\* What a user types for a list of words: words with a space, and empty
\* words, in quotes, and a space between any two.
Written(w) ==
  IF w = <<>> \/ Space \in ToSet(w) THEN <<Quote>> \o w \o <<Quote>> ELSE w

AddWord(line, w) ==
  IF line = <<>> THEN Written(w) ELSE line \o <<Space>> \o Written(w)

Typed(ws) ==
  LET after[k \in 0..Len(ws)] ==
        IF k = 0 THEN <<>> ELSE AddWord(after[k - 1], ws[k])
  IN  after[Len(ws)]

\* Is place i of the line behind a quote that is still open?
Quoted(line, i) == Cardinality({k \in 1..(i - 1) : line[k] = Quote}) % 2 = 1

\* A quoted word: all that stands between two quotes that belong together.
IsQuoted(line, i, j) ==
  /\ i > 1 /\ line[i - 1] = Quote /\ Quoted(line, i)
  /\ i <= j + 1 /\ j < Len(line) /\ line[j + 1] = Quote
  /\ \A k \in i..j : line[k] # Quote

\* A plain word: a longest run outside quotes, up to a space or the line's end.
IsPlain(line, i, j) ==
  /\ i <= j /\ ~Quoted(line, i)
  /\ \A k \in i..j : line[k] \notin {Space, Quote}
  /\ i = 1 \/ line[i - 1] \in {Space, Quote}
  /\ j = Len(line) \/ line[j + 1] = Space

\* The words of a raw line, by their places and without a scan.  What stands
\* behind an open quote, or directly in front of a quote, is in no word.
WordsOf(line) ==
  LET places == {p \in (1..(Len(line) + 1)) \X (0..Len(line)) :
                   IsQuoted(line, p[1], p[2]) \/ IsPlain(line, p[1], p[2])}
      order == SetToSortSeq(places, LAMBDA p, q : p[1] < q[1])
  IN  Cut([n \in DOMAIN order |-> SubSeq(line, order[n][1], order[n][2])], MaxArgs)

Next ==
  \/ \E line \in Lines : Execute(line) /\ typed' = WordsOf(line)
  \/ \E ws \in Commands : Execute(Typed(ws)) /\ typed' = ws

Spec == Init /\ [][Next]_vars

-----------------------------------------------------------------------------

\* The shell's data stays sound: a path from the root that the next cd can
\* build on (SetCWD, CmdCd), and a table of at most EnvSize variables (SetEnv)
\* in which no key occurs twice and the prompt's template is never lost.
ShellInv ==
  /\ cwd # <<>> /\ cwd[1] = "/"
  /\ Len(envs) \in 1..EnvSize
  /\ envs[1].key = PS1
  /\ \A i, j \in DOMAIN envs : envs[i].key = envs[j].key => i = j

\* The table as a map.
EnvMap ==
  [k \in {envs[i].key : i \in DOMAIN envs} |-> GetEnv(envs, k)]

Promise == INSTANCE Session
  WITH Cap <- EnvSize, dir <- Components(cwd), env <- EnvMap, cmd <- typed

\* A line does what its words say, through the tokenizer, the registry and the
\* fixed-size tables (Execute, CmdCd, CmdExport): its words are the ones typed,
\* or WordsOf for a raw line with quotes anywhere; cd moves by names, PWD
\* follows it, and export sets its own variable and no other, also when the
\* table is full.  It is about words that do not end in two slashes: after one
\* of those cd .. takes off a slash only, where shell.cpp:264 says "Go up one
\* level".
ImplementsSession == Promise!Spec

=============================================================================
