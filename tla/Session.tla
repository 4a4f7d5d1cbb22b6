------------------------------ MODULE Session ------------------------------
(***************************************************************************)
(* What a shell session promises: a working directory, which is a list of  *)
(* directory names, and a table of variables with room for Cap of them.    *)
(* A command is the list of its words; a word is a sequence of symbols.    *)
(***************************************************************************)
EXTENDS Paths

CONSTANTS
  Cap,      \* how many variables the table holds
  KeyMax,   \* names are cut to this length
  ValMax    \* values are cut to this length

VARIABLES
  dir,    \* the working directory
  env,    \* the variables
  cmd     \* the last command

vars == <<dir, env, cmd>>

Put(e, k, v) ==
  IF k \in DOMAIN e \/ Cardinality(DOMAIN e) < Cap THEN (k :> v) @@ e ELSE e

\* The prompt's template is there from the start.
Init == dir = <<>> /\ env = (<<"PS1">> :> <<"PROMPT">>) /\ cmd = <<>>

-----------------------------------------------------------------------------

\* Where cd leads: dot and dot-dot alone are special, names are not checked.
Target(path) ==
  CASE path = <<".">> -> dir
    [] path = <<".", ".">> -> IF dir = <<>> THEN dir ELSE Front(dir)
    [] OTHER -> IF path # <<>> /\ path[1] = "/" THEN Components(path)
                ELSE dir \o Components(path)

\* cd moves, and PWD follows if the table has it or has room for it.
Cd(ws) ==
  LET path == IF Len(ws) = 1 THEN <<"/">> ELSE ws[2]
      PWD == <<"PWD">>
  IN  /\ dir' = Target(path)
      /\ \/ path \in {<<".">>, <<".", ".">>} /\ dir' = dir /\ env' = env
         \/ /\ PWD \in DOMAIN env'
            /\ Components(env'[PWD]) = dir'
            /\ env' = Put(env, PWD, env'[PWD])
         \/ /\ PWD \notin DOMAIN env
            /\ Cardinality(DOMAIN env) = Cap
            /\ env' = env

\* export sets one variable and no other; a name must not be empty.
Export(ws) ==
  LET w == ws[2]
      eq == SelectInSeq(w, LAMBDA c : c = "=")
      key == IF eq = 0 THEN w ELSE SubSeq(w, 1, eq - 1)
      val == IF eq = 0 THEN <<>> ELSE SubSeq(w, eq + 1, Len(w))
  IN  /\ env' = IF key = <<>> THEN env
                ELSE Put(env, Cut(key, KeyMax), Cut(val, ValMax))
      /\ UNCHANGED dir

Do(ws) ==
  CASE ws # <<>> /\ ws[1] = <<"cd">> -> Cd(ws)
    [] Len(ws) > 1 /\ ws[1] = <<"export">> -> Export(ws)
    [] OTHER -> UNCHANGED <<dir, env>>

Next == Do(cmd')

Spec == Init /\ [][Next]_vars

=============================================================================
