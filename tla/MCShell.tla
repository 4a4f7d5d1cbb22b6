------------------------------ MODULE MCShell ------------------------------
(***************************************************************************)
(* Values for Shell: paths with one name, with trailing slashes, absolute  *)
(* and relative; names that agree up to KeyMax; lines no list of words     *)
(* stands for: every order of a letter, spaces and quotes behind cd (open  *)
(* quotes, quotes inside a word), and too many words.                      *)
(***************************************************************************)
EXTENDS Shell

MCPaths ==
  {<<>>, <<"/">>, <<".">>, <<".", ".">>, <<"a">>, <<"a", "/">>, <<"/", "a">>,
   <<"a", " ", ".">>, <<"/", "/", "a", "/", "b">>}

MCExports ==
  {<<"k", "=", "v">>, <<"k", "k", "j", "=">>, <<"k", "k", "=", "=", "v">>,
   <<"=", "v">>, <<"j">>, <<"PWD", "=", "v", "v", "v", "v", "v", "v", "v">>}

MCCommands ==
  {<<<<"cd">>>>, <<<<"export">>>>, <<<<"cd", "x">>, <<"a">>>>,
   <<<<"pwd">>, <<"a">>, <<"a">>, <<"a">>>>}
  \cup {<<<<"cd">>, p>> : p \in MCPaths}
  \cup {<<<<"export">>, w>> : w \in MCExports}

MCLines ==
  {<<" ">>, <<" ", "cd", " ", " ", "a", " ", "b", " ", "a">>,
   <<"cd", " ", "a", Quote, "b", " ", Quote>>, <<"cd", Quote, "a", Quote>>,
   <<"a", Quote, "cd", Quote, " ", "a">>, <<Quote, "export", Quote, "k">>}
  \cup {<<"cd", " ">> \o s : s \in BoundedSeq({"a", Space, Quote}, 3)}

=============================================================================
