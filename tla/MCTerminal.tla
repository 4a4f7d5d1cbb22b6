---------------------------- MODULE MCTerminal ------------------------------
(***************************************************************************)
(* Small instance of the window: 3 rows of 2 columns, lines of at most two *)
(* characters behind a prompt of one, two history rows, and an editor      *)
(* whose texts wrap and run into the status line.  The command outputs end *)
(* in every state of the escape parser.                                    *)
(***************************************************************************)
EXTENDS Terminal

MCPrompt == <<">">>
MCBanner == <<"v", "\n">>
MCStatus == <<"E">>
MCDigits == {"3"}
MCCommands == << <<"a", "b">> >>
MCFiles == { <<"a", "c">>, <<"b", "b">> }
MCChars == {"a", "b", "\n"}
MCTexts == { <<>>, <<"a", "a", "a">> }

MCOutputs ==
  { <<>>,
    <<"x", "x", "x", "\n">>,
    <<ESC>>,
    <<ESC, "[", "3">>,
    <<ESC, "[", "3", ";", "m", "x">> }

=============================================================================
