---------------------------- MODULE MCChatStream ----------------------------
(* A small instance of ChatStream: an answer without tokens, and one of     *)
(* three tokens of which the second contains an empty line.                 *)
EXTENDS ChatStream

MCAnswers == {<<>>, <<"word", "paragraph", "word">>}

=============================================================================
