---------------------------- MODULE MCConversation ----------------------------
(* A request of one word fits the buffer twice, one of two words once, and *)
(* the last of the lines is longer than it.                                *)
EXTENDS Conversation

MCLines == {<<"P">>, <<" ", "G", " ", " ", "k">>, <<" ">>,
            <<"E", " ", "x", "x", "x", "x", "x", "x", "x", "x", "1">>}
MCAnswers == {<<"simple", <<"O", "K">>>>, <<"error", <<"E">>>>, <<"int", -1>>,
              <<"bulk", <<"-", "1">>>>, <<"nil">>}
=============================================================================
