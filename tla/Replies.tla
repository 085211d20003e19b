------------------------------- MODULE Replies -------------------------------
(***************************************************************************)
(* The answers of handlers, as the encoders of lib/resp-parser.cpp build   *)
(* them, but without their text.                                           *)
(***************************************************************************)

VARIABLE reply  \* what the last handler answered

Ok       == <<"ok">>
Nil      == <<"nil">>
Error    == <<"error">>
Bulk(v)  == <<"bulk", v>>
Count(n) == <<"int", n>>
=============================================================================
