---------------------------- MODULE MCStringStore ----------------------------
(* A three-valued long long, one word, and the option forms SET knows.     *)
EXTENDS StringStore

MCMin == -1
MCMax == 2
MCSetOptions ==
  {NoOption} \cup [flag : {"PX"}, num : {0, 1, 2}]
             \cup [flag : {"EX"}, num : {1}]
             \cup [flag : {"other"}, num : {1}]
=============================================================================
