---------------------------- MODULE MCStreamStore ----------------------------
(* Requests for XREAD: one key from an id or `$', and two keys at once.    *)
EXTENDS StreamStore

CONSTANTS s1, s2

MCXReads ==
  {<<[key |-> s1, from |-> Zero]>>, <<[key |-> s1, from |-> Dollar]>>,
   <<[key |-> s1, from |-> [ms |-> 0, seq |-> 1]], [key |-> s2, from |-> Dollar]>>,
   <<[key |-> s2, from |-> Zero], [key |-> s1, from |-> Zero]>>}
=============================================================================
