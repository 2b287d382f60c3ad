---------------------------- MODULE MCLifecycle -----------------------------
(* A small instance of Lifecycle.                                          *)
EXTENDS Lifecycle

\* Scripts with separators at the end, in the middle, twice in a row, cut
\* short by the end of the file, and with newlines and semicolons that are
\* no separators; and every script of up to three characters.
FeedsSmall ==
  UNION {[1..n -> Characters] : n \in 0..3} \cup
  {<<"x", ";", "nl", "nl", "x", ";", "nl", "nl">>,
   <<";", "nl", "nl", ";", "nl", "nl", "x">>,
   <<"x", "nl", ";", "nl", "x", ";", "nl", "nl", "nl">>,
   <<";", "nl", ";", "nl", "nl", "nl", "x", ";", "nl">>,
   <<"x", ";", "nl", "nl", "REVOKE", ";", "nl", "nl", "x">>,
   <<"REVOKE", ";", "nl", "nl", "x", "REVOKE", ";", "nl", "nl", "x">>}
=============================================================================
