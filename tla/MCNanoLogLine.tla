---------------------------- MODULE MCNanoLogLine ----------------------------
(***************************************************************************)
(* The constants of NanoLogLine for TLC: types 0 and 1, of one and of two  *)
(* bytes, and 2 for a string; 97 and 98 are no types.                      *)
(***************************************************************************)
EXTENDS NanoLogLine

MCSizes == [id \in 0 .. 1 |-> id + 1]

\* Strings with and without a '\0', and behind it: nothing, another one, a number that
\* ends in the string or past it, a string, and what is no type.
MCTexts ==
  {<<>>, <<97>>, <<97, 98, 97, 98>>, <<97, 0>>, <<0, 0, 97>>, <<97, 0, 1, 98, 97>>,
   <<98, 0, 1>>, <<98, 0, 2, 97>>, <<0, 97, 98>>}
=============================================================================
