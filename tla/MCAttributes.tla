---------------------------- MODULE MCAttributes ----------------------------
(* Attributes with a day of two minutes of two seconds, a word of 32 values  *)
(* and ids of two bits.                                                      *)
EXTENDS Attributes, TLC

File == [type |-> "NFREG", mode |-> {<<"u", "r">>, <<"u", "w">>}, uid |-> 1, gid |-> 2,
         mtime |-> [seconds |-> 5, useconds |-> 2]]

\* A named pipe with other rights; an owner and a date AmigaDOS cannot express.
Changed == {[File EXCEPT !.type = "NFFIFO", !.mode = {<<"o", "r">>}, !.uid = 4, !.mtime.seconds = 20]}

\* One mask tells the right to delete from the right to write.
MCMasks == {{<<"u", "w">>, <<"u", "d">>, <<"g", "r">>, <<"o", "e">>}, {<<"u", "d">>}}

\* The last date before half the word, and one behind it.
MCDates == {[days |-> 3, minute |-> 1, tick |-> 3], [days |-> 4, minute |-> 0, tick |-> 1]}

MCOwners == {<<2, 1>>, <<0, 3>>}

Symmetry == Permutations(Ids) \cup Permutations(Names)
=============================================================================
