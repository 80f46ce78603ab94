----------------------------- MODULE MCFraming ------------------------------
(* Instances of Framing for TLC.                                            *)
EXTENDS Framing

MCAnnounced == [a0 |-> 0, a1 |-> 1, a2 |-> 2, a3 |-> 3]

MCTexts == {<<>>, <<"x">>, <<"w">>, <<"x", "n">>}

(* Nothing; a frame cut in its header or its body; the header just within  *)
(* and just past its limit; a character cut by that limit; each way a      *)
(* header can be wrong, two at once; a payload that is too large or no text.*)
MCTails ==
  {<<>>, <<"a1">>, <<"a1", "n">>, <<"a1", "n", "n">>, <<"a2", "n", "n", "x">>,
   <<"x", "n", "a1", "n", "n", "x">>, <<"x", "x", "n", "a1", "n", "n", "x">>,
   <<"x", "x", "n", "a0", "n">>, <<"x", "x", "x", "x", "x", "n">>,
   <<"x", "x", "x", "x", "w1", "w2", "n">>,
   <<"n", "x">>, <<"w1", "n", "n">>, <<"w1">>, <<"bad", "n", "n">>, <<"a1", "x", "n">>,
   <<"a1", "n", "a1", "n">>, <<"a1", "n", "bad", "n">>, <<"x", "a1", "n", "n">>,
   <<"a3", "n", "n", "x", "x", "x">>, <<"a1", "n", "n", "w1">>, <<"a0", "n", "n", "x">>}

=============================================================================
