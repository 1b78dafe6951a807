------------------------------- MODULE MCText -------------------------------
(* Text for TLC: the inputs tried, group by group. *)
EXTENDS Text, TLC

Texts(chars, max) == UNION {[1 .. n -> chars] : n \in 0 .. max}
AnInt == {-128, -12, -1, 0, 7, 12, 127}
AnError == {-127, -22, -21, -17, -9, -7, -4, -1} \cup 0 .. 10 \cup {16, 17, 21, 22, 127}

MCInputs ==
  [str |-> [p : [1 .. 3 -> 0 .. 2], q : [1 .. 3 -> 0 .. 2], n : 0 .. 4, c : 1 .. 2],
   move |-> {i \in [d : 0 .. 8, s : 0 .. 8, n : 0 .. 9] : i.d + i.n <= 16 /\ i.s + i.n <= 16},
   set |-> [v : 0 .. 8, n : 0 .. 9, c : {-1, 0, 1, 255, 300}],
   num |-> {i \in [blanks : {<<>>, <<" ", "TAB">>}, sign : {<<>>, <<"+">>, <<"-">>},
                   prefix : {<<>>, <<"0">>, <<"0", "x">>},
                   digits : {<<"7">>, <<"1", "0">>, <<"9", "9">>, <<"f", "0", "a">>, <<"F">>},
                   base : {8, 10, 16}, auto : BOOLEAN, tail : {<<>>, <<"z", "1">>, <<" ", "1">>}] :
             /\ \A k \in DOMAIN i.digits : DigitValue(i.digits[k]) < i.base
             /\ i.prefix = <<"0", "x">> => i.base = 16},
   fmt |-> UNION {[pad : {" ", "-", "0"}, alt : BOOLEAN, width : {-1} \cup 1 .. 4, star : BOOLEAN,
                   prec : {-1, 1, 3}, conv : cs.c, arg : cs.a] :
                  cs \in {[c |-> {"d", "u", "o", "x", "z", "%"}, a |-> AnInt],
                          [c |-> {"e"}, a |-> AnError],
                          [c |-> {"s"}, a |-> Texts({"b", "BEL"}, 3)]}},
   put |-> [text : Texts({"b"}, 12), n : 0 .. 14],
   screen |-> [text : Texts({"b", "BS", "NL", "CR", "TAB"}, 5), pos : 0 .. 8],
   line |-> [keys : Texts({"b", "BS", "DEL", "NL", "TAB"}, 6), pos : {1, 7}],
   cmd |-> Texts({"b", " ", "TAB"}, 7)]
=============================================================================
