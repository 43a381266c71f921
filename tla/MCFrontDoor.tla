----------------------------- MODULE MCFrontDoor -----------------------------
(* Texts put together of two parts, apart or joined, each of which one of  *)
(* the patterns matches or comes close to, and combinations of the         *)
(* router's signals.                                                       *)
EXTENDS FrontDoor

CONSTANTS admin, guest, secret, wrong

MCVerifies == [u \in Users |-> IF u = admin THEN {secret} ELSE {}]

Number(n) == [i \in 1..n |-> IF i = 2 THEN "1" ELSE "5"]

Dashed(a, sep, b, end) == Number(a) \o <<sep>> \o Number(b) \o <<sep>> \o end

Ssn1    == Dashed(3, "-", 2, <<"9", "1", "5", "1">>)
Call    == Dashed(3, "-", 3, Number(4))
Host    == <<"1", "5", ".", "5", ".", "5", ".", "1">>
Birth   == <<"5", "/", "5", "/", "1", "9", "9", "1">>
Mail    == <<"abc", "@", "abc", ".", "abc">>
AtHome  == <<"@", "abc", ".", "abc">>
Harming == <<"self", "-", "harm">>
Hidden  == <<"jail", "tag", "break">>
Blank   == <<"sp">>
DAN     == <<"DAN">>

Parts == {<<>>, Number(1), Number(10), Number(16), Number(20), Ssn1, Call, Host,
          Birth, Mail, AtHome, Hidden, DAN, Harming,
          <<"suicide", "sp", "sp", "method">>}

Plain == [chars |-> 60, keywords |-> 1, stops |-> 1]

MCTexts ==
    [pieces : (Parts ** {<<>>, Blank, Number(1)} ** Parts) \cup {Number(30)},
     rest   : {Plain}]

\* For tokens and the router: a few texts, at the edges of what it counts.
MCRouted ==
    [pieces : {<<"jail", "tag", "break">>, <<"sp", "tag">>, Number(16)},
     rest : {Plain}]
    \cup [pieces : {Number(10), <<"debug">> \o Number(10), Mail \o <<".", "sp">>},
          rest : [chars : {0, 66, 67, 68, 72, 73, 486, 487, 488, 492, 493},
                  keywords : 0..2, stops : 0..3]]

MCInputs == MCTexts \cup MCRouted

\* The engine repeats what it was asked.
MCRaws == [input \in Inputs |-> {input.pieces}]
=============================================================================
