------------------------------ MODULE MCQrCode ------------------------------
(* Small codes, the code of the page and one with blocks of two sizes and  *)
(* with a type number, each with texts up to and past what it holds.       *)
EXTENDS QrReader

Chars(n) == [i \in 1 .. n |-> 40 + ((7 * i * i) % 83)]

MCCodes == {<<1, "L">>, <<2, "H">>, <<4, "M">>, <<5, "Q">>, <<7, "M">>}
MCTexts == {Chars(0), Chars(1), Chars(17), Chars(18), Chars(62), Chars(63),
            <<98, 105, 116, 8383, 255, 0>>}
=============================================================================
