---------------------------- MODULE MCTextBuffer ----------------------------
EXTENDS TextBuffer

(* Every stream of four bytes that begins and ends with one of the two bytes *)
(* of "e acute", with these and "a" between them; some that begin with "a";  *)
(* and some with longer characters, cut short, or with bytes of no text.     *)
MCContents == {s \in [1..4 -> {97, 195, 169}] : s[1] # 97 /\ s[4] # 97}
                \cup {<<97, 195, 169, 97>>, <<97, 97, 195, 169>>,
                      <<195, 169, 97, 97>>,
                      <<228, 184, 150, 97>>, <<97, 228, 184, 150>>, <<240, 159, 152, 128>>,
                      <<228, 184, 97, 97>>, <<97, 255, 97, 97>>, <<98, 98, 169, 98>>}

MCNeedles == {<<>>, <<97, 97>>, <<233, 97>>}
=============================================================================
