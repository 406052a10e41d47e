--------------------------- MODULE MCFeed ---------------------------
(***************************************************************************)
(* The data TLC gives Feed, and its values according to Decode.            *)
(***************************************************************************)
EXTENDS Feed, MCParseMulti

Starts == {<<>>, <<205, 1, 2>>, <<129, 1, 161, 97>>}
Endings == {<<>>, <<193>>, <<220, 0>>, <<1, 192>>}
MCWholes == {a \o b \o c : a \in Starts, b \in Encodings, c \in Endings}
MCSlices == UNION {{SubSeq(w, i, j) : i \in 1..(Len(w) + 1), j \in 0..Len(w)} : w \in MCWholes}
MCFeedErrs == {""}
=====================================================================
