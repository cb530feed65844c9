---------------------------- MODULE MCHistoryJob ----------------------------
(* Small instances of HistoryJob: ranges of five messages, read in batches  *)
(* of two, with albums on either side of a cut and across two cuts, and at  *)
(* most one message that is missing or of a type that is switched off.      *)
EXTENDS HistoryJob

Layouts == {<<1, 1, 1, 0, 2>>, <<0, 1, 1, 1, 1>>, <<0, 0, 1, 1, 0>>}

Flawed(layout, n, s) == [m \in 1..5 |-> [album |-> layout[m], state |-> IF m = n THEN s ELSE "on"]]

AlbumRanges == {Flawed(l, 0, "on") : l \in Layouts} \union
               {Flawed(<<1, 1, 1, 0, 2>>, 2, "gone"), Flawed(<<0, 1, 1, 1, 1>>, 4, "off"),
                Flawed(<<0, 0, 1, 1, 0>>, 3, "gone")}
=============================================================================
