--------------------------- MODULE MCRealtimePost ---------------------------
(* Small instances of RealtimePost: albums of two and three posts, an album *)
(* with a single post beside it, posts that are blocked or switched off,    *)
(* an album whose captions are rewritten, a target that gets media by       *)
(* upload, and updates that are sent again after a restart.                 *)
EXTENDS RealtimePost

ThreeTargets == <<"channel", "media", "saved">>
Usual == {"channel", "saved"}

Scene(kinds, fates, messages, enabled, r, limits) ==
  [posts |-> [p \in 1..3 |-> [kind |-> kinds[p], fate |-> fates[p], message |-> messages[p]]],
   enabled |-> enabled, rewritten |-> r,
   limits |-> [trouble |-> limits[1], switches |-> limits[2], changes |-> limits[3], restarts |-> limits[4]]]

Album3 == <<"album", "album", "album">>
Beside == <<"album", "album", "single">>
All    == <<"wanted", "wanted", "wanted">>
Two    == <<"wanted", "wanted", "off">>
Alone  == <<"wanted", "off", "wanted">>
Own    == <<1, 2, 3>>

AllScenes ==
  {Scene(Album3, All, Own, Usual, FALSE, <<0, 1, 0, 0>>),
   Scene(Album3, Two, Own, Usual, FALSE, <<2, 0, 0, 0>>),
   Scene(Album3, Two, Own, {"media"}, FALSE, <<2, 0, 0, 0>>),
   Scene(Beside, All, Own, Usual, FALSE, <<0, 1, 0, 0>>),
   Scene(Beside, Two, Own, Usual, TRUE, <<2, 0, 0, 0>>),
   Scene(Beside, Alone, Own, Usual, FALSE, <<1, 1, 1, 0>>),
   Scene(Beside, Alone, Own, {"media"}, FALSE, <<2, 0, 0, 0>>),
   Scene(Album3, <<"wanted", "wanted", "blocked">>, Own, Usual, FALSE, <<0, 0, 1, 0>>),
   Scene(Album3, All, <<1, 1, 3>>, {"channel"}, FALSE, <<0, 0, 0, 1>>),
   Scene(<<"single", "single", "album">>, Two, <<1, 1, 3>>, Usual, FALSE, <<0, 0, 0, 1>>)}

\* One album and one thing that goes wrong, for the run about failed writes.
OneAlbum == {Scene(Album3, Two, Own, Usual, FALSE, <<1, 0, 0, 0>>)}
=============================================================================
