---------------------------- MODULE MCJsonImport ----------------------------
(* Small instances of JsonImport: a few exports with everything that may go *)
(* wrong, every export of three messages and every balanced text of five    *)
(* tokens with nothing going wrong.                                         *)
EXTENDS JsonImport

Post(id, kind, family, album, time) ==
  [id |-> id, kind |-> kind, family |-> family, album |-> album, reply |-> 0, time |-> time]

Photo(id, album) == Post(id, "media", "visual", album, 1)
Note(id)         == Post(id, "text", "none", 0, 1)

Char    == [is |-> "char", name |-> "", length |-> 1, closer |-> 1]
\* The closing tag of i is longer than the tag that opens it.
CloserOf == [b |-> 1, i |-> 2]
Open(n)  == [is |-> "open", name |-> n, length |-> 1, closer |-> CloserOf[n]]
Shut(n)  == [is |-> "close", name |-> n, length |-> CloserOf[n], closer |-> CloserOf[n]]

ShortText == <<Char>>
LongText  == <<Open("b")>> \o [i \in 1..6 |-> Char] \o <<Shut("b")>>

Scene(messages, fate, gone, text, sender, fallback, limits) ==
  [messages |-> messages, fate |-> fate, missing |-> gone, text |-> text,
   sender |-> sender, fallback |-> fallback,
   limits |-> [jobs |-> limits[1], forced |-> limits[2], trouble |-> limits[3],
               stops |-> limits[4], crashes |-> limits[5], repairs |-> limits[6]]]

All(messages) == [m \in DOMAIN messages |-> "wanted"]

Album  == <<Photo(1, 1), Photo(2, 1)>>
Mixed  == <<Photo(1, 1), Photo(2, 1), Post(3, "service", "none", 0, 1), Note(4)>>
Apart  == <<Photo(1, 0), Note(2)>>

FaultScenes ==
  {Scene(Album, All(Album), {}, ShortText, "bot", TRUE, <<3, 1, 2, 1, 1, 0>>),
   Scene(Album, All(Album), {}, ShortText, "bot", FALSE, <<2, 1, 3, 1, 0, 0>>),
   Scene(Album, All(Album), {1}, ShortText, "user", TRUE, <<3, 0, 2, 1, 1, 1>>),
   Scene(Apart, All(Apart), {}, LongText, "bot", FALSE, <<2, 1, 3, 1, 0, 0>>),
   Scene(Apart, All(Apart), {1}, LongText, "bot", TRUE, <<2, 0, 2, 1, 1, 1>>),
   Scene(Mixed, <<"wanted", "off", "wanted", "wanted">>, {}, ShortText, "user", TRUE, <<2, 1, 2, 0, 1, 0>>),
   Scene(Mixed, <<"wanted", "blocked", "wanted", "off">>, {1}, ShortText, "user", TRUE, <<2, 1, 1, 1, 1, 1>>)}

\* The ids may skip one, the family may be missing, there may be an explicit
\* album, and the last message may come late, at an unknown time, or answer an earlier one.
Steps == [gap : {1, 2}, family : {"visual", "none"}, album : {0, 1}]

GroupScenes ==
  {LET messages == [m \in 1..3 |->
         [Post(m + (IF m > 1 THEN s[1].gap - 1 ELSE 0) + (IF m > 2 THEN s[2].gap - 1 ELSE 0),
               "media", s[m].family, s[m].album, IF m = 3 THEN late ELSE 1)
          EXCEPT !.reply = IF m = 3 THEN reply ELSE 0]]
   IN Scene(messages, All(messages), {}, ShortText, "user", TRUE, <<1, 0, 0, 0, 0, 0>>) :
   s \in {t \in [1..3 -> Steps] : t[3].gap = 1}, late \in {0, 1, 4}, reply \in {0, 1, 9}}

\* Balanced texts whose tags leave room for what they stand around.
Texts5 == {t \in [1..5 -> {Char, Open("b"), Open("i"), Shut("b"), Shut("i")}] :
             /\ Read(t).open = <<>>
             /\ Fits(<<Char, Char>> \o t)}

TextScenes ==
  {Scene(<<Note(1)>>, <<"wanted">>, {}, <<Char, Char>> \o t, "user", TRUE, <<1, 0, 0, 0, 0, 0>>) : t \in Texts5}

AllScenes == FaultScenes \union GroupScenes \union TextScenes

\* An album whose first file is missing at first.
RepairScene == {Scene(Album, All(Album), {1}, ShortText, "user", TRUE, <<2, 0, 0, 0, 0, 1>>)}
=============================================================================
