------------------------------ MODULE JsonForm ------------------------------
(***************************************************************************)
(* The pure parts of the JSON import: which messages of an export form an   *)
(* album (json_import/grouping.py), and how a long text is cut into parts   *)
(* (json_import/process.py). Both are written as the code runs, one message *)
(* or token after the other, beside the declarative statements they must    *)
(* satisfy.                                                                 *)
(***************************************************************************)
EXTENDS Integers, Sequences, SequencesExt, FiniteSets

CONSTANTS
  MaxItems,  \* JSON_MEDIA_GROUP_MAX_ITEMS, 10 in the code
  Window,    \* media_group_window_seconds
  Limit      \* JSON_TEXT_MESSAGE_LIMIT, 4096 in the code

ASSUME FormAssumption == {MaxItems, Window, Limit} \subseteq Nat \ {0}

Kinds == {"media", "text", "service"}

\* A message of an export. family is what it may share an album with, album its
\* explicit media_group_id and reply the message it answers (0: none).
ExportMessage == [id : Nat, kind : Kinds, family : {"visual", "document", "none"},
                  album : Nat, reply : Nat, time : Nat]
-----------------------------------------------------------------------------
(* group_json_messages                                                      *)

\* _json_can_group_media
Groupable(m) == m.kind = "media" /\ m.family # "none"

\* _json_reply_keeps_group. A group is the places its messages have in ms.
ReplyKeeps(ms, group, reply) ==
  \/ reply = 0
  \/ \E i \in DOMAIN group : ms[group[i]].id = reply
  \/ {ms[group[i]].reply : i \in DOMAIN group} \ {0} = {reply}

\* Mutant: the window is not looked at.
JoinsAnyTime(ms, group, n) ==
  /\ group # <<>> /\ Groupable(ms[n])
  /\ ms[group[1]].family = ms[n].family
  /\ ms[n].id = ms[Last(group)].id + 1
  /\ ReplyKeeps(ms, group, ms[n].reply)

\* b comes no later than the window allows after a, as far as the times are known.
InTime(a, b) == a.time = 0 \/ b.time = 0 \/ b.time - a.time <= Window

\* _json_should_append_to_heuristic_group
Joins(ms, group, n) ==
  /\ group # <<>> /\ Groupable(ms[n])
  /\ ms[group[1]].family = ms[n].family
  /\ ms[n].id = ms[Last(group)].id + 1
  /\ ReplyKeeps(ms, group, ms[n].reply)
  /\ InTime(ms[Last(group)], ms[n])

\* append_group_chunk: a run is cut every MaxItems messages.
Chunks(run) ==
  [k \in 1 .. (Len(run) + MaxItems - 1) \div MaxItems |->
     SubSeq(run, (k - 1) * MaxItems + 1, IF k * MaxItems < Len(run) THEN k * MaxItems ELSE Len(run))]

\* flush_heuristic_group
Flushed(s) == s.done \o Chunks(s.run)

\* A message with an explicit album id goes to the last group, or begins one.
AddExplicit(ms, s, n) ==
  LET done == Flushed(s)
      l == Len(done)
  IN [done |-> IF l > 0 /\ ms[done[l][1]].album = ms[n].album /\ Len(done[l]) < MaxItems
                 THEN [done EXCEPT ![l] = Append(@, n)]
                 ELSE Append(done, <<n>>),
      run  |-> <<>>]

AddMessage(ms, s, n) ==
  IF ms[n].album # 0 THEN AddExplicit(ms, s, n)
  ELSE IF Joins(ms, s.run, n) THEN [done |-> s.done, run |-> Append(s.run, n)]
  ELSE IF Groupable(ms[n]) THEN [done |-> Flushed(s), run |-> <<n>>]
  ELSE [done |-> Append(Flushed(s), <<n>>), run |-> <<>>]

\* State[n]: what the first n messages come to.
GroupMessages(ms) ==
  LET State[n \in 0..Len(ms)] ==
        IF n = 0 THEN [done |-> <<>>, run |-> <<>>] ELSE AddMessage(ms, State[n - 1], n)
  IN Flushed(State[Len(ms)])

Members(groups) == UNION {ToSet(groups[g]) : g \in DOMAIN groups}

\* The groups follow each other, and so do the members of each.
InOrder(groups) ==
  \A g, h \in DOMAIN groups : \A i \in DOMAIN groups[g], j \in DOMAIN groups[h] :
    g < h \/ (g = h /\ i < j) => groups[g][i] < groups[h][j]

\* The export is cut into groups in order; a group is no longer than MaxItems;
\* its members have one explicit id, or none and follow each other closely; and
\* an explicit album is cut only where a group is full.
WellGrouped(ms, groups) ==
  /\ InOrder(groups) /\ Members(groups) = DOMAIN ms
  /\ \A g \in DOMAIN groups : LET G == groups[g]
                                  M(i) == ms[G[i]] IN
       /\ Len(G) \in 1..MaxItems
       /\ \A i \in 2..Len(G) :
            /\ M(i).album = M(1).album
            /\ M(i).album = 0 =>
                 /\ Groupable(M(i)) /\ M(i).family = M(1).family
                 /\ M(i).id = M(i - 1).id + 1
                 /\ InTime(M(i - 1), M(i))
       /\ g > 1 /\ M(1).album # 0 /\ ms[groups[g - 1][1]].album = M(1).album
            => Len(groups[g - 1]) = MaxItems
-----------------------------------------------------------------------------
(* _split_json_text_for_send. A text is a sequence of tokens: a character of *)
(* the rendered text, or an opening or a closing tag. An escaped character   *)
(* (&amp;) is several characters here, as it is to the code; a tag that      *)
(* closes itself is one.                                                     *)

\* closer is the length of the tag that closes a tag.
Token == [is : {"char", "open", "close"}, name : STRING, length : Nat \ {0}, closer : Nat \ {0}]

Length(tokens) ==
  LET Sum[n \in 0..Len(tokens)] == IF n = 0 THEN 0 ELSE Sum[n - 1] + tokens[n].length
  IN Sum[Len(tokens)]

\* The tag that closes t.
Closing(t) == [is |-> "close", name |-> t.name, length |-> t.closer, closer |-> t.closer]

\* _close_tags; the tags that are opened again are the opening tokens themselves.
Closers(open) == [i \in DOMAIN open |-> Closing(open[Len(open) + 1 - i])]

\* _track_html_tag: a closing tag closes what was opened after its match too.
Tracked(open, t) ==
  IF t.is = "char" THEN open
  ELSE IF t.is = "open" THEN Append(open, t)
  ELSE LET matches == {i \in DOMAIN open : open[i].name = t.name}
       IN IF matches = {} THEN open
          ELSE SubSeq(open, 1, (CHOOSE i \in matches : \A j \in matches : j <= i) - 1)

\* flush_current
Cut(s) ==
  IF s.current = <<>> THEN s
  ELSE [parts |-> Append(s.parts, s.current \o Closers(s.open)), current |-> s.open, open |-> s.open]

\* current += token
Extended(s, t) ==
  [parts |-> s.parts, current |-> Append(s.current, t), open |-> Tracked(s.open, t)]

\* Mutant: the room for closing tags is forgotten.
AddTokenUnclosed(s, t) ==
  Extended(IF Length(s.current) + t.length > Limit THEN Cut(s) ELSE s, t)

\* A token that does not fit beside the closing tags begins a new part.
AddToken(s, t) ==
  Extended(IF Length(s.current) + t.length + Length(Closers(s.open)) > Limit THEN Cut(s) ELSE s, t)

\* State[n]: what the first n tokens come to.
SplitText(tokens) ==
  IF Length(tokens) <= Limit THEN (IF tokens = <<>> THEN <<>> ELSE <<tokens>>)
  ELSE LET State[n \in 0..Len(tokens)] ==
             IF n = 0 THEN [parts |-> <<>>, current |-> <<>>, open |-> <<>>]
             ELSE AddToken(State[n - 1], tokens[n])
       IN Cut(State[Len(tokens)]).parts

\* A reader of a text knows the tags that are open, and has seen the characters
\* with the tags each stands in, and the closing tags that are out of place:
\* those that do not close the last tag opened.
ReadToken(r, t) ==
  LET silent == \/ t.is = "open"
                \/ t.is = "close" /\ r.open # <<>> /\ Last(r.open).name = t.name
  IN [open |-> Tracked(r.open, t),
      seen |-> IF silent THEN r.seen ELSE Append(r.seen, <<t, r.open>>)]

Read(tokens) ==
  LET State[n \in 0..Len(tokens)] ==
        IF n = 0 THEN [open |-> <<>>, seen |-> <<>>] ELSE ReadToken(State[n - 1], tokens[n])
  IN State[Len(tokens)]

\* Beside the tags around it, opened again and closed, every token has room in a
\* part. (Where it has not, the code does not come to an end with a character.)
Fits(tokens) ==
  \A n \in DOMAIN tokens :
    LET open == Read(SubSeq(tokens, 1, n - 1)).open
    IN Length(open) + tokens[n].length + Length(Closers(open)) <= Limit

\* A part within the limit, or over it by no more than the closing tag of a tag
\* that was opened at its end.
WithinLimit(part) ==
  \/ Length(part) <= Limit
  \/ \E i \in DOMAIN part : /\ part[i].is = "open"
                           /\ \A j \in (i + 1)..Len(part) : part[j].is = "close"
                           /\ Length(part) <= Limit + part[i].closer

\* The parts show what the text shows, every character in its place and within
\* the same tags; no tag is open at the end of a part, unless the text itself
\* left it open and is one part; and the parts are within the limit.
WellSplit(tokens, parts) ==
  /\ FlattenSeq([p \in DOMAIN parts |-> Read(parts[p]).seen]) = Read(tokens).seen
  /\ Length(tokens) > Limit \/ Read(tokens).open = <<>>
       => \A p \in DOMAIN parts : Read(parts[p]).open = <<>>
  /\ Fits(tokens) => \A p \in DOMAIN parts : WithinLimit(parts[p])
=============================================================================
