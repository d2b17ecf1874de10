----------------------------- MODULE MC_Startup -----------------------------
(* Small texts of each kind the program reads at its start.                 *)
EXTENDS Startup

\* fish.conf: lines shorter and longer than a piece, comments, with the keys
\* that are asked for and without, twice, and more of them than there is room
Host == <<"host">>
Asks == {Host, <<"memory_size">>}
HostLine == Host \o <<"=", "h">>
ConfLines ==
  {<<>>, HostLine, <<"#", "host", "=", "x">>, <<"host", " ", "=", " ", "x", ";", "y">>,
   <<"memory_size", "=", "3", "K">>, <<"memory_size", "=", "2", "M">>,
   <<"memory_size", "=", "3", "3", "M">>, <<"memory_size", "=", "1", "1", "1", "host", "=">>,
   <<"max_room", "=", "2">>, <<";", "x", "x", "x", "x", "x", "x", "max_room", "=", "1">>}

\* user_level: lines with and without a colon, with a second one, with
\* characters that do not belong there, and empty
Lines == {<<>>, <<"1", ":", "2">>, <<"1", "0", ":", "other">>, <<"other", "3">>,
          <<"3", ":", "1", ":", "1">>}

Joined(lines) == FoldLeft(LAMBDA t, l : t \o <<"\n">> \o l, Head(lines), Tail(lines))
Texts(kinds, n) == {Joined(lines) : lines \in UNION {[1 .. k -> kinds] : k \in 1 .. n}}

ConfFiles == Texts(ConfLines, 3)
LevelRows == Texts(Lines, 3)

TrialDelimiters == {<<"|">>, <<"|", "|">>, <<"1", "|">>}
TrialTexts == UNION {[1 .. n -> {"1", "|"}] : n \in 0 .. 7}

Numbers == {<<"2", "3">>}

\* What can be pushed: values of both kinds, objects of one and two values, in
\* one another, and lists, empty and not
Leaf(key, kind, chars) == [key |-> key, kind |-> kind, text |-> chars, child |-> <<>>]
Object(key, nodes) == [key |-> key, kind |-> "node", text |-> None, child |-> nodes]
List(nodes) == [key |-> None, kind |-> "list", text |-> None, child |-> nodes]

Leaves == {Leaf(<<"x">>, "string", <<"y">>), Leaf(<<"x", "y">>, "number", <<"-", "2", ".", "3">>),
           Leaf(<<"x">>, "string", <<"y", "\"">>), Leaf(<<"x">>, "string", None)}
Inners == {<<l>> : l \in Leaves} \cup {<<l, m>> : l, m \in Leaves}
Objects == {Object(<<"o">>, inner) : inner \in Inners \cup {<<List(i)>> : i \in {<<>>} \cup Inners}}
Nested == {Object(<<"n">>, <<o>>) : o \in Objects} \cup
          {Object(<<"n">>, <<o, l>>) : o \in Objects, l \in Leaves} \cup
          {Object(<<"n">>, <<l, Object(<<"o">>, inner)>>) : inner \in Inners, l \in Leaves}
Pushes == {<<n>> : n \in Leaves \cup Objects \cup Nested}
            \cup {<<l, o>> : l \in Leaves, o \in Objects \cup Nested}
            \cup {<<o, l>> : l \in Leaves, o \in Objects}

\* Tasks with and without a time, with and without conditions, and with one
\* and two ids too many
KillsOf(n, no) == [param |-> n, param2 |-> no, type |-> 2]
TaskRow == [from : {0, 2}, till : {0, 1, 2}, articles : {1, 2, 3},
            conditions : {<<>>, <<KillsOf(1, 0)>>, <<KillsOf(1, 0), KillsOf(2, 1)>>}]
Tables == {{r} : r \in TaskRow} \cup
          {{r, q} : r \in TaskRow, q \in {x \in TaskRow : x.articles = 1}}
Kills == {KillsOf(1, 0)}
\* and Users: one who has shown nothing, and one who has shown all
Shows == {[total |-> 0, killed |-> <<>>, done |-> <<>>],
          [total |-> 2, killed |-> <<[no |-> 1, value |-> 2]>>, done |-> <<>>]}

\* Headers with keys around the length at which the padding needs another
\* block (20 and 28), at which sec is full (50) and the usual one (24), with
\* spaces, without a key, and cut off; and the answers RFC 6455 asks for
Request(fields) == "GET / HTTP/1.1\r\nUpgrade: websocket\r\n" \o fields \o "\r\n\r\n"
WithKey(key, accept) ==
  [header |-> Request("Sec-WebSocket-Key: " \o key), accept |-> accept]
Clients ==
  {WithKey("dGhlIHNhbXBsZSBub25jZQ==", "s3pPLMBiTxaQ9kYGzzhZRbK+xOo="),
   WithKey("abcdefghijklmnopqrs", "e5nfl7ayxOkM7i0NSGMv++0gU/w="),
   WithKey("abcdefghijklmnopqrst", "AsD5pA85sKFU9jjywWADP+ER30s="),
   WithKey("abcdefghijklmnopqrstuvwxyz/", "bOSeCYR6vZRZQcVUTi73pxGVT0k="),
   WithKey("abcdefghijklmnopqrstuvwxyz/A", "LtFPudRCfexyV1c00DhBy37YBh8="),
   WithKey("abcdefghijklmnopqrstuvwxyz/ABCDEFGHIJKLMNOPQRSTUV", "yg1YrjXIUOzSkNxkd5hWr3Siwbk="),
   WithKey("abcdefghijklmnopqrstuvwxyz/ABCDEFGHIJKLMNOPQRSTUVW", "lCSeN5m95E5R9yItPHTT5Xy8Pgc="),
   WithKey(" dGhlIHNhbXBs ZSBub25jZQ==  ", "s3pPLMBiTxaQ9kYGzzhZRbK+xOo="),
   [header |-> Request("sec-websocket-key: dGhlIHNhbXBsZSBub25jZQ=="),
    accept |-> "s3pPLMBiTxaQ9kYGzzhZRbK+xOo="],
   [header |-> "Sec-WebSocket-Key: dGhlIHNhbXBs", accept |-> ""]}
=============================================================================
