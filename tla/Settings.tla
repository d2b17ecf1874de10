------------------------------ MODULE Settings ------------------------------
(***************************************************************************)
(* The settings: read from the database (Setting::Setting), and changed by   *)
(* an administrator's 'set setting' messages, from the frame (fmsg) and the  *)
(* text in it (Json::parseString) to Entry::setSetting and setValue.        *)
(*                                                                         *)
(* user_vip_level is read and set like user_level, and the other timeouts    *)
(* like the one here.  setValue does not touch the timeouts in use, which     *)
(* Connections has.  Where the code reads past a text, or NULL, the model     *)
(* may stop.                                                               *)
(***************************************************************************)
EXTENDS Parsing

CONSTANTS
  Levels,   \* what the row of user_level may hold
  Lengths,  \* the lengths of the messages
  Number,   \* bound of the model: the texts of the other values
  FishRows  \* bound of the model: how many rows of fishs may be active

Absent == <<"absent">>  \* no entry in the list _system
FromRow == <<"row">>    \* the value of the row

\* recv has room for a frame of 1023 bytes, 8 of them before the text
ASSUME SettingsAssumption ==
  /\ Levels \subseteq Seq(STRING \ {NUL})
  /\ Lengths \subseteq 1 .. 1015
  /\ Number \subseteq Seq(Numeric) \ {None}
  /\ FishRows \subseteq Nat

\* what loadSystem reads, and what checkKey accepts: spelled differently
Key == {"user_level", "no_verify_account_timout", "no_verify_account_timeout"}
Accepted == {"user_level", "no_verify_account_timeout"}
Pair == [key : Key, value : Number \cup {None}]
Message == {<<p>> : p \in Pair} \cup {<<p, q>> : p, q \in Pair}

VARIABLES
  text,       \* the row of user_level
  system,     \* _system: the value of each key
  levels,     \* _level_list
  fishQty,    \* _fish_qty
  levelsSet,  \* history: user_level has been set since
  shortened,  \* history: the length of a message that did not arrive whole, or 0
  sentEmpty,  \* history: an administrator has sent an empty value
  fault       \* a text or a NULL has been read past

settingVars ==
  <<text, system, levels, fishQty, levelsSet, shortened, sentEmpty, fault>>

----------------------------------------------------------------------------
(* Slips a maintainer could make; each is swapped in to test a property.   *)

PassesOneFewer(lines) == IF Len(lines) < 2 THEN 0 ELSE Len(lines) - 2

----------------------------------------------------------------------------
(* formatLine, from place p of text t on: the lines "left:right".          *)
Line(left, right) == [left |-> Value(left), right |-> Value(right)]

(* The colon is looked for up to the end of the line, but an end that is 0 *)
(* means no end: after an empty line it is looked for in all that follows. *)
Colon(t, p) ==
  LET end == Place(t, "\n", p)
      colon == Place(t, ":", p)
  IN  IF end > p /\ colon > end THEN 0 ELSE colon

LinesFrom(t) ==
  LET from[p \in 1 .. Len(t) + 2] ==
        LET end == Place(t, "\n", p)
            colon == Colon(t, p)
            stop == IF end > colon THEN end ELSE Len(t) + 1
        IN  CASE p > Len(t) -> <<>>
              [] p <= Len(t) /\ colon # 0 ->
                   <<Line(SubSeq(t, p, colon - 1), SubSeq(t, colon + 1, stop - 1))>>
                     \o from[stop + 1]
              [] p <= Len(t) /\ colon = 0 /\ end # 0 -> from[end + 1]
              [] OTHER -> from[p + 1]
  IN  from

FormatLine(t) == LinesFrom(t)[1]

(* An empty line with a colon after it: formatLine takes that colon for the *)
(* line's, goes on to the end of the text, and past it.                     *)
StartsEmpty(t, p) == t[p] = "\n" /\ (p = 1 \/ t[p - 1] = "\n")
EmptyLine(t) ==
  \E p, q \in DOMAIN t : p < q /\ StartsEmpty(t, p) /\ t[q] = ":"

----------------------------------------------------------------------------
(* order: as many passes as there are lines, less one, each of which swaps *)
(* neighbours.                                                             *)
SwapAt(lines, i) ==
  IF i < Len(lines) /\ lines[i].left < lines[i + 1].left
  THEN [lines EXCEPT ![i] = lines[i + 1], ![i + 1] = lines[i]]
  ELSE lines

Passes(lines) == IF lines = <<>> THEN 0 ELSE Len(lines) - 1

Swaps(lines) ==
  LET upto[i \in 0 .. Len(lines)] == IF i = 0 THEN lines ELSE SwapAt(upto[i - 1], i)
  IN  upto
Pass(lines) == Swaps(lines)[Len(lines)]

Ordered(lines) ==
  LET upto[n \in 0 .. Passes(lines)] == IF n = 0 THEN lines ELSE Pass(upto[n - 1])
  IN  upto
Order(lines) == Ordered(lines)[Passes(lines)]

----------------------------------------------------------------------------
Unset ==
  /\ text = <<>>
  /\ system = [k \in Key |-> Absent]
  /\ levels = <<>>
  /\ fishQty = 0
  /\ levelsSet = FALSE
  /\ shortened = 0
  /\ sentEmpty = FALSE
  /\ fault = FALSE

(* The constructor: loadFish and loadSystem.  A query that fails gives no    *)
(* rows.  A key has an entry when it has a row.  formatLine then order on    *)
(* user_level; a text read past its end may have given any levels.          *)
LoadFish == fishQty' \in FishRows

LoadSystem ==
  \E rows \in SUBSET Key :
    /\ system' = [k \in Key |-> IF k \in rows THEN FromRow ELSE Absent]
    /\ text' \in IF "user_level" \in rows THEN Levels ELSE {<<>>}
    /\ levels' = Order(FormatLine(text'))
    /\ fault' = EmptyLine(text')

Construct ==
  /\ LoadFish
  /\ LoadSystem
  /\ UNCHANGED <<levelsSet, shortened, sentEmpty>>

----------------------------------------------------------------------------
(* The length a client writes into a frame: in seven bits, or as 126 and    *)
(* two bytes; and what fmsg makes of it, byte by byte, in signed chars: of   *)
(* the high byte only its sign remains.                                     *)
HighByte(n) == IF n \div 256 >= 128 THEN 65280 ELSE 0
LowByte(n) == n % 256
LengthRead(n) == IF n < 126 THEN n ELSE HighByte(n) + LowByte(n)

(* A length that comes out as 127 is then taken for the mark of the long    *)
(* form, and read once more from the bytes of the text.                     *)
ReadAgain(n) == n >= 126 /\ LengthRead(n) = 127

(* What a client may write: names in signs of either kind or without, the    *)
(* two parts of the message in either order, spaces anywhere but behind an   *)
(* object.  A value is in signs, or a number.                               *)
Style == [sign : {<<>>, <<"'">>, <<"\"">>}, dataFirst : BOOLEAN, space : {<<>>, <<" ">>}]

Written(style, pairs) ==
  LET spaced(t) == style.space \o t \o style.space
      name(k) == style.space \o style.sign \o <<k>> \o style.sign \o style.space
      quoted(v) == <<"'">> \o v \o <<"'">>
      value(v) == IF v = None \/ style.sign = <<"'">> THEN quoted(v) ELSE v
      data(p) == name(p.key) \o <<":">> \o spaced(value(p.value))
      more == IF Len(pairs) = 1 THEN <<>> ELSE <<",">> \o data(pairs[2])
      op == name("op") \o <<":">> \o spaced(quoted(<<"set setting">>))
      all == name("data") \o <<":">> \o style.space
               \o <<"{">> \o data(pairs[1]) \o more \o <<"}">>
  IN  <<"{">> \o (IF style.dataFirst THEN all \o <<",">> \o op ELSE op \o <<",">> \o all)
        \o <<"}">>

(* What setSetting gets of what a text has been taken apart into: the pairs   *)
(* of data, of a message with that op.                                      *)
DataOf(parsed) ==
  LET data == GetJsonValue(parsed.pairs, <<"data">>)
      isSet == ValueOf(parsed.pairs, <<"op">>) = <<"set setting">>
  IN  IF isSet /\ data # <<>> THEN data[1].child ELSE <<>>

Understood(parsed) ==
  LET pairs == DataOf(parsed)
  IN  [pairs |-> [i \in DOMAIN pairs |-> [key |-> pairs[i].key[1], value |-> pairs[i].value]],
       past |-> parsed.past \/ ~HeadSet(parsed.pairs)]
Read(t) == Understood(Parse(t))

(* A message of n bytes may be cut anywhere.  Of one whose length is read    *)
(* again a length out of the blue is unmasked with a wrong key: nothing that *)
(* setSetting would get.                                                   *)
Cut(t, n) ==
  IF ReadAgain(n) THEN {<<"other">>}
  ELSE IF LengthRead(n) < n THEN {SubSeq(t, 1, i) : i \in 0 .. Len(t) - 1}
  ELSE {t}

Arrivals ==
  UNION {{[length |-> n, sent |-> pairs, read |-> Read(t)] :
            t \in UNION {Cut(Written(style, pairs), n) : style \in Style}} :
           n \in Lengths, pairs \in Message}

(* setSetting calls setValue for one pair after the other.  A key without   *)
(* an entry gets one that is never linked to the list.  Whatever the value  *)
(* of user_level, formatLine is given the key, in which it finds no line.    *)
Stored(pairs) ==
  [k \in Key |->
     LET set == {i \in DOMAIN pairs : pairs[i].key = k}
     IN  IF k \in Accepted /\ system[k] # Absent /\ set # {}
         THEN pairs[Max(set)].value ELSE system[k]]

SetSetting(pairs) ==
  LET sets == \E i \in DOMAIN pairs : pairs[i].key = "user_level"
  IN  /\ system' = Stored(pairs)
      /\ levels' = IF sets THEN <<>> ELSE levels
      /\ levelsSet' = (levelsSet \/ sets)

(* strlen of a NULL value.                                                  *)
Strlen(pairs) ==
  \E i \in DOMAIN pairs : pairs[i].key \in Accepted /\ pairs[i].value = None

Receive(arrival) ==
  LET pairs == arrival.read.pairs
      stops == Strlen(pairs)
  IN  /\ ~fault
      /\ shortened' = IF pairs = arrival.sent THEN shortened ELSE arrival.length
      /\ fault' \in (IF arrival.read.past THEN {stops, TRUE} ELSE {stops})
      /\ IF fault' THEN UNCHANGED <<system, levels, levelsSet>>
         ELSE SetSetting(pairs)
      /\ sentEmpty' = (sentEmpty \/ \E i \in DOMAIN arrival.sent :
                                       arrival.sent[i].value = None)
      /\ UNCHANGED <<text, fishQty>>

(* fmsg may read past what has been received.                               *)
ReceivePast(n) ==
  /\ ~fault
  /\ ReadAgain(n)
  /\ fault' = TRUE
  /\ shortened' = n
  /\ UNCHANGED <<text, system, levels, fishQty, levelsSet, sentEmpty>>

SettingsNext ==
  \/ \E arrival \in Arrivals : Receive(arrival)
  \/ \E n \in Lengths : ReceivePast(n)

(* Startup does the one before the others.                                  *)
SettingsSpec == Unset /\ [][Construct \/ SettingsNext]_settingVars

----------------------------------------------------------------------------
(* setting.hpp:11: a line "1:2" is a level of 1 and 2, and a line without a *)
(* colon none.                                                             *)
LineEnd(t, p) == IF Place(t, "\n", p) = 0 THEN Len(t) + 1 ELSE Place(t, "\n", p)
LineAt(t, p) ==
  LET colon == Place(t, ":", p)
  IN  Line(SubSeq(t, p, colon - 1), SubSeq(t, colon + 1, LineEnd(t, p) - 1))
LevelLines(t) ==
  {p \in {1} \cup {q + 1 : q \in {r \in DOMAIN t : t[r] = "\n"}} :
     Place(t, ":", p) \in p .. LineEnd(t, p) - 1}

(* The levels are the lines of the row, the highest first, each as often as *)
(* it is there; unless an empty line precedes a colon (setting.hpp:245), or *)
(* user_level has been set at run time (setting.hpp:208).                   *)
LevelsRead ==
  ~EmptyLine(text) /\ ~levelsSet =>
    /\ \A i \in 1 .. Len(levels) - 1 : levels[i].left >= levels[i + 1].left
    /\ Len(levels) = Cardinality(LevelLines(text))
    /\ \A i \in DOMAIN levels :
         Cardinality({j \in DOMAIN levels : levels[j] = levels[i]})
           = Cardinality({p \in LevelLines(text) : LineAt(text, p) = levels[i]})

(* A message reaches setSetting whole unless its length is 127 or above     *)
(* 255 (mystring.h:38, 43), and the server goes on after it, unless it was   *)
(* cut, or a value was empty.                                               *)
ArrivesWhole ==
  /\ shortened # 0 => shortened = 127 \/ shortened > 255
  /\ fault => shortened # 0 \/ sentEmpty \/ EmptyLine(text)
=============================================================================
