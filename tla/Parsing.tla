------------------------------ MODULE Parsing ------------------------------
(***************************************************************************)
(* parseString: a text is taken apart into pairs [key, value, child], the     *)
(* value of a key, or the pairs of the object it has.  A text that breaks off *)
(* gives the pairs read so far, and parseString never says that it has met an *)
(* error.                                                                  *)
(***************************************************************************)
EXTENDS Texts

Signs == {"'", "\""}
Numeric == Digits \cup {"."}

----------------------------------------------------------------------------
(* Slips a maintainer could make.                                          *)
NoSpaceSkipped(t, p) == p

----------------------------------------------------------------------------
(* parseString.  Key and value are looked for from a place on; "at" is the   *)
(* place behind, where the colon, the comma or the brace has to be, or the   *)
(* place of the error.                                                      *)
Skip(t, p) == Past(t, p, {" "})

Found(t, from, end, next, C) ==
  [text |-> Between(t, from, end), at |-> next, ok |-> At(t, next) \in C]
Error(p) == [text |-> None, at |-> p, ok |-> FALSE]

(* A key in signs ends at its sign and has no space in it; one without ends *)
(* at a space or a colon.  An empty key is an error.                        *)
KeyAt(t, p) ==
  LET start == Skip(t, p)
      sign == {At(t, start)} \cap Signs
      from == IF sign = {} THEN start ELSE start + 1
      end == Upto(t, from, IF sign = {} THEN {" ", ":"} ELSE sign \cup {" "})
      colon == Skip(t, IF sign = {} THEN end ELSE end + 1)
  IN  CASE At(t, end) = NUL -> Error(end)
        [] At(t, end) = " " /\ sign # {} -> Error(end)
        [] OTHER -> IF end = from THEN Error(colon)
                    ELSE Found(t, from, end, colon, {":"})

(* A value in signs ends at its sign, unless a backslash is before it; one   *)
(* without is a minus, digits and points.                                   *)
ValueAt(t, p) ==
  LET sign == {At(t, p)} \cap Signs
      from == IF sign = {} THEN p ELSE p + 1
      end == IF sign = {}
             THEN Past(t, IF At(t, from) = "-" THEN from + 1 ELSE from, Numeric)
             ELSE Min({q \in from .. Len(t) + 1 :
                         q > Len(t) \/ (t[q] \in sign /\ t[q - 1] # "\\")})
      next == Skip(t, IF sign = {} THEN end ELSE end + 1)
  IN  IF At(t, end) = NUL THEN [Error(end) EXCEPT !.ok = TRUE]
      ELSE Found(t, from, end, next, {",", "}"})

(* The loop, before its m++: the pairs it reads from place p on, in an object *)
(* or not, the place at which it stops, and whether it has read behind the    *)
(* NUL.  Behind an object comes the next pair, whatever follows the brace it   *)
(* has stopped at.                                                         *)
Stopped(t, p) == [pairs |-> <<>>, at |-> p, past |-> p > Len(t) + 1]
InFront(pair, rest) ==
  [pairs |-> <<pair>> \o rest.pairs, at |-> rest.at, past |-> rest.past]

Copied(key, value, child) ==
  [key |-> CopyStr(key.text), value |-> CopyStr(value), child |-> child]

Pairs(t) ==
  LET from[p \in 1 .. Len(t) + 1] ==
        [child \in BOOLEAN |->
           LET closes(q) == child /\ At(t, q) = "}"
               on(q) == IF q > Len(t) + 1 \/ closes(q) THEN Stopped(t, q)
                        ELSE from[q][child]
               key == KeyAt(t, p + 1)
               start == Skip(t, key.at + 1)
               inner == from[start][TRUE]
               value == ValueAt(t, start)
           IN  CASE p > Len(t) -> [pairs |-> <<>>, at |-> p + 1, past |-> FALSE]
                 [] p <= Len(t) /\ closes(p + 1) -> Stopped(t, p + 1)
                 [] p <= Len(t) /\ ~closes(p + 1) /\ ~key.ok -> Stopped(t, key.at)
                 [] p <= Len(t) /\ ~closes(p + 1) /\ key.ok /\ At(t, start) = "{" ->
                      InFront(Copied(key, None, inner.pairs), on(inner.at + 1))
                 [] OTHER ->
                      InFront(Copied(key, IF value.ok THEN value.text ELSE None, <<>>),
                             IF value.ok THEN on(value.at) ELSE Stopped(t, value.at))]
  IN  from

Parse(t) == Pairs(t)[1][FALSE]

(* Without a pair _phead is never set, and clear and the others below go     *)
(* wherever it points to.  clear frees the pairs, and leaves _phead to them. *)
HeadSet(pairs) == pairs # <<>>

(* getJsonValue: the first pair of that key.  value, valueToInt.            *)
GetJsonValue(pairs, key) ==
  LET places == {i \in DOMAIN pairs : pairs[i].key = key}
  IN  IF places = {} THEN <<>> ELSE <<pairs[Min(places)]>>
ValueOf(pairs, key) ==
  IF GetJsonValue(pairs, key) = <<>> THEN None
  ELSE GetJsonValue(pairs, key)[1].value
ValueToInt(pairs, key) == Atoi(ValueOf(pairs, key))
=============================================================================
