-------------------------------- MODULE Texts --------------------------------
(***************************************************************************)
(* The work on characters by hand: searching (strpos), numbers (atoi),       *)
(* copying without the escapes (copy_str), and a text taken apart at a       *)
(* delimiter (class Explode).                                               *)
(*                                                                         *)
(* A text is a sequence of characters.  Behind the last one is the NUL, and  *)
(* what is read behind the NUL is not part of the text any more.  A word     *)
(* that matters only as a whole may stand for one character.  The pointer    *)
(* NULL is the empty text: the code never keeps another empty one.           *)
(***************************************************************************)
EXTENDS Integers, Sequences, FiniteSets, SequencesExt

NUL == "NUL"
Garbage == "garbage"  \* a byte of the heap that nobody has written
None == <<>>          \* the pointer NULL

Digits == {"0", "1", "2", "3"}

----------------------------------------------------------------------------
(* Slips a maintainer could make.                                          *)
WithDelimiter(d, p) == p + Len(d)

----------------------------------------------------------------------------
At(t, p) == IF p \in DOMAIN t THEN t[p] ELSE NUL

(* The first place from p on with a character of C, without one of them; at *)
(* the latest the NUL.                                                     *)
Upto(t, p, C) ==
  Min({q \in p .. Max({p, Len(t) + 1}) : q > Len(t) \/ t[q] \in C})
Past(t, p, C) ==
  Min({q \in p .. Max({p, Len(t) + 1}) : q > Len(t) \/ t[q] \notin C})

Between(t, p, q) == SubSeq(t, p, q - 1)

(* strpos: the first c at or after p, and 0 when there is none.            *)
Place(t, c, p) ==
  LET places == {q \in p .. Len(t) : t[q] = c}
  IN  IF places = {} THEN 0 ELSE Min(places)

(* The value of the digits among the characters.                           *)
DigitOf == [c \in Digits |->
              CASE c = "0" -> 0 [] c = "1" -> 1 [] c = "2" -> 2 [] c = "3" -> 3]

Values(chars) ==
  LET upto[i \in 0 .. Len(chars)] ==
        IF i = 0 THEN 0
        ELSE IF chars[i] \in Digits THEN 10 * upto[i - 1] + DigitOf[chars[i]]
        ELSE upto[i - 1]
  IN  upto

Value(chars) == Values(chars)[Len(chars)]

(* atoi: only the digits in front count, and NULL is no text at all.       *)
Atoi(t) == Value(Between(t, 1, Past(t, 1, Digits)))

----------------------------------------------------------------------------
(* A backslash is left out and the character behind it kept; at the end of  *)
(* the text it leaves a byte that is never written.                         *)
CopyStr(t) ==
  LET from[p \in 1 .. Len(t) + 2] ==
        CASE p > Len(t) -> <<>>
          [] p <= Len(t) /\ t[p] # "\\" -> <<t[p]>> \o from[p + 1]
          [] OTHER -> <<IF p < Len(t) THEN t[p + 1] ELSE Garbage>> \o from[p + 2]
  IN  from[1]

----------------------------------------------------------------------------
(* Explode: the fields of t between the delimiters d, the first Fields of   *)
(* them; an empty field is NULL.  Comparing with a d that does not match     *)
(* goes past the characters compared: a d among them is missed, and when      *)
(* one of them is the NUL, so is the end of the text.                        *)
Matched(d, t, p) ==
  Max({n \in 0 .. Len(d) : \A i \in 1 .. n : At(t, p + i - 1) = d[i]})

Matches(d, t, p) == Matched(d, t, p) = Len(d)
FieldEnd(d, p) == p

(* What is found from place p on, when the field there began at start.     *)
Reading(d, t) ==
  LET from[p \in 1 .. Len(t) + 2] ==
        [start \in 1 .. Len(t) + 1 |->
           CASE p > Len(t) + 1 -> [fields |-> <<>>, past |-> TRUE]
             [] p = Len(t) + 1 -> [fields |-> <<Between(t, start, p)>>, past |-> FALSE]
             [] p <= Len(t) /\ Matches(d, t, p) ->
                  LET rest == from[p + Len(d)][p + Len(d)]
                  IN  [fields |-> <<Between(t, start, FieldEnd(d, p))>> \o rest.fields,
                       past |-> rest.past]
             [] OTHER -> from[p + Matched(d, t, p) + 1][start]]
  IN  from

Explode(d, t, Fields) ==
  IF t = None \/ d = None THEN [fields |-> <<>>, past |-> FALSE]
  ELSE LET all == Reading(d, t)[1][1]
       IN  [fields |-> SubSeq(all.fields, 1, Min({Len(all.fields), Fields})),
            past |-> all.past]

Field(exploded, i) ==
  IF i \in DOMAIN exploded.fields THEN exploded.fields[i] ELSE None
GetInt(exploded, i) == Atoi(Field(exploded, i))
=============================================================================
