------------------------------- MODULE Config -------------------------------
(***************************************************************************)
(* fish.conf (class Conf): the file is read in pieces of at most Piece       *)
(* characters, the room for a line, and gives at most MaxEntries entries.    *)
(***************************************************************************)
EXTENDS Texts

CONSTANTS
  Required,    \* the keys that check asks for
  Piece,       \* 49: fgets(line, 50, f)
  MaxEntries,  \* 49
  Kilo,        \* 1024
  Word         \* 2^32, the values of an int

ASSUME ConfigAssumption ==
  /\ {Piece, MaxEntries, Kilo, Word} \subseteq Nat \ {0}
  /\ Word % 2 = 0

----------------------------------------------------------------------------
(* Slips a maintainer could make.                                          *)
TakesTheRest(t, p) == FALSE

----------------------------------------------------------------------------
(* fgets: up to a line end, which is part of the piece, or Piece characters. *)
PieceEnd(t, p) == Min({Upto(t, p, {"\n"}) + 1, p + Piece, Len(t) + 1})

(* A piece goes on with a line when there is no line end before it: i # 0.   *)
Continues(t, p) == p > 1 /\ t[p - 1] # "\n"

Comment == {";", "#", "[", " "}

(* The key up to a space or an equals sign, then those are skipped, then the *)
(* value up to a space.  Both also end at a semicolon.                       *)
Stops == {" ", ";", "\n"}
Entry(piece) ==
  LET end == Upto(piece, 1, Stops \cup {"="})
      from == Past(piece, end, {" ", "="})
  IN  [key |-> Between(piece, 1, end),
       value |-> Between(piece, from, Upto(piece, from, Stops))]

(* parse, from place p on.  An empty line gives an entry too, with nothing   *)
(* in it.                                                                  *)
Skipped(t, p) == t[p] \in Comment \/ Continues(t, p)

Entries(t) ==
  LET from[p \in 1 .. Len(t) + 1] ==
        LET end == PieceEnd(t, p)
        IN  IF p > Len(t) THEN <<>>
            ELSE (IF Skipped(t, p) THEN <<>> ELSE <<Entry(Between(t, p, end))>>) \o from[end]
  IN  from

ParseConf(t) ==
  LET all == Entries(t)[1]
  IN  SubSeq(all, 1, Min({MaxEntries, Len(all)}))

----------------------------------------------------------------------------
(* get: the first entry of a key.                                          *)
Has(conf, key) == \E i \in DOMAIN conf : conf[i].key = key
Get(conf, key) ==
  IF Has(conf, key) THEN conf[Min({i \in DOMAIN conf : conf[i].key = key})].value
  ELSE None
ConfInt(conf, key) == Atoi(Get(conf, key))

(* check: an entry for each key, with whatever value.                       *)
Check(conf) == \A k \in Required : Has(conf, k)

(* get_memory_size, in the width of an int.                                 *)
InWord(n) == ((n + Word \div 2) % Word) - Word \div 2
Times(n, factor) == InWord(n * factor)
MemorySize(size) ==
  LET kilos == IF "K" \in Range(size) THEN Times(Atoi(size), Kilo) ELSE Atoi(size)
      megas == IF "M" \in Range(size) THEN Times(kilos, Kilo * Kilo) ELSE kilos
  IN  IF megas > 0 THEN megas ELSE InWord(Kilo * Kilo)
=============================================================================
