------------------------------ MODULE Handshake ------------------------------
(***************************************************************************)
(* The answer to a client's handshake (WebSocket::hack): the key in its      *)
(* header, hashed (sha1_hash) and written in base64 (base64_encode).  The    *)
(* other lines of the answer are always the same.                           *)
(*                                                                         *)
(* A header is a string; the key and all that follows are bytes.  A word of  *)
(* 32 bits is the pair of its halves, which is all TLC's integers allow.    *)
(***************************************************************************)
EXTENDS Integers, Sequences

KeyName == "Sec-WebSocket-Key:"
SecLen == 50  \* char sec[50]
Magic == "258EAFA5-E914-47DA-95CA-C5AB0DC85B11"

Half == \h10000
BlockLen == 64

----------------------------------------------------------------------------
(* Slips a maintainer could make.                                          *)
ZerosOneEarly(index) == IF index > 54 THEN 119 - index ELSE 55 - index

----------------------------------------------------------------------------
(* The bits that two halves have in common; the rest follows from them.      *)
Common[x \in Nat, y \in Nat] ==
  IF x = 0 THEN 0 ELSE 2 * Common[x \div 2, y \div 2] + ((x % 2) * (y % 2))

And(x, y) == [i \in {1, 2} |-> Common[x[i], y[i]]]
Or(x, y) == [i \in {1, 2} |-> x[i] + y[i] - Common[x[i], y[i]]]
Xor(x, y) == [i \in {1, 2} |-> x[i] + y[i] - 2 * Common[x[i], y[i]]]
Not(x) == <<Half - 1 - x[1], Half - 1 - x[2]>>
Plus(x, y) ==
  <<(x[1] + y[1] + (x[2] + y[2]) \div Half) % Half, (x[2] + y[2]) % Half>>

CircularShift(bits, x) ==
  LET y == IF bits < 16 THEN x ELSE <<x[2], x[1]>>
      shift == bits % 16
      part(high, low) == ((high * 2^shift) % Half) + low \div 2^(16 - shift)
  IN  <<part(y[1], y[2]), part(y[2], y[1])>>

Reset == <<<<\h6745, \h2301>>, <<\hEFCD, \hAB89>>, <<\h98BA, \hDCFE>>,
           <<\h1032, \h5476>>, <<\hC3D2, \hE1F0>>>>

K == <<<<\h5A82, \h7999>>, <<\h6ED9, \hEBA1>>, <<\h8F1B, \hBCDC>>, <<\hCA62, \hC1D6>>>>

F(t, B, C, D) ==
  CASE t \in 0 .. 19  -> Or(And(B, C), And(Not(B), D))
    [] t \in 40 .. 59 -> Or(Or(And(B, C), And(B, D)), And(C, D))
    [] OTHER          -> Xor(Xor(B, C), D)

Words(block) ==
  [t \in 1 .. 16 |-> <<block[4 * t - 3] * 256 + block[4 * t - 2],
                       block[4 * t - 1] * 256 + block[4 * t]>>]

(* The words of a block, expanded to 80.                                    *)
Expanded(block) ==
  LET from[W \in Seq(Seq(Nat))] ==
        LET n == Len(W)
            mixed == Xor(Xor(W[n - 2], W[n - 7]), Xor(W[n - 13], W[n - 15]))
        IN  IF n = 80 THEN W ELSE from[Append(W, CircularShift(1, mixed))]
  IN  from[Words(block)]

(* The 80 rounds, on s = <<A, B, C, D, E>>.                                  *)
Rounds(digest, W) ==
  LET from[t \in 0 .. 80, s \in Seq(Seq(Nat))] ==
        LET mixed == Plus(CircularShift(5, s[1]), F(t, s[2], s[3], s[4]))
            temp == Plus(Plus(mixed, s[5]), Plus(W[t + 1], K[t \div 20 + 1]))
        IN  IF t = 80 THEN s
            ELSE from[t + 1, <<temp, s[1], CircularShift(30, s[2]), s[3], s[4]>>]
  IN  from[0, digest]

ProcessMessageBlock(digest, block) ==
  LET s == Rounds(digest, Expanded(block))
  IN  [i \in 1 .. 5 |-> Plus(digest[i], s[i])]

(* PadMessage: behind the message a byte of 0x80, zeros up to the last 8     *)
(* bytes of this block or the next, and the length in bits, of which two      *)
(* bytes are enough here.                                                   *)
Zeros(index) == IF index > 55 THEN 119 - index ELSE 55 - index

Padded(message) ==
  LET n == Len(message)
      bits == 8 * n
  IN  message \o <<\h80>> \o [i \in 1 .. Zeros(n % BlockLen) |-> 0]
        \o <<0, 0, 0, 0, 0, 0, bits \div 256, bits % 256>>

RECURSIVE Digest(_, _)
Digest(digest, bytes) ==
  IF Len(bytes) < BlockLen THEN digest
  ELSE Digest(ProcessMessageBlock(digest, SubSeq(bytes, 1, BlockLen)),
              SubSeq(bytes, BlockLen + 1, Len(bytes)))

(* sha1_hash: the bytes of the digest, the highest of a word first.         *)
Sha1(message) ==
  LET words == Digest(Reset, Padded(message))
      byteOf(w, i) == IF i % 2 = 0 THEN w[i \div 2 + 1] \div 256 ELSE w[i \div 2 + 1] % 256
  IN  [i \in 1 .. 20 |-> byteOf(words[(i - 1) \div 4 + 1], (i - 1) % 4)]

----------------------------------------------------------------------------
Base64Char == "ABCDEFGHIJKLMNOPQRSTUVWXYZabcdefghijklmnopqrstuvwxyz0123456789+/"
Sign(n) == SubSeq(Base64Char, n + 1, n + 1)

RECURSIVE Base64(_)
Base64(b) ==
  LET second(low) == Sign(((b[1] % 4) * 16) + low)
      third(low) == Sign(((b[2] % 16) * 4) + low)
      first == Sign(b[1] \div 4)
  IN  CASE Len(b) = 0 -> ""
        [] Len(b) = 1 -> first \o second(0) \o "=="
        [] Len(b) = 2 -> first \o second(b[2] \div 16) \o third(0) \o "="
        [] OTHER -> first \o second(b[2] \div 16) \o third(b[3] \div 64) \o Sign(b[3] % 64)
                      \o Base64(SubSeq(b, 4, Len(b)))

----------------------------------------------------------------------------
\* ASCII from + on; the six signs that are no base64 are left blank
Ascii == "+,-./0123456789:;<=>?@ABCDEFGHIJKLMNOPQRSTUVWXYZ      abcdefghijklmnopqrstuvwxyz"
CharAt(text, i) == SubSeq(text, i, i)
Bytes(text) ==
  [i \in 1 .. Len(text) |->
     42 + CHOOSE n \in 1 .. Len(Ascii) : CharAt(Ascii, n) = CharAt(text, i)]

(* strstr.                                                                  *)
KeyPlaces(header) ==
  {p \in 1 .. Len(header) - Len(KeyName) + 1 :
     SubSeq(header, p, p + Len(KeyName) - 1) = KeyName}

(* From behind the name to the end of its line, without the spaces, and at   *)
(* most SecLen characters.  Where the line does not end the loop runs on      *)
(* behind the header, and the NUL behind SecLen characters is out of bounds.  *)
RECURSIVE Sec(_, _, _)
Sec(header, p, sec) ==
  CASE p > Len(header) \/ Len(sec) = SecLen -> [text |-> sec, past |-> TRUE]
    [] p <= Len(header) /\ Len(sec) < SecLen /\ CharAt(header, p) = "\r" ->
         [text |-> sec, past |-> FALSE]
    [] OTHER -> Sec(header, p + 1,
                    IF CharAt(header, p) = " " THEN sec ELSE sec \o CharAt(header, p))

(* hack: no answer without a key, and the client may try again.             *)
NoAnswer == [accept |-> "", past |-> FALSE]

Hack(header) ==
  IF KeyPlaces(header) = {} THEN NoAnswer
  ELSE LET first == CHOOSE p \in KeyPlaces(header) : \A q \in KeyPlaces(header) : p <= q
           sec == Sec(header, first + Len(KeyName), "")
       IN  [accept |-> Base64(Sha1(Bytes(sec.text \o Magic))), past |-> sec.past]
=============================================================================
