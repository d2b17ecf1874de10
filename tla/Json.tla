-------------------------------- MODULE Json --------------------------------
(***************************************************************************)
(* The messages as texts (class Json): what parseString makes of a text, and *)
(* the text toJson makes of what has been pushed.                            *)
(*                                                                         *)
(* A text is printed from nodes [key, kind, text, child].                   *)
(***************************************************************************)
EXTENDS Parsing

----------------------------------------------------------------------------
(* Slips a maintainer could make.                                          *)
OnlyQuotes(n) == CASE n.kind = "string" -> 6 [] OTHER -> 2

----------------------------------------------------------------------------
(* strneq compares n characters, the NULs and what is behind them too: what   *)
(* it may answer.                                                          *)
StrNEq(a, b, n) ==
  LET nul == Min({Len(a), Len(b)}) + 1
  IN  IF \E i \in 1 .. Min({n, nul}) : At(a, i) # At(b, i) THEN {FALSE}
      ELSE IF n <= nul THEN {TRUE} ELSE BOOLEAN

(* valueOfChild: the names of a path have points between them.  From place p *)
(* on, the first pair of a list whose key is taken for the name has the rest  *)
(* of the path looked for in its child; at the top as many characters are     *)
(* compared as the name has, below it as many as the first key has if those   *)
(* are more.  What it may find.                                            *)
RECURSIVE ChildValue(_, _, _)
ChildValue(pairs, path, p) ==
  LET end == Upto(path, p, {"."})
      n == IF p = 1 THEN end - p ELSE Max({end - p, Len(pairs[1].key)})
      taken(i) == StrNEq(pairs[i].key, Between(path, p, Len(path) + 1), n)
      reached(i) == TRUE \in taken(i) /\ \A j \in 1 .. i - 1 : FALSE \in taken(j)
      found(i) == IF At(path, end) = NUL THEN {pairs[i].value}
                  ELSE ChildValue(pairs[i].child, path, end + 1)
  IN  UNION {found(i) : i \in {j \in DOMAIN pairs : reached(j)}}
        \cup (IF \A i \in DOMAIN pairs : FALSE \in taken(i) THEN {None} ELSE {})

ValueOfChild(pairs, path) == ChildValue(pairs, path, 1)

----------------------------------------------------------------------------
(* What push adds to the length of the text it will be: the signs, the       *)
(* colon and a comma, and for an object what its first node has and 5.       *)
Around(n) == CASE n.kind = "string" -> 6 [] n.kind = "list" -> 2 [] OTHER -> 4

RECURSIVE ValueLen(_)
ValueLen(n) == IF n.kind = "node" THEN ValueLen(n.child[1]) ELSE Len(n.text)

Linked(n) == Len(n.key) + ValueLen(n) + Around(n)

RECURSIVE Inner(_)
Inner(n) ==
  LET sum(nodes) == FoldLeft(LAMBDA s, m : s + Inner(m) + Linked(m), 0, nodes)
  IN  CASE n.kind = "list" -> sum(n.child)
        [] n.kind = "node" ->
             Inner(n.child[1]) + Around(n.child[1]) + Len(n.child[1].key) + 5
               + sum(Tail(n.child))
        [] OTHER -> 0

Pushed(n) ==
  IF n.kind = "node" THEN Inner(n) + Len(n.key) + ValueLen(n) ELSE Linked(n)

AddLen(nodes) == FoldLeft(LAMBDA s, n : s + Pushed(n), 2, nodes)

(* toJson.  Nothing is escaped, and a list is one object in brackets; of an  *)
(* empty one a byte remains that is not written.                            *)
RECURSIVE Printed(_)
Chain(nodes) ==
  FoldLeft(LAMBDA t, n : IF t = <<>> THEN Printed(n) ELSE t \o <<",">> \o Printed(n),
           <<>>, nodes)
Printed(n) ==
  LET key == IF n.key = <<>> THEN <<>> ELSE <<"\"">> \o n.key \o <<"\"", ":">>
  IN  CASE n.kind = "string" -> key \o <<"\"">> \o n.text \o <<"\"">>
        [] n.kind = "number" -> key \o n.text
        [] n.kind = "node" /\ n.child[1].kind # "list" ->
             key \o <<"{">> \o Chain(n.child) \o <<"}">>
        [] n.kind = "node" /\ n.child[1].kind = "list" -> key \o Printed(n.child[1])
        [] OTHER -> IF n.child = <<>> THEN <<Garbage>>
                    ELSE <<"[", "{">> \o Chain(n.child) \o <<"}", "]">>

ToJson(nodes) == <<"{">> \o Chain(nodes) \o <<"}">>

(* clearAdd frees a chain and, one after the other, what its nodes have; it   *)
(* then forgets _addhead.  For NULL, the child of an empty list, it starts    *)
(* again at _addhead, and never ends if there still is one.                 *)
Compound(n) == n.kind \in {"node", "list"}

RECURSIVE ClearAdd(_, _)
ClearAdd(nodes, headSet) ==
  LET inner(now, n) == IF Compound(n) /\ now.ends THEN ClearAdd(n.child, now.headSet) ELSE now
  IN  IF nodes = <<>> /\ headSet THEN [ends |-> FALSE, headSet |-> TRUE]
      ELSE [FoldLeft(inner, [ends |-> TRUE, headSet |-> headSet], nodes)
              EXCEPT !.headSet = FALSE]
=============================================================================
