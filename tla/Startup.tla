------------------------------- MODULE Startup -------------------------------
(***************************************************************************)
(* The whole start of the program (main): with Boot the trials of Json and    *)
(* of a handshake, the settings, and then the settings while it serves.  One  *)
(* client is there to send settings.                                       *)
(***************************************************************************)
EXTENDS Boot, Settings, Json, Handshake

CONSTANTS
  Documents,   \* what may be pushed in the trial of Json
  Handshakes   \* the headers of clients, with what the protocol asks for

vars == <<bootVars, settingVars>>

Init == BootInit /\ Unset

----------------------------------------------------------------------------
TryJson ==
  /\ phase = "trial"
  /\ \E nodes \in Documents :
       Tried([kind |-> "json", nodes |-> nodes, text |-> ToJson(nodes),
              room |-> AddLen(nodes), cleared |-> ClearAdd(nodes, TRUE)])
  /\ phase' = IF trial'.cleared.ends THEN "tried" ELSE "ended"
  /\ UNCHANGED settingVars

(* A handshake of a client that will come later: hack keeps nothing but its  *)
(* answer, and depends on nothing else.                                    *)
TryHello ==
  /\ phase = "trial"
  /\ \E h \in Handshakes :
       LET answer == Hack(h.header)
       IN  /\ Tried([kind |-> "hello", asked |-> h, answer |-> answer])
           /\ phase' \in {"tried"} \cup (IF answer.past THEN {"ended"} ELSE {})
  /\ UNCHANGED settingVars

LoadSettings ==
  /\ phase = "settings"
  /\ Construct
  /\ End(fishQty' > 0 /\ ~fault', "serve")
  /\ UNCHANGED <<file, maxRoom, memory, trial>>

(* WebSocket's constructor, which never returns: messages come and settings  *)
(* change.                                                                 *)
Serve ==
  /\ phase = "serve"
  /\ SettingsNext
  /\ UNCHANGED <<phase, file, maxRoom, memory, trial>>

Boots == BootNext /\ UNCHANGED settingVars

Next ==
  \/ Boots
  \/ TryJson \/ TryHello
  \/ LoadSettings
  \/ Serve

Spec == Init /\ [][Next]_vars

----------------------------------------------------------------------------
(* What the pairs of the nodes are.                                        *)
RECURSIVE PairOf(_)
PairOf(n) ==
  [key |-> n.key,
   value |-> IF n.kind = "node" THEN None ELSE n.text,
   child |-> [i \in DOMAIN n.child |-> PairOf(n.child[i])]]

RECURSIVE HasList(_)
HasList(n) == n.kind = "list" \/ \E i \in DOMAIN n.child : HasList(n.child[i])
RECURSIVE Special(_)
Special(n) ==
  \/ Range(n.text) \cap {"\"", "\\"} # {}
  \/ \E i \in DOMAIN n.child : Special(n.child[i])
RECURSIVE HasEmptyList(_)
HasEmptyList(n) ==
  n = [n EXCEPT !.kind = "list", !.child = <<>>] \/ \E i \in DOMAIN n.child : HasEmptyList(n.child[i])

(* The names on the way to a value, from the top; what is there, when of      *)
(* equal keys the first one counts; and what valueOfChild may take for a name  *)
(* on the way, because it begins with it or the first key there is longer.   *)
RECURSIVE Ways(_)
Ways(pairs) ==
  UNION {{<<p.key>>} \cup {<<p.key>> \o way : way \in Ways(p.child)} : p \in Range(pairs)}
RECURSIVE Reached(_, _)
Reached(pairs, way) ==
  CASE GetJsonValue(pairs, way[1]) = <<>> -> None
    [] Len(way) = 1 -> ValueOf(pairs, way[1])
    [] OTHER -> Reached(GetJsonValue(pairs, way[1])[1].child, Tail(way))
RECURSIVE Misled(_, _)
Misled(pairs, way) ==
  \/ \E p \in Range(pairs) : IsStrictPrefix(way[1], p.key)
  \/ Len(way) > 1 /\ GetJsonValue(pairs, way[1]) # <<>> /\
       LET child == GetJsonValue(pairs, way[1])[1].child
       IN  child # <<>> /\ (Len(child[1].key) > Len(way[2]) \/ Misled(child, Tail(way)))
Path(way) == FoldLeft(LAMBDA t, name : t \o <<".">> \o name, Head(way), Tail(way))

(* simple_json.hpp:361: a text printed from nodes fits into the room that    *)
(* push has counted, with its NUL; and is taken apart into what it has been   *)
(* printed from, unless a list is in it, or a value has a sign or a backslash; *)
(* then every value is found by its path (simple_json.hpp:254), unless a key  *)
(* beside it on the way misleads.  The nodes can be cleared (:594) unless     *)
(* there is an empty list among them.                                      *)
JsonExact ==
  trial.kind = "json" =>
    LET parsed == Parse(trial.text)
        plain == \A i \in DOMAIN trial.nodes :
                   ~HasList(trial.nodes[i]) /\ ~Special(trial.nodes[i])
    IN  /\ Len(trial.text) + 1 <= trial.room
        /\ plain =>
             /\ ~parsed.past
             /\ parsed.pairs = [i \in DOMAIN trial.nodes |-> PairOf(trial.nodes[i])]
             /\ \A way \in Ways(parsed.pairs) :
                  Misled(parsed.pairs, way) \/
                    ValueOfChild(parsed.pairs, Path(way)) = {Reached(parsed.pairs, way)}
        /\ \/ trial.cleared.ends
           \/ \E i \in DOMAIN trial.nodes : HasEmptyList(trial.nodes[i])

(* websocket.hpp:212: the answer to a header is the one the protocol asks    *)
(* for, unless the key is longer than sec has room for, or the header has    *)
(* come in two parts; a client that gets none has named its key otherwise.   *)
HandshakeAnswers ==
  trial.kind = "hello" /\ ~trial.answer.past /\ trial.answer # NoAnswer =>
    trial.answer.accept = trial.asked.accept
=============================================================================
