---------------------------- MODULE ReplyStream ----------------------------
(***************************************************************************)
(* What a client of one chat completion may rely on, whatever the model    *)
(* and the tools behind it do: the assistant role comes at most once, the  *)
(* text grows, the reply is closed at most once, nothing follows the       *)
(* close, and a reply that ends was closed, unless the provider itself     *)
(* ended a turn that called no tool without closing it.                    *)
(***************************************************************************)
EXTENDS Integers

CONSTANTS Closings   \* the finish reasons a client may see

VARIABLES role,      \* times the role was sent
          text,      \* pieces of text sent
          finish,    \* "none" or the reason the reply was closed with
          lapsed,    \* the provider ended a turn with neither call nor close
          over       \* "no", "ended" or "broken"

vars == <<role, text, finish, lapsed, over>>

Init == role = 0 /\ text = 0 /\ finish = "none" /\ lapsed = FALSE /\ over = "no"

\* A frame: perhaps the role, perhaps text, perhaps the close.
Frame ==
  /\ over = "no" /\ finish = "none"
  /\ role' \in {role, 1}
  /\ text' \in {text, text + 1}
  /\ finish' \in {"none"} \cup Closings
  /\ UNCHANGED <<lapsed, over>>

\* A reply given whole, or a closing turn, shows its last frame as it ends.
End ==
  /\ over = "no" /\ over' = "ended"
  /\ role' \in {role, 1} /\ text' \in {text, text + 1}
  /\ lapsed' \in {lapsed, TRUE}
  /\ finish' \in IF finish # "none" THEN {finish}
                 ELSE Closings \cup (IF lapsed' THEN {"none"} ELSE {})

Break == over = "no" /\ over' = "broken" /\ UNCHANGED <<role, text, finish, lapsed>>

Next == Frame \/ End \/ Break

Spec == Init /\ [][Next]_vars
=============================================================================
