--------------------------- MODULE MCOperatorChat ---------------------------
(***************************************************************************)
(* Instances of OperatorChat for TLC: the triage channel and a thread in   *)
(* it.                                                                     *)
(***************************************************************************)
EXTENDS OperatorChat, TLC

CONSTANTS m1, m2, m3, main, thread, other

(* Two messages in the channel, one in its thread, none elsewhere.         *)
Mixed == (m1 :> main) @@ (m2 :> main) @@ (m3 :> thread)
Parents == [c \in Channels |-> IF c = thread THEN main ELSE NoChannel]

(* Two messages in the channel and one in a channel that is not watched.   *)
TwoAndOne == (m1 :> main) @@ (m2 :> main) @@ (m3 :> other)

=============================================================================
