---------------------------- MODULE Conversation ----------------------------
(***************************************************************************)
(* What the chat promises its operator, with no word of workers, streams,  *)
(* buffers or connections.  One message is answered at a time; texts are   *)
(* added to the last message only, and only until its turn has ended; a    *)
(* turn ends once, with an error and no text, or regularly, after a text,  *)
(* unless the agent was silent.                                            *)
(*                                                                         *)
(* Once the conversation has been disturbed less is kept: texts are still  *)
(* added to the last message only and a turn still ends only once, but     *)
(* texts may come after the end, or the end without or despite a text.     *)
(***************************************************************************)
EXTENDS Naturals, Sequences

CONSTANT MaxTurns    \* bound on the messages

VARIABLES
    asked,     \* messages so far
    ended,     \* how each turn ended
    said,      \* in each turn: which messages the texts answer, 0 for none
    silent,    \* messages to which the agent had nothing to say
    disturbed  \* has an old answer come up again?

talk == <<asked, ended, said, silent, disturbed>>

Turns == 1 .. MaxTurns

Nothing == asked = 0 /\ silent = {} /\ disturbed = FALSE
           /\ ended = [t \in Turns |-> "open"]
           /\ said = [t \in Turns |-> << >>]

Answering == asked # 0 /\ ended[asked] = "open"

Ask ==
    /\ ~Answering
    /\ asked < MaxTurns
    /\ asked' = asked + 1
    /\ UNCHANGED <<ended, said, silent, disturbed>>

(* Not known to the operator, who may have given up.                       *)
KeepSilent(t) ==
    /\ t <= asked
    /\ silent' = silent \cup {t}
    /\ UNCHANGED <<asked, ended, said, disturbed>>

(* An answer that has been given comes up again.                           *)
Disturb ==
    /\ asked # 0
    /\ disturbed' = TRUE
    /\ UNCHANGED <<asked, ended, said, silent>>

(* The answer to this message or, wrongly, to an earlier one.              *)
Say(t) ==
    /\ Answering \/ disturbed
    /\ t <= asked
    /\ said' = [said EXCEPT ![asked] = Append(@, t)]
    /\ UNCHANGED <<asked, ended, silent, disturbed>>

End(how) ==
    /\ Answering
    /\ ended' = [ended EXCEPT ![asked] = how]
    /\ UNCHANGED <<asked, said, silent, disturbed>>

Fail == (said[asked] = << >> \/ disturbed) /\ End("error")

Complete == (said[asked] # << >> \/ silent # {} \/ disturbed) /\ End("done")

TalkNext ==
    \/ Ask \/ Fail \/ Complete \/ Disturb
    \/ \E t \in Turns : KeepSilent(t)
    \/ \E t \in 0 .. MaxTurns : Say(t)

Talk == Nothing /\ [][TalkNext]_talk
=============================================================================
