----------------------------- MODULE MCChatStream -----------------------------
(* Two messages, two workers of the gateway, two instances of the web UI.   *)
EXTENDS ChatStream, TLC

CONSTANTS w1, w2, i1, i2

MCWorkers == {w1, w2}
MCInstances == {i1, i2}

(* The workers are alike: call w1 the one that serves the first message.    *)
FirstWorker == server[1] \in {w1, None}

(* The instances are alike: call i1 the one that the first stream is opened *)
(* at.                                                                      *)
FirstInstance ==
    turn = 1 /\ source.open /\ tokenDue /\ mishaps = 0 => conn.at = i1

(* After the last turn nothing reaches the screen any more, whatever        *)
(* connections and buffers still do.                                        *)
NotOver ==
    turn = MaxTurns =>
        streaming \/ waiting # {} \/ tokenDue \/ source.open

=============================================================================
