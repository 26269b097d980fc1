----------------------------- MODULE MCSession ------------------------------
(* Finite instances of Session for TLC: the blocks of a short conversation. *)
EXTENDS Session

\* Every block in a second of its own, or pairs of blocks in one second.
Apart == <<1, 2, 3>>
Pairs == <<1, 1, 2, 2>>

\* The tool calls of one answer are all of one type; or messages with a tool call.
OneType == <<"ACTION", "ACTION", "ACTION">>
Mixed == <<"ACTION", "ACTION", "MESSAGE", "ACTION">>

\* Where the hashes of their contents put blocks of one second and type: as they
\* were created, or the second of two first.
InTurn == <<1, 2, 3>>
Swapped == <<2, 1, 4, 3>>

AloneFeatures == {"nospawn"}
SharedFeatures == {"spawn", "nospawn", "crash", "late", "second", "io"}
HandoverFeatures == {"spawn"}
FailingFeatures == {"io"}

\* Two ACTION blocks of one second, and a third in the next.
OneSecond == <<1, 1, 2>>

=============================================================================
