----------------------------- MODULE MCTockenizer -----------------------------
(* An instance of Tockenizer for TLC: every memory of five characters that  *)
(* are letters, separators or null, the last of them null.                  *)
EXTENDS Tockenizer

CONSTANTS letter, semicolon, colon

MCMemories == {s \in [1..Last -> {letter, semicolon, NUL}] : s[Last] = NUL}
MCAddresses == {1, 3}
MCSeparators == {{}, {semicolon}, {semicolon, colon}} \* the last: too many
MCBuffers == {0, 1, 6}
=============================================================================
