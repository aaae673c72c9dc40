----------------------------- MODULE MCAutoboot ------------------------------
(* Scripts of two and three steps for TLC.                                 *)
EXTENDS Autoboot

\* Each kind of command before another, and a command between two keys, the
\* second of which could overtake it.
MixedScripts == {<<k, "cmd">> : k \in Kinds \ {"key"}} \cup {<<"key", "cmd", "key">>}

\* The second command's text comes after a prompt.
Unterminated == {<<"cmd", "text">>}
==============================================================================
