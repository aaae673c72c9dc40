------------------------------ MODULE MCEverest ------------------------------
(* The Everest board for TLC.                                              *)
EXTENDS Everest

\* Every key alone, and a chord of a dot with a digit that is typed on two host keys.
SomeChords == {{k} : k \in HostKey} \cup {{"S", "N3", "K3"}}
==============================================================================
