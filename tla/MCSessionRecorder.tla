-------------------------- MODULE MCSessionRecorder -------------------------
(* Instances of SessionRecorder for TLC.                                   *)
EXTENDS SessionRecorder

(* No name, and a given name that looks like a generated one.              *)
MCNames == {None, <<"view", 2>>}
=============================================================================
