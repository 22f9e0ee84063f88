------------------------------ MODULE MCKeyStore ------------------------------
(* Instances of KeyStore for TLC.                                             *)
EXTENDS KeyStore, TLC

CONSTANTS a1, a2, b1, a, b

(* Two threads of one process, which share a temporary file, and one of       *)
(* another.                                                                   *)
ThreePidOf == (a1 :> a) @@ (a2 :> a) @@ (b1 :> b)

===============================================================================
