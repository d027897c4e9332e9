------------------------- MODULE MCCompilerSession -------------------------
(* An instance of CompilerSession for TLC.  Documents and texts are model    *)
(* values; the two texts have one fingerprint.                               *)
EXTENDS CompilerSession, TLC

CONSTANTS u1, u2, u3, t1, t2

Uris   == { u1, u2, u3 }
Texts  == { t1, t2 }
HashOf == [ t \in Source |-> 1 ]

UriSymmetry == Permutations(Uri)
=============================================================================
