--------------------------- MODULE MCUserOpSender ---------------------------
EXTENDS UserOpSender, TLC
CONSTANTS s1, s2, t1, t2, t3
MCSignerOf == t1 :> s1 @@ t2 :> s1 @@ t3 :> s2
MCIndexOf == s1 :> 0 @@ s2 :> 1
=============================================================================
