---------------------------- MODULE MCForegroundTurns ----------------------------
(* Two messages of one user on its private root and one of another user.      *)
EXTENDS ForegroundTurns, TLC
CONSTANTS m1, m2, m3, u1, u2, r1, r2
MCUserOf == (m1 :> u1 @@ m2 :> u1 @@ m3 :> u2)
MCRootOf == (m1 :> r1 @@ m2 :> r1 @@ m3 :> r2)
MCShort == (m1 :> u1 @@ m2 :> u1)
MCShortRoot == (m1 :> r1 @@ m2 :> r1)
=============================================================================
