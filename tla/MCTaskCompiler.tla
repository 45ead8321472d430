--------------------------- MODULE MCTaskCompiler ---------------------------
(* TaskCompiler for TLC.  Two texts normalize to one digest, one text to    *)
(* another, and one is refused by the SQL policy.                           *)
EXTENDS TaskCompiler, TLC

CONSTANTS x1, x2, y, bad, dx, dy

MCTexts == {x1, x2, y, bad}
MCDigests == {dx, dy}
MCNormalize == (x1 :> dx) @@ (x2 :> dx) @@ (y :> dy) @@ (bad :> None)

TwoTexts == {x1, y}
TwoNormalize == (x1 :> dx) @@ (y :> dy)

OneText == {x1}
OneDigest == {dx}
OneNormalize == (x1 :> dx)

Symmetry == Permutations(Threads)
=============================================================================
