--------------------------- MODULE MCCutAndChoose ---------------------------
(***************************************************************************)
(* CutAndChoose for TLC: coins of K = 2 bits, a toy generator that reaches     *)
(* every place of the shuffle, a toy hash of the opening.                  *)
(***************************************************************************)
EXTENDS CutAndChoose

NumOf(a) == a[0] + 2 * a[1]

MCSizes == {1, 2, 3, 4, 5, 6}
MCNodeAmnts == {1, 2, 3}
MCDraw(seed, i, n) == (NumOf(seed) * (i + 1) + NumOf(seed) \div 2) % n
MCHash(n, open) == <<(NumOf(open[1]) * 3 + NumOf(open[2])) % 2^n>>
=============================================================================
