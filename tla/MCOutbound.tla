---------------------------- MODULE MCOutbound ----------------------------
(* A primary delivery with a group copy, and one sent through the Official  *)
(* API, processed by one or two workers.                                    *)
EXTENDS Outbound, TLC

CONSTANTS w1, w2, p, c, q

MCWorkers == {w1, w2}
MCSymmetry == Permutations(MCWorkers)
MCCopyOf == (c :> p)
MCNoCopies == <<>>
=============================================================================
