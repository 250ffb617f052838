---------------------------- MODULE MCDiffReview ----------------------------
(* Instances of DiffReview for TLC.                                        *)
EXTENDS DiffReview

CONSTANTS a, b, w1, w2, d1, d2

(* Between <<a, a, b>> and <<b, a, a, Blank>> there are two hunks, and a    *)
(* careless diff finds a longer way.  The other texts are what is left     *)
(* when some of the hunks are accepted, and an empty file.                 *)
MCDisk == {<<a, a, b>>}
MCContents == {<<b, a, a, Blank>>}
MCTexts == MCDisk \cup MCContents \cup
           {<<>>, <<a, a, Blank>>, <<b, a, a, b>>}
=============================================================================
