-------------------------- MODULE MC_AhoCorasick --------------------------
(***************************************************************************)
(* Instantiates AhoCorasick for TLC: two runes, every pattern of up to     *)
(* MCPatternLen runes (the empty pattern included) and every text of up to *)
(* MCTextLen runes.                                                        *)
(***************************************************************************)
EXTENDS AhoCorasick, TLC

CONSTANTS a, b, MCPatternLen, MCTextLen

MCSym   == {a, b}
MCWords == BoundedSeq(MCSym, MCPatternLen)
MCTexts == BoundedSeq(MCSym, MCTextLen)

\* Swapping the two runes maps behaviours to behaviours: every input set
\* and every property is closed under renaming runes.
RuneSymmetry == Permutations(MCSym)

=============================================================================
