----------------------------- MODULE MCProbeClient -----------------------------
(* Small instances of ProbeClient for TLC.                                  *)
EXTENDS ProbeClient, TLC

CONSTANTS i1, i2, i3

IdSymmetry == Permutations({i1, i2, i3})

(* Naming the places that stay selects what SelectSeq selects.              *)
ASSUME FilterIsSelect ==
    \A s \in UNION {[1 .. n -> 0 .. 2] : n \in 0 .. 4} :
        At(s, {i \in DOMAIN s : s[i] # 0}) = SelectSeq(s, LAMBDA x : x # 0)
================================================================================
