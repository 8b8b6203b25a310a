------------------------------ MODULE MCEvidence ------------------------------
(* Every file of up to three lines with every pair of symbols for the      *)
(* index build; two files for the diagnoses: in one a handle is truncated  *)
(* at the limit, the other begins with a line too long for a small limit.  *)
EXTENDS Evidence, TLC

MCLengths == {0, 1, 3}
MCFiles == UNION {[1..n -> MCLengths] : n \in 1..3}
MCRanges == {r \in [start : 1..4, end : 1..4] : r.start <= r.end}
MCInputs == [file : MCFiles, symbols : MCRanges \X MCRanges]
MCSymbols == <<[start |-> 1, end |-> 3], [start |-> 2, end |-> 2]>>
MCDiagnosed == [file : {<<1, 0, 3>>, <<3, 1, 0>>}, symbols : {MCSymbols}]

(* Two findings with a citation each, or one finding with two.             *)
MCGroupings == {<<1, 2>>, <<1, 1>>}

=============================================================================
