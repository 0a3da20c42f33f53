----------------------------- MODULE FileRegister -----------------------------
(***************************************************************************)
(* What a file of the store promises its readers: at any time it holds a   *)
(* whole value or does not exist, and changes in single steps.  Once two   *)
(* writes of the file overlap, nothing is promised any more.               *)
(***************************************************************************)
CONSTANTS Values, NoFile, Unknown

VARIABLE value

Init == value \in Values \cup {NoFile}

Replace == value' \in Values
Remove == value' = NoFile
Overlap == value' = Unknown

Next == value # Unknown /\ (Replace \/ Remove \/ Overlap)

Spec == Init /\ [][Next]_value
=============================================================================
