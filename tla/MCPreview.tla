----------------------------- MODULE MCPreview -----------------------------
(* Two contents that render alike, one that does not, and a bad one. *)
EXTENDS Preview

MCGood == {"a", "b", "c"}
MCBad == {"bad"}
MCRendering == [c \in MCGood |-> IF c = "c" THEN "html2" ELSE "html1"]

=============================================================================
