----------------------------- MODULE Stripping -----------------------------
(***************************************************************************)
(* Taking separators out of a text, byte by byte as stripSeparators of     *)
(* internal/schema/pan.go does, and as the Replacer in normalize of        *)
(* internal/recon/matcher.go does with the runes of an identifier.         *)
(***************************************************************************)
EXTENDS Integers, Sequences

Strip(s, removed) ==
    LET kept[i \in 0..Len(s)] ==
        IF i = 0 THEN << >>
        ELSE IF s[i] \in removed THEN kept[i - 1] ELSE Append(kept[i - 1], s[i])
    IN  kept[Len(s)]
=============================================================================
