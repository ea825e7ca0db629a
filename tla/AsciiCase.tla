------------------------------ MODULE AsciiCase ------------------------------
(***************************************************************************)
(* Text::toLower(string) of src/airdcpp/Text.cpp on ASCII text, the only   *)
(* text the magnet and path models use: each character goes through        *)
(* towlower, which in the C locale lowers A-Z and leaves the rest.  The    *)
(* full UTF-8 loop is modelled in Text.tla.                                *)
(***************************************************************************)
EXTENDS Naturals, Sequences

Upper == "ABCDEFGHIJKLMNOPQRSTUVWXYZ"
LowerCase == "abcdefghijklmnopqrstuvwxyz"
CharAt(s, k) == SubSeq(s, k, k)

\* the lower-case letter of each upper-case one
LowerOf == [c \in {CharAt(Upper, k) : k \in 1..26} |->
              CharAt(LowerCase, CHOOSE k \in 1..26 : CharAt(Upper, k) = c)]

CharToLower(c) == IF c \in DOMAIN LowerOf THEN LowerOf[c] ELSE c

RECURSIVE StrToLower(_)
StrToLower(s) == IF s = "" THEN "" ELSE CharToLower(CharAt(s, 1)) \o StrToLower(SubSeq(s, 2, Len(s)))
=============================================================================
