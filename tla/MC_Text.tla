------------------------------- MODULE MC_Text -------------------------------
EXTENDS Magnet

\* One byte of each class utf8ToWc and RFC 3629 tell apart: NUL, ASCII,
\* continuation bytes at the edges of the RFC's second-byte ranges, the
\* never-valid leads C0 and F8, and the leads whose second byte the RFC
\* restricts (E0, ED, F0, F4) next to an unrestricted one (C2).
MC_Bytes == {0, 65, 128, 144, 160, 191, 192, 194, 224, 237, 240, 244, 248}

\* Code points at every boundary of wcToUtf8's ranges and of validity.
MC_CodePoints == {0, 127, 128, 2047, 2048, 55295, 55296, 57343, 57344,
                  65535, 65536, 1114111, 1114112, 2147483647}
\* Magnet: two valid TTHs, one 39-character string that is not base32, a
\* 38-character one, and a SHA-1 for the bitprint form.
MC_H1 == "AAAAAAAAAAAAAAAAAAAAAAAAAAAAAAAAAAAAAAA"
MC_H2 == "BCDEFGHIJKLMNOPQRSTUVWXYZ234567BCDEFGHI"
MC_HX == "0000000000000000000000000000000000000A1"
MC_H38 == "AAAAAAAAAAAAAAAAAAAAAAAAAAAAAAAAAAAAAA"
MC_SHA1 == "CCCCCCCCCCCCCCCCCCCCCCCCCCCCCCCC"
Tok(k, v) == [key |-> k, eq |-> TRUE, val |-> v]
Bare(k) == [key |-> k, eq |-> FALSE, val |-> ""]
MC_HashSet == {MC_H1, MC_H2}

\* Tokens reaching every branch of the loop: each URN form, an upper-case
\* key and prefix, a hash under dn, a near-miss length, names, lengths
\* (valid, -1, none) and keys without '='.
MC_Tokens == {
    Tok("xt", "urn:tree:tiger:" \o MC_H1),
    Tok("XT", "URN:TREE:TIGER:" \o MC_H2),
    Tok("xs", "urn:bitprint:" \o MC_SHA1 \o "." \o MC_H2),
    Tok("as", "urn:tree:tiger/1024:" \o MC_H1),
    Tok("xt", "urn:tree:tiger/:" \o MC_HX),
    Tok("xt", "urn:tree:tiger:" \o MC_H38),
    Tok("dn", "urn:tree:tiger:" \o MC_H2),
    Tok("dn", "a.txt"),
    Tok("Dn", "b.txt"),
    Tok("xl", "2"),
    Tok("xl", "-1"),
    Bare("dn"),
    Bare("XL")}
=============================================================================
