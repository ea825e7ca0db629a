--------------------------- MODULE MC_ShareSearch ---------------------------
EXTENDS ShareSearch

CONSTANTS a, b, e1, t1, t2, R1, R2, D1, F1, F2

\* Two roots; R1 holds the subdirectory D1 with the file F1, R2 the file F2.
\* Both files have the TTH t1; t2 is only a temp share.
MC_Roots == <<R1, R2>>
MC_Children == [d \in {R1, R2, D1} |-> IF d = R1 THEN <<D1>> ELSE <<>>]
MC_Files == [d \in {R1, R2, D1} |-> CASE d = D1 -> <<F1>> [] d = R2 -> <<F2>> [] OTHER -> <<>>]
MC_FileSize == [f \in {F1, F2} |-> IF f = F1 THEN 1 ELSE 2]
MC_FileTTH == [f \in {F1, F2} |-> t1]
MC_FileExt == [f \in {F1, F2} |-> IF f = F1 THEN e1 ELSE "none"]
MC_TempShares == <<[tth |-> t2, key |-> ""], [tth |-> t2, key |-> "other"], [tth |-> t1, key |-> ""]>>

\* Parameter sequences of up to two ADC search terms.
MC_ParamSet == {<<"AN", a>>, <<"AN", b>>, <<"NO", b>>, <<"EX", e1>>, <<"GE", 2>>,
                <<"TY", 1>>, <<"TY", 2>>, <<"TR", t1>>, <<"TR", t2>>}
MC_Params == BoundedSeq(MC_ParamSet, 2)

\* Virtual paths "/v/n/n" of up to three segments, "" for an empty segment
\* or a trailing '/', and <<>> for an empty or relative path.
MC_Paths == {<<>>} \cup {<<v>> \o s : v \in {"S", "T", ""}, s \in BoundedSeq({"x", "y", ""}, 2)}

\* Name endings: "song.mp3", "tune.669" (which RAR_regexp also matches),
\* "a.xm" (four characters), "readme".
MC_Endings == {[last3 |-> "mp3", ascii |-> TRUE, ends |-> {}, long |-> TRUE, rar |-> FALSE],
               [last3 |-> "669", ascii |-> TRUE, ends |-> {}, long |-> TRUE, rar |-> TRUE],
               [last3 |-> ".xm", ascii |-> TRUE, ends |-> {".xm"}, long |-> FALSE, rar |-> FALSE],
               [last3 |-> "dme", ascii |-> TRUE, ends |-> {}, long |-> TRUE, rar |-> FALSE]}

\* NMDC queries: '$' tokens of a and "", a size limit, a file type.
MC_NmdcQueries ==
    [tokens : BoundedSeq({a, ""}, 2), searchType : {"dontcare"}, size : {0},
     fileType : {"any", "audio", "compressed", "directory"}, tth : {NoTTH}, max : {1, 2}]
    \cup [tokens : {<<a>>}, searchType : {"atleast", "atmost"}, size : {2},
           fileType : {"any", "directory"}, tth : {NoTTH}, max : {2}]
    \cup [tokens : {<<>>}, searchType : {"dontcare"}, size : {0}, fileType : {"tth"},
           tth : {t1, t2, NoTTH}, max : {1}]
=============================================================================
