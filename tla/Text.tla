-------------------------------- MODULE Text --------------------------------
(***************************************************************************)
(* The UTF-8 conversions of Text.cpp: utf8ToWc decodes one character,     *)
(* wcToUtf8 encodes one, utf8ToWide and wideToUtf8 loop over a string,     *)
(* sanitizeUtf8 chains the two loops and validateUtf8 reports whether      *)
(* utf8ToWc ever failed.  The two loops are modelled as step actions (one  *)
(* iteration per step, over the cursor i or j), the per-character codecs   *)
(* as pure operators.  Bytes are naturals 0..255; a wchar_t holds          *)
(* WcharBits bits (32 on Linux, 16 on Windows).  RFC 3629, which the code  *)
(* cites, is restated independently as the reference: its table of        *)
(* well-formed byte sequences, its encoding and its decoding.              *)
(***************************************************************************)
EXTENDS Integers, Sequences, SequencesExt

CONSTANTS
    Bytes,       \* the byte values an input string is built from
    MaxLen,      \* longest input byte string
    CodePoints,  \* the wchar_t values a wide input string is built from
    MaxWide,     \* longest wide input string
    ConvBytes,   \* the byte values a toUtf8 or fromUtf8 input is built from
    DOSChars,    \* the characters a toDOS input is built from (CR, LF, others)
    MaxDOS,      \* longest toDOS input
    WcharBits    \* width of wchar_t

\* The largest wchar_t value: unsigned 16 bits on Windows, signed 32 on Linux.
WcharMax == IF WcharBits = 16 THEN 65535 ELSE 2147483647

ASSUME WcharBits \in {16, 32} /\ Bytes \cup ConvBytes \subseteq 0..255 /\ CodePoints \subseteq 0..WcharMax

VARIABLES
    phase,  \* "idle", "decode" (utf8ToWide loop), "encode" (wideToUtf8 loop), "done"
    input,  \* the call: "bytes" (sanitizeUtf8), "wide" (wideToUtf8),
            \* "lower" (toLower), "dos" (toDOS), "acp" (acpToWide) or
            \* "convert" (toUtf8 or fromUtf8)
    str,    \* the UTF-8 input string
    i,      \* utf8ToWide's cursor into str
    tgt,    \* the wide string: utf8ToWide's result, wideToUtf8's input
    j,      \* wideToUtf8's cursor into tgt
    out,    \* wideToUtf8's result, or toLower's, toDOS's, convert's
    conv    \* convert's <<fromCharset, toCharset>>, <<>> for other calls

vars == <<phase, input, str, i, tgt, j, out, conv>>

\* The byte at 1-based position k; a std::string is followed by its NUL
\* terminator, the "sub-0x80-terminator" utf8ToWc relies on.
ByteAt(s, k) == IF k <= Len(s) THEN s[k] ELSE 0

\* Assignment to wchar_t keeps its low WcharBits bits; (char) its low 8.
\* utf8ToWc builds at most 21 bits, which never wrap a 32-bit wchar_t.
Wchar(x) == IF WcharBits = 16 THEN x % 65536 ELSE x
Char(x) == x % 256

\* The code's masks and shifts, in arithmetic: x & (2^n - 1) is x % 2^n, bit n
\* of x is Bit(x, n), x >> n is x \div 2^n, and an | of disjoint bits is +.
Bit(x, n) == (x \div 2^n) % 2

Invalid(c) == c > 1114111 \/ (c >= 55296 /\ c <= 57343)

(***************************************************************************)
(* utf8ToWc's loop over the continuation bytes 1..bytes-1 of the sequence  *)
(* starting at k, accumulating c; the result is <<return value, c>>.       *)
(***************************************************************************)
RECURSIVE Continue(_, _, _, _, _)
Continue(s, k, n, bytes, c) ==
    IF n = bytes
    THEN IF Invalid(c) THEN <<-bytes, 65533>> ELSE <<bytes, c>>
    ELSE LET ci == ByteAt(s, k + n) IN
         IF ci \div 64 # 2 THEN <<-n, c>>
         ELSE Continue(s, k, n + 1, bytes, Wchar(c * 64 + (ci % 64)))

\* A decoder that takes the low 6 bits of every lead byte.
Utf8ToWcLeadMask(s, k) ==
    LET c0 == ByteAt(s, k)
        bytes == 2 + Bit(c0, 5) + (IF (c0 \div 16) % 4 = 3 THEN 1 ELSE 0)
        checkBit == 2^(7 - bytes)
    IN  IF c0 \div 64 = 3
        THEN IF Bit(c0, 7 - bytes) = 1 THEN <<-1, 0>>
             ELSE Continue(s, k, 1, bytes, c0 % 64)
        ELSE IF Bit(c0, 7) = 0 THEN <<1, c0>> ELSE <<-1, 0>>

\* utf8ToWc(&s[k-1], c) with c initially 0: <<return value, c>>.
Utf8ToWc(s, k) ==
    LET c0 == ByteAt(s, k)
        bytes == 2 + Bit(c0, 5) + (IF (c0 \div 16) % 4 = 3 THEN 1 ELSE 0)
        checkBit == 2^(7 - bytes)
    IN  IF c0 \div 64 = 3
        THEN IF Bit(c0, 7 - bytes) = 1 THEN <<-1, 0>>
             ELSE Continue(s, k, 1, bytes, c0 % checkBit)
        ELSE IF Bit(c0, 7) = 0 THEN <<1, c0>> ELSE <<-1, 0>>

\* An encoder whose 3-byte range starts one code point late.
RECURSIVE WcToUtf8LateThree(_)
WcToUtf8LateThree(c) ==
    IF Invalid(c) THEN WcToUtf8LateThree(65533)
    ELSE IF c >= 65536
    THEN << Char(240 + c \div 262144), Char(128 + ((c \div 4096) % 64)),
            Char(128 + ((c \div 64) % 64)), Char(128 + (c % 64)) >>
    ELSE IF c > 2048
    THEN << Char(224 + c \div 4096), Char(128 + ((c \div 64) % 64)), Char(128 + (c % 64)) >>
    ELSE IF c >= 128
    THEN << Char(192 + c \div 64), Char(128 + (c % 64)) >>
    ELSE << Char(c) >>

\* The bytes wcToUtf8(c, str) appends to str.
RECURSIVE WcToUtf8(_)
WcToUtf8(c) ==
    IF Invalid(c) THEN WcToUtf8(65533)
    ELSE IF c >= 65536
    THEN << Char(240 + c \div 262144), Char(128 + ((c \div 4096) % 64)),
            Char(128 + ((c \div 64) % 64)), Char(128 + (c % 64)) >>
    ELSE IF c >= 2048
    THEN << Char(224 + c \div 4096), Char(128 + ((c \div 64) % 64)), Char(128 + (c % 64)) >>
    ELSE IF c >= 128
    THEN << Char(192 + c \div 64), Char(128 + (c % 64)) >>
    ELSE << Char(c) >>

\* validateUtf8's loop from 1-based position k.
RECURSIVE ValidateFrom(_, _)
ValidateFrom(s, k) ==
    IF k > Len(s) THEN TRUE
    ELSE LET x == Utf8ToWc(s, k)[1] IN x >= 0 /\ ValidateFrom(s, k + x)

ValidateUtf8(s) == ValidateFrom(s, 1)

(***************************************************************************)
(* toLower(const string&): each character utf8ToWc decodes is lowered     *)
(* and encoded again with wcToUtf8; where utf8ToWc fails, a '_' (95) is   *)
(* written and the |n| bytes it examined are skipped.                      *)
(***************************************************************************)

\* towlower in the locale Text::initialize installs from the environment
\* (setlocale(LC_ALL, "")); modelled for the C/POSIX locale an unset LANG
\* gives, where only A-Z are mapped.
TowLower(c) == IF c \in 65..90 THEN c + 32 ELSE c

\* mutant: a byte utf8ToWc rejects is copied through instead of '_'
RECURSIVE ToLowerRawByte(_, _)
ToLowerRawByte(s, k) ==
    IF k > Len(s) THEN <<>>
    ELSE LET x == Utf8ToWc(s, k) IN
         IF x[1] < 0 THEN <<s[k]>> \o ToLowerRawByte(s, k + 1)
         ELSE WcToUtf8(TowLower(x[2])) \o ToLowerRawByte(s, k + x[1])

\* the loop of toLower from the 1-based position k
RECURSIVE ToLowerFrom(_, _)
ToLowerFrom(s, k) ==
    IF k > Len(s) THEN <<>>
    ELSE LET x == Utf8ToWc(s, k) IN
         IF x[1] < 0 THEN <<95>> \o ToLowerFrom(s, k - x[1])
         ELSE WcToUtf8(TowLower(x[2])) \o ToLowerFrom(s, k + x[1])

ToLowerUtf8(s) == ToLowerFrom(s, 1)

(***************************************************************************)
(* toDOS(string) and toDOS(wstring), the same loop over char or wchar_t:  *)
(* a first CR not followed by LF gets an LF; then for i = 1 while          *)
(* i < size() - 1, with size() read again after every insert, a CR not    *)
(* followed by LF gets one after it and an LF not preceded by CR gets one *)
(* before it, the cursor then stepping over the inserted character.       *)
(***************************************************************************)
CR == 13
LF == 10

\* mutant: a CR gets an LF whether or not one follows
RECURSIVE DOSLoopNoLookahead(_, _)
DOSLoopNoLookahead(t, ix) ==
    IF ix >= Len(t) - 1 THEN t
    ELSE IF t[ix + 1] = CR THEN DOSLoopNoLookahead(InsertAt(t, ix + 2, LF), ix + 2)
    ELSE IF t[ix + 1] = LF /\ t[ix] # CR THEN DOSLoopNoLookahead(InsertAt(t, ix + 1, CR), ix + 2)
    ELSE DOSLoopNoLookahead(t, ix + 1)

\* the loop from the 0-based index ix: tmp[ix] is t[ix + 1]
RECURSIVE DOSLoop(_, _)
DOSLoop(t, ix) ==
    IF ix >= Len(t) - 1 THEN t
    ELSE IF t[ix + 1] = CR /\ t[ix + 2] # LF THEN DOSLoop(InsertAt(t, ix + 2, LF), ix + 2)
    ELSE IF t[ix + 1] = LF /\ t[ix] # CR THEN DOSLoop(InsertAt(t, ix + 1, CR), ix + 2)
    ELSE DOSLoop(t, ix + 1)

ToDOS(s) ==
    IF s = <<>> THEN <<>>
    ELSE LET t == IF s[1] = CR /\ (Len(s) = 1 \/ s[2] # LF) THEN InsertAt(s, 2, LF) ELSE s
         IN DOSLoop(t, 1)

(***************************************************************************)
(* RFC 3629, section 4: the well-formed UTF-8 byte sequences, and the      *)
(* code point a well-formed character stands for.                          *)
(***************************************************************************)
UTF8Tail == 128..191

\* Length of the well-formed character starting at k, or 0 if none does.
RFCCharLen(s, k) ==
    LET b(n) == ByteAt(s, k + n) IN
    CASE b(0) \in 0..127 /\ k <= Len(s)                          -> 1
      [] b(0) \in 194..223 /\ b(1) \in UTF8Tail                      -> 2
      [] b(0) = 224 /\ b(1) \in 160..191 /\ b(2) \in UTF8Tail        -> 3
      [] b(0) \in (225..236 \cup 238..239) /\ b(1) \in UTF8Tail /\ b(2) \in UTF8Tail -> 3
      [] b(0) = 237 /\ b(1) \in 128..159 /\ b(2) \in UTF8Tail        -> 3
      [] b(0) = 240 /\ b(1) \in 144..191 /\ b(2) \in UTF8Tail /\ b(3) \in UTF8Tail -> 4
      [] b(0) \in 241..243 /\ {b(1), b(2), b(3)} \subseteq UTF8Tail -> 4
      [] b(0) = 244 /\ b(1) \in 128..143 /\ b(2) \in UTF8Tail /\ b(3) \in UTF8Tail -> 4
      [] OTHER                                                   -> 0

RECURSIVE WellFormedFrom(_, _)
WellFormedFrom(s, k) ==
    k > Len(s) \/ (RFCCharLen(s, k) > 0 /\ WellFormedFrom(s, k + RFCCharLen(s, k)))

WellFormed(s) == WellFormedFrom(s, 1)

\* The code point of the well-formed character at k: the lead byte less its
\* length marker, then six bits per continuation byte.
RFCCodePoint(s, k) ==
    LET n == RFCCharLen(s, k)
        lead == ByteAt(s, k) - (CASE n = 1 -> 0 [] n = 2 -> 192 [] n = 3 -> 224 [] OTHER -> 240)
    IN  FoldLeft(LAMBDA acc, m : acc * 64 + (ByteAt(s, k + m) - 128), lead, [m \in 1..(n - 1) |-> m])

RECURSIVE RFCDecodeFrom(_, _)
RFCDecodeFrom(s, k) ==
    IF k > Len(s) THEN <<>>
    ELSE <<RFCCodePoint(s, k)>> \o RFCDecodeFrom(s, k + RFCCharLen(s, k))

\* The RFC 3629 encoding of a Unicode scalar value.
RFCEncode(c) ==
    CASE c < 128   -> <<c>>
      [] c < 2048  -> <<192 + (c \div 64), 128 + (c % 64)>>
      [] c < 65536 -> <<224 + (c \div 4096), 128 + ((c \div 64) % 64), 128 + (c % 64)>>
      [] OTHER     -> <<240 + (c \div 262144), 128 + ((c \div 4096) % 64),
                        128 + ((c \div 64) % 64), 128 + (c % 64)>>

\* What a wide character stands for: itself if a scalar value, else U+FFFD.
Scalar(c) == IF Invalid(c) THEN 65533 ELSE c

(***************************************************************************)
(* The conversions through the C library in the non-Windows build.        *)
(* acpToWide decodes with mbrtowc in the locale initialize() selects with *)
(* setlocale(LC_ALL, ""), a UTF-8 one here; toUtf8 and fromUtf8 call      *)
(* convert, a loop over iconv.  glibc's UTF-8 codec, like RFC 3629,       *)
(* rejects overlong forms, surrogates and values above 10FFFF, so the     *)
(* RFC operators above stand for it.                                      *)
(***************************************************************************)
Utf8 == "utf-8"
Latin1 == "iso-8859-1"
Ucs4 == "ucs-4"
Unknown == "x-unknown"      \* a charset name iconv_open rejects

\* mbrtowc(&wc, src, n, NULL) at position k: 0 at a NUL, the length of a
\* well-formed character, else -1.  n counts the terminator, so a
\* character cut off by the end is followed by a NUL byte and is invalid:
\* (size_t)-2 never comes back.
MbrtowcLen(s, k) ==
    IF ByteAt(s, k) = 0 THEN 0
    ELSE IF RFCCharLen(s, k) > 0 THEN RFCCharLen(s, k) ELSE -1

\* mutant: a converted character advances src by one byte
RECURSIVE AcpToWideByteStep(_, _)
AcpToWideByteStep(s, k) ==
    LET rv == MbrtowcLen(s, k) IN
    CASE rv = 0  -> <<>>
      [] rv = -1 -> <<95>> \o AcpToWideByteStep(s, k + 1)
      [] OTHER   -> <<RFCCodePoint(s, k)>> \o AcpToWideByteStep(s, k + 1)

\* acpToWide's mbrtowc loop from position k: a NUL ends it, a rejected
\* byte becomes '_' and is skipped, a character is appended.
RECURSIVE AcpToWideFrom(_, _)
AcpToWideFrom(s, k) ==
    LET rv == MbrtowcLen(s, k) IN
    CASE rv = 0  -> <<>>
      [] rv = -1 -> <<95>> \o AcpToWideFrom(s, k + 1)
      [] OTHER   -> <<RFCCodePoint(s, k)>> \o AcpToWideFrom(s, k + rv)

\* iconv's view of a charset: the character at k as <<bytes read, code
\* point>> (0 bytes where none is well-formed), and the bytes a code point
\* takes (<<>> where the charset has none for it).  UCS-4 is big-endian.
Decode(cs, s, k) ==
    IF cs = Latin1 THEN <<1, s[k]>> ELSE <<RFCCharLen(s, k), RFCCodePoint(s, k)>>

Encode(cs, cp) ==
    CASE cs = Utf8   -> RFCEncode(cp)
      [] cs = Latin1 -> IF cp < 256 THEN <<cp>> ELSE <<>>
      [] OTHER       -> <<cp \div 16777216, (cp \div 65536) % 256, (cp \div 256) % 256, cp % 256>>

\* A UTF-8 character that the end of the input cuts short at k.
Truncated(cs, s, k) ==
    /\ cs = Utf8 /\ RFCCharLen(s, k) = 0
    /\ \E b \in {128, 144, 160} : RFCCharLen(s \o <<b, b, b>>, k) > Len(s) - k + 1

\* F applied to the value of v, computed once: v is bound like a quantified
\* variable, where a LET definition or an argument would be evaluated anew
\* at every use when TLC profiles coverage.
With(v, F(_)) == CHOOSE y \in {F(x) : x \in {v}} : TRUE

(* iconv(cd, &inbuf, &inleft, &outbuf, &outleft) from input position k   *)
(* with room bytes of output left: it converts character by character    *)
(* and stops at the first one that is incomplete at the end (EINVAL),     *)
(* invalid or unrepresentable (EILSEQ) or larger than the room (E2BIG).   *)
RECURSIVE Iconv(_, _, _, _, _, _)
Iconv(from, to, s, k, room, acc) ==
    IF k > Len(s) THEN [in |-> k, out |-> acc, err |-> "none"]
    ELSE With(<<Decode(from, s, k), Truncated(from, s, k)>>, LAMBDA dt :
         With(Encode(to, dt[1][2]), LAMBDA e :
         CASE dt[2]                     -> [in |-> k, out |-> acc, err |-> "EINVAL"]
           [] dt[1][1] = 0 \/ e = <<>>  -> [in |-> k, out |-> acc, err |-> "EILSEQ"]
           [] Len(e) > room             -> [in |-> k, out |-> acc, err |-> "E2BIG"]
           [] OTHER -> Iconv(from, to, s, k + dt[1][1], room - Len(e), acc \o e)))

\* the buffer tmp with o written at outbuf = tmp.data() + used
Write(tmp, used, o) ==
    [x \in 1..Len(tmp) |-> IF x > used /\ x <= used + Len(o) THEN o[x - used] ELSE tmp[x]]

Zeros(n) == [x \in 1..n |-> 0]

\* tmp[used] = '_'; at used = len this writes the terminator's slot, which
\* the string's contents do not include.
Underscore(tmp, used) == IF used < Len(tmp) THEN [tmp EXCEPT ![used + 1] = 95] ELSE tmp

\* tmp.replace(used, inleft, string(inleft, '_'))
Replace(tmp, used, inleft) ==
    LET cut == IF inleft < Len(tmp) - used THEN inleft ELSE Len(tmp) - used
    IN  SubSeq(tmp, 1, used) \o [x \in 1..inleft |-> 95] \o SubSeq(tmp, used + cut + 1, Len(tmp))

\* mutant: after E2BIG, writing resumes at the start of the grown buffer
RECURSIVE ConvertLoopRestart(_, _, _, _, _, _, _)
ConvertLoopRestart(from, to, s, k, tmp, used, len) ==
    IF k > Len(s) THEN <<tmp, len, len - used>>
    ELSE With(Iconv(from, to, s, k, len - used, <<>>), LAMBDA r :
         With(<<Write(tmp, used, r.out) \o <<>>, used + Len(r.out)>>, LAMBDA tu :
         LET t == tu[1]
             u == tu[2]
         IN  CASE r.err = "none"   -> <<t, len, len - u>>
               [] r.err = "E2BIG"  -> ConvertLoopRestart(from, to, s, r.in, t \o Zeros(len), 0, 2 * len)
               [] r.err = "EILSEQ" -> ConvertLoopRestart(from, to, s, r.in + 1, Underscore(t, u), u, len)
               [] OTHER            -> <<Replace(t, u, Len(s) - r.in + 1), len, len - u>>))

(* convert's loop while inleft > 0, inbuf at position k, outbuf at used  *)
(* in the buffer tmp of len bytes (outleft is len - used throughout).    *)
(* E2BIG doubles the buffer and resumes at used; EILSEQ skips one byte   *)
(* and writes '_' where outbuf stands without advancing it; any other    *)
(* error writes a '_' per byte left and ends.  Result: <<tmp, len,       *)
(* outleft>>.                                                            *)
RECURSIVE ConvertLoop(_, _, _, _, _, _, _)
ConvertLoop(from, to, s, k, tmp, used, len) ==
    IF k > Len(s) THEN <<tmp, len, len - used>>
    ELSE With(Iconv(from, to, s, k, len - used, <<>>), LAMBDA r :
         With(<<Write(tmp, used, r.out) \o <<>>, used + Len(r.out)>>, LAMBDA tu :
         LET t == tu[1]
             u == tu[2]
         IN  CASE r.err = "none"   -> <<t, len, len - u>>
               [] r.err = "E2BIG"  -> ConvertLoop(from, to, s, r.in, t \o Zeros(len), u, 2 * len)
               [] r.err = "EILSEQ" -> ConvertLoop(from, to, s, r.in + 1, Underscore(t, u), u, len)
               [] OTHER            -> <<Replace(t, u, Len(s) - r.in + 1), len, len - u>>))

\* convert(str, fromCharset, toCharset): a buffer of twice the input's
\* length, cut to len - outleft at the end if outleft > 0.
Convert(from, to, s) ==
    IF s = <<>> THEN s
    ELSE IF Unknown \in {from, to} THEN <<>>
    ELSE With(ConvertLoop(from, to, s, 1, Zeros(2 * Len(s)), 0, 2 * Len(s)), LAMBDA r :
              IF r[3] > 0 THEN SubSeq(r[1], 1, r[2] - r[3]) ELSE r[1])

(***************************************************************************)
(* Calls.  sanitizeUtf8(str) runs utf8ToWide's loop, then wideToUtf8's;   *)
(* wideToUtf8 is also called on its own with a wide string (file names     *)
(* and paths from the Windows API).  The empty-string early returns give   *)
(* the same result as the loops and are not separate cases.                *)
(***************************************************************************)
SanitizeUtf8(s) ==
    /\ phase = "idle"
    /\ phase' = "decode" /\ input' = "bytes"
    /\ str' = s /\ i' = 0 /\ tgt' = <<>> /\ j' = 0 /\ out' = <<>> /\ conv' = <<>>

WideToUtf8(w) ==
    /\ phase = "idle"
    /\ phase' = "encode" /\ input' = "wide"
    /\ str' = <<>> /\ i' = 0 /\ tgt' = w /\ j' = 0 /\ out' = <<>> /\ conv' = <<>>

\* toLower(str) and toDOS(str) return at once, as operators
ToLower(s) ==
    /\ phase = "idle"
    /\ phase' = "done" /\ input' = "lower"
    /\ str' = s /\ i' = 0 /\ tgt' = <<>> /\ j' = 0 /\ out' = ToLowerUtf8(s)
    /\ conv' = <<>>

ToDOSCall(s) ==
    /\ phase = "idle"
    /\ phase' = "done" /\ input' = "dos"
    /\ str' = s /\ i' = 0 /\ tgt' = <<>> /\ j' = 0 /\ out' = ToDOS(s)
    /\ conv' = <<>>

\* acpToWide(str, fromCharset) returns at once; the empty string's early
\* return gives what the loop gives.
AcpToWide(s) ==
    /\ phase = "idle"
    /\ phase' = "done" /\ input' = "acp"
    /\ str' = s /\ i' = 0 /\ tgt' = AcpToWideFrom(s, 1) /\ j' = 0 /\ out' = <<>>
    /\ conv' = <<>>

\* toUtf8(str, fromCharset) and fromUtf8(str, toCharset): convert from or
\* to UTF-8 after the empty-string early return.
ConvertCall(s, from, to) ==
    /\ phase = "idle"
    /\ phase' = "done" /\ input' = "convert"
    /\ str' = s /\ i' = 0 /\ tgt' = <<>> /\ j' = 0
    /\ out' = IF s = <<>> THEN s ELSE Convert(from, to, s)
    /\ conv' = <<from, to>>

ToUtf8(s, fromCharset) == ConvertCall(s, fromCharset, Utf8)

FromUtf8(s, toCharset) == ConvertCall(s, Utf8, toCharset)

\* utf8ToWide's loop body, skipping |x| bytes but advancing by x.
Utf8ToWideStepNoAbs ==
    /\ phase = "decode" /\ i < Len(str)
    /\ LET x == Utf8ToWc(str, i + 1) IN
       IF x[1] < 0 THEN tgt' = Append(tgt, 95) /\ i' = i + x[1]
                   ELSE tgt' = Append(tgt, x[2]) /\ i' = i + x[1]
    /\ UNCHANGED <<phase, input, str, j, out, conv>>

\* utf8ToWide's loop body: a failed character becomes '_' (95) and the
\* cursor skips the bytes utf8ToWc examined.
Utf8ToWideStep ==
    /\ phase = "decode" /\ i < Len(str)
    /\ LET x == Utf8ToWc(str, i + 1) IN
       IF x[1] < 0 THEN tgt' = Append(tgt, 95) /\ i' = i - x[1]
                   ELSE tgt' = Append(tgt, x[2]) /\ i' = i + x[1]
    /\ UNCHANGED <<phase, input, str, j, out, conv>>

\* utf8ToWide returns; sanitizeUtf8 hands the result to wideToUtf8.
Utf8ToWideEnd ==
    /\ phase = "decode" /\ i >= Len(str)
    /\ phase' = "encode" /\ j' = 0 /\ out' = <<>>
    /\ UNCHANGED <<input, str, i, tgt, conv>>

\* wideToUtf8's loop body.
WideToUtf8Step ==
    /\ phase = "encode" /\ j < Len(tgt)
    /\ out' = out \o WcToUtf8(tgt[j + 1])
    /\ j' = j + 1
    /\ UNCHANGED <<phase, input, str, i, tgt, conv>>

WideToUtf8End ==
    /\ phase = "encode" /\ j >= Len(tgt)
    /\ phase' = "done"
    /\ UNCHANGED <<input, str, i, tgt, j, out, conv>>

\* The caller takes the result; the next call starts afresh.
Return ==
    /\ phase = "done"
    /\ phase' = "idle" /\ input' = "bytes"
    /\ str' = <<>> /\ i' = 0 /\ tgt' = <<>> /\ j' = 0 /\ out' = <<>> /\ conv' = <<>>

\* The strings a call may be given (the call's guard is repeated in Next so
\* that they are enumerated only when no call is in progress).
Utf8Inputs == BoundedSeq(Bytes, MaxLen)
WideInputs == BoundedSeq(CodePoints, MaxWide)
DOSInputs == BoundedSeq(DOSChars, MaxDOS)
ConvInputs == BoundedSeq(ConvBytes, MaxLen)

Init ==
    /\ phase = "idle" /\ input = "bytes"
    /\ str = <<>> /\ i = 0 /\ tgt = <<>> /\ j = 0 /\ out = <<>> /\ conv = <<>>

Next ==
    \/ phase = "idle" /\ \E s \in ConvInputs, cs \in {Latin1, Utf8, Unknown} : ToUtf8(s, cs)
    \/ phase = "idle" /\ \E s \in ConvInputs, cs \in {Latin1, Ucs4, Utf8} : FromUtf8(s, cs)
    \/ phase = "idle" /\ \E s \in Utf8Inputs : SanitizeUtf8(s)
    \/ phase = "idle" /\ \E w \in WideInputs : WideToUtf8(w)
    \/ phase = "idle" /\ \E s \in Utf8Inputs : ToLower(s)
    \/ phase = "idle" /\ \E s \in DOSInputs : ToDOSCall(s)
    \/ phase = "idle" /\ \E s \in Utf8Inputs : AcpToWide(s)
    \/ Utf8ToWideStep \/ Utf8ToWideEnd
    \/ WideToUtf8Step \/ WideToUtf8End
    \/ Return

Spec == Init /\ [][Next]_vars

(***************************************************************************)
(* Properties.                                                             *)
(***************************************************************************)
TypeOK ==
    /\ phase \in {"idle", "decode", "encode", "done"}
    /\ input \in {"bytes", "wide", "lower", "dos", "acp", "convert"}
    /\ str \in Seq(0..255) /\ i \in 0..(Len(str) + 3)
    /\ tgt \in Seq(0..WcharMax) /\ j \in 0..Len(tgt)
    /\ out \in Seq(0..255)
    /\ conv \in {<<>>} \cup ({Utf8, Latin1, Ucs4, Unknown} \X {Utf8, Latin1, Ucs4})

\* wideToUtf8 (and so sanitizeUtf8) writes, for every wide character, the
\* RFC 3629 encoding of the scalar value it stands for, invalid ones
\* replaced by U+FFFD: wcToUtf8's range boundaries, shifts and masks agree
\* with the RFC's table for every code point.
EncoderMatchesRFC ==
    (phase = "done" /\ input \in {"bytes", "wide"}) =>
        out = FlattenSeq([k \in 1..Len(tgt) |-> RFCEncode(Scalar(tgt[k]))])

\* utf8ToWide decodes every well-formed UTF-8 string to the code points
\* RFC 3629 gives it, one wide character per encoded character: utf8ToWc's
\* lead-byte masks, continuation loop and cursor advance are right.
DecoderMatchesRFC ==
    (phase \in {"encode", "done"} /\ input = "bytes" /\ WellFormed(str))
        => tgt = RFCDecodeFrom(str, 1)

\* validateUtf8 accepts exactly the strings RFC 3629 calls well-formed, the
\* RFC wcToUtf8's comment cites; utf8ToWc's checks are all it applies.
ValidateMatchesRFC ==
    input = "bytes" => (ValidateUtf8(str) <=> WellFormed(str))

\* What toLower should give: the RFC decoding, lowered, encoded again.
LoweredRFC(s) == FlattenSeq([k \in 1..Len(RFCDecodeFrom(s, 1)) |->
                              RFCEncode(TowLower(RFCDecodeFrom(s, 1)[k]))])

(* toLower always returns well-formed UTF-8, whatever bytes it is given   *)
(* (file names from disk, search strings from other users), and on a     *)
(* well-formed string changes nothing but the case: every rejected        *)
(* sequence becomes '_' and the cursor skips exactly what utf8ToWc read.  *)
ToLowerMatchesRFC ==
    (phase = "done" /\ input = "lower") =>
        /\ WellFormed(out)
        /\ WellFormed(str) => out = LoweredRFC(str)

\* Text in DOS form: every CR is followed by LF and every LF follows a CR.
IsDOS(s) ==
    /\ \A k \in 1..Len(s) : s[k] = CR => k < Len(s) /\ s[k + 1] = LF
    /\ \A k \in 1..Len(s) : s[k] = LF => k > 1 /\ s[k - 1] = CR

(* toDOS leaves text already in DOS form as it is, and a second toDOS    *)
(* changes nothing: the look-ahead and look-behind checks keep existing  *)
(* CR LF pairs whole and the cursor never revisits an inserted character.*)
DOSConversionStable ==
    (phase = "done" /\ input = "dos") =>
        /\ IsDOS(str) => out = str
        /\ ToDOS(out) = out

(* toDOS turns every line ending into CR LF (Mac CR and Unix LF alike).   *)
DOSConvertsAll == (phase = "done" /\ input = "dos") => IsDOS(out)

(* acpToWide, in a UTF-8 locale, decodes a well-formed string without    *)
(* NULs to the code points RFC 3629 gives it, and a string with a byte   *)
(* mbrtowc rejects comes back with a '_' for it: src and n move together *)
(* by what mbrtowc consumed.                                             *)
AcpToWideMatchesRFC ==
    (phase = "done" /\ input = "acp" /\ 0 \notin Range(str)) =>
        /\ WellFormed(str) => tgt = RFCDecodeFrom(str, 1)
        /\ ~WellFormed(str) => 95 \in Range(tgt)

\* The characters of s in charset cs, as RFC 3629 or Latin-1 reads them.
RefChars(cs, s) == IF cs = Latin1 THEN s ELSE RFCDecodeFrom(s, 1)

\* Every character of s is well-formed in from and has bytes in to.
Convertible(from, to, s) ==
    /\ Unknown \notin {from, to}
    /\ from = Latin1 \/ WellFormed(s)
    /\ \A k \in 1..Len(RefChars(from, s)) : Encode(to, RefChars(from, s)[k]) # <<>>

(* convert writes every character of a convertible string, in order and  *)
(* nothing else, however often iconv ran out of room and the buffer was  *)
(* doubled (fromUtf8 to UCS-4 quadruples ASCII); a Latin-1 string that  *)
(* toUtf8 converted comes back unchanged through fromUtf8.               *)
ConvertComplete ==
    (phase = "done" /\ input = "convert" /\ Convertible(conv[1], conv[2], str)) =>
        /\ out = FlattenSeq([k \in 1..Len(RefChars(conv[1], str)) |->
                              Encode(conv[2], RefChars(conv[1], str)[k])])
        /\ conv = <<Latin1, Utf8>> => Convert(Utf8, Latin1, out) = str

(* convert leaves a '_' in the result for input it cannot convert, as     *)
(* the EILSEQ branch's tmp[used] = '_' and the other branch's replace    *)
(* intend.                                                               *)
ConvertMarksInvalid ==
    (phase = "done" /\ input = "convert" /\ Unknown \notin {conv[1], conv[2]}
        /\ ~Convertible(conv[1], conv[2], str)) => 95 \in Range(out)
=============================================================================
