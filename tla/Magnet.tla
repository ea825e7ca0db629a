------------------------------- MODULE Magnet -------------------------------
(***************************************************************************)
(* Magnet links, src/airdcpp/core/classes/Magnet.cpp: the constructor     *)
(* Magnet(aLink) splits the link after its first 8 characters ("magnet:?") *)
(* at '&', takes each token apart at its first '=', keeps the last TTH of  *)
(* each type from the four URN forms, the display name (dn) and the exact  *)
(* length (xl), and picks the most authoritative hash (xt, xs, as);        *)
(* parseMagnet accepts the result only with a name, a length and a        *)
(* 39-character base32 hash; makeMagnet writes a link.                    *)
(*                                                                         *)
(* A token is a record [key, eq, val]: the text before the first '=', if  *)
(* there is one, and the text after it; it stands for key \o "=" \o val,  *)
(* or for key alone.  Tokens are given after LinkUtil::encodeURI(.., true) *)
(* (percent-decoding), which is not in the source tree; file names are    *)
(* chosen without characters encodeURI escapes.  Strings are TLA+ strings *)
(* with their real lengths; hashes are 39 base32 characters.               *)
(***************************************************************************)
EXTENDS Text, AsciiCase

CONSTANTS
    Tokens,     \* the tokens a link is built from
    MaxTokens,  \* the most tokens in a link
    Hashes,     \* TTHValue::toBase32 of the hashes makeMagnet is given
    FileNames,  \* file names makeMagnet is given
    MaxSize     \* the largest size makeMagnet is given

None == [none |-> TRUE]

Links == BoundedSeq(Tokens, MaxTokens)

VARIABLE magnet  \* <<aLink>> while Magnet(aLink) is read, <<>> otherwise

allVars == <<vars, magnet>>

-----------------------------------------------------------------------------
(* Util::strnicmp(a, b, n) compares the first n characters, lowered as  *)
(* Text::toLower lowers ASCII.                                             *)
Strnicmp(a, b, n) == StrToLower(SubSeq(a, 1, n)) = StrToLower(SubSeq(b, 1, n))

\* Encoder::isBase32: every character is in the base32 alphabet, either case
Base32Chars == "ABCDEFGHIJKLMNOPQRSTUVWXYZ234567"
IsBase32(s) == \A k \in 1..Len(s) : \E x \in 1..32 : CharToLower(CharAt(Base32Chars, x)) = CharToLower(CharAt(s, k))

\* Util::toInt64 (strtoll): the number a string starts with, 0 if none
ToInt64(s) == IF \E n \in -1..MaxSize : ToString(n) = s
              THEN CHOOSE n \in -1..MaxSize : ToString(n) = s ELSE 0

-----------------------------------------------------------------------------
(* The constructor's loop *)

(* The TTH of a param in one of the four URN forms the code recognises,  *)
(* each identified by its exact length and a case-insensitive prefix;    *)
(* empty for anything else.  substr(46) of a bitprint skips the prefix and *)
(* the 32-character SHA-1 with its '.'.                                  *)
UrnHash(param) ==
    CASE Len(param) = 85 /\ Strnicmp(param, "urn:bitprint:", 13)        -> SubSeq(param, 47, 85)
      [] Len(param) = 54 /\ Strnicmp(param, "urn:tree:tiger:", 15)      -> SubSeq(param, 16, 54)
      [] Len(param) = 55 /\ Strnicmp(param, "urn:tree:tiger/:", 16)     -> SubSeq(param, 17, 55)
      [] Len(param) = 59 /\ Strnicmp(param, "urn:tree:tiger/1024:", 20) -> SubSeq(param, 21, 59)
      [] OTHER -> ""

\* the members fname, fsize and the local map hashes before the first token
Empty == [fname |-> "", fsize |-> -1, hashes |-> <<>>]

\* mutant: hashes.emplace(type, ..) keeps the first hash of a type
TokenFirstHashWins(m, tok) ==
    LET type  == IF tok.eq THEN StrToLower(tok.key) ELSE tok.key
        param == IF tok.eq THEN tok.val ELSE ""
        h     == UrnHash(param)
    IN  CASE h # "" -> [m EXCEPT !.hashes = @ @@ (type :> h)]
          [] Len(type) = 2 /\ Strnicmp(type, "dn", 2) -> [m EXCEPT !.fname = param]
          [] Len(type) = 2 /\ Strnicmp(type, "xl", 2) -> [m EXCEPT !.fsize = ToInt64(param)]
          [] OTHER -> m

(* One iteration: type is the lower-cased key (the whole token, not       *)
(* lowered, without '='), param the value or empty; a URN param sets      *)
(* hashes[type], else a type of dn sets the name and xl the length.       *)
Token(m, tok) ==
    LET type  == IF tok.eq THEN StrToLower(tok.key) ELSE tok.key
        param == IF tok.eq THEN tok.val ELSE ""
        h     == UrnHash(param)
    IN  CASE h # "" -> [m EXCEPT !.hashes = (type :> h) @@ @]
          [] Len(type) = 2 /\ Strnicmp(type, "dn", 2) -> [m EXCEPT !.fname = param]
          [] Len(type) = 2 /\ Strnicmp(type, "xl", 2) -> [m EXCEPT !.fsize = ToInt64(param)]
          [] OTHER -> m

\* the most authoritative hash: xt, else xs, else as, else empty
PickHash(hashes) ==
    CASE "xt" \in DOMAIN hashes -> hashes["xt"]
      [] "xs" \in DOMAIN hashes -> hashes["xs"]
      [] "as" \in DOMAIN hashes -> hashes["as"]
      [] OTHER -> ""

\* Magnet(aLink) on a link of at least 8 characters with these tokens
Magnet(link) ==
    LET m == FoldLeft(Token, Empty, link)
    IN  [fname |-> m.fname, fsize |-> m.fsize, hash |-> PickHash(m.hashes)]

\* parseMagnet: nullopt without a name, a length or a hash, or for a hash
\* that is not 39 base32 characters
ParseMagnet(link) ==
    LET m == Magnet(link)
    IN  IF m.fname = "" \/ m.fsize = -1 \/ m.hash = "" THEN None
        ELSE IF Len(m.hash) # 39 \/ ~IsBase32(m.hash) THEN None
        ELSE m

\* makeMagnet: xt with the tree:tiger URN, xl only for a positive size, dn
MakeMagnet(h, f, s) ==
    << [key |-> "xt", eq |-> TRUE, val |-> "urn:tree:tiger:" \o h] >>
    \o (IF s > 0 THEN << [key |-> "xl", eq |-> TRUE, val |-> ToString(s)] >> ELSE <<>>)
    \o << [key |-> "dn", eq |-> TRUE, val |-> f] >>
-----------------------------------------------------------------------------
(* Magnet(aLink) is one more call of the utility layer, made while no    *)
(* Text call is in progress; it returns at once.                         *)
MagnetCall(link) ==
    /\ phase = "idle" /\ magnet = <<>>
    /\ magnet' = <<link>>
    /\ UNCHANGED vars

MagnetReturn ==
    /\ magnet # <<>>
    /\ magnet' = <<>>
    /\ UNCHANGED vars

MagnetInit == Init /\ magnet = <<>>

MagnetNext ==
    \/ magnet = <<>> /\ Next /\ UNCHANGED magnet
    \/ phase = "idle" /\ magnet = <<>> /\ \E link \in Links : MagnetCall(link)
    \/ MagnetReturn

MagnetSpec == MagnetInit /\ [][MagnetNext]_allVars

-----------------------------------------------------------------------------
(* Properties *)

\* the type and the param of a token, as the loop computes them
TypeOf(t) == IF t.eq THEN StrToLower(t.key) ELSE t.key
ParamOf(t) == IF t.eq THEN t.val ELSE ""

(* The magnet as documented in the constructor: each field comes from the *)
(* LAST token that supplies it (a URN param supplies a hash of its type;  *)
(* any other param of a dn or xl token, in any case, the name or the      *)
(* length), and the hash is that of xt, else xs, else as, whatever the    *)
(* order of the tokens in the link.                                       *)
RefMagnet(link) ==
    LET HashAt(ty) == SelectLastInSeq(link, LAMBDA t : TypeOf(t) = ty /\ UrnHash(ParamOf(t)) # "")
        FieldAt(ty) == SelectLastInSeq(link, LAMBDA t : UrnHash(ParamOf(t)) = "" /\ StrToLower(TypeOf(t)) = ty)
        found == SelectSeq(<<"xt", "xs", "as">>, LAMBDA ty : HashAt(ty) > 0)
    IN  [fname |-> IF FieldAt("dn") = 0 THEN "" ELSE ParamOf(link[FieldAt("dn")]),
         fsize |-> IF FieldAt("xl") = 0 THEN -1 ELSE ToInt64(ParamOf(link[FieldAt("xl")])),
         hash  |-> IF found = <<>> THEN "" ELSE UrnHash(ParamOf(link[HashAt(Head(found))]))]

(* Magnet(aLink) reads any link of up to MaxTokens tokens as the          *)
(* reference does: a later xt (in any case of the key, in any of the four *)
(* URN forms) overrides an earlier one, an xs or as never overrides an xt *)
(* wherever it stands, and a dn whose value is a URN is a hash, not a     *)
(* name.  The hashes map's overwrite, the lower-casing of the type and    *)
(* the order of the branches all matter.                                  *)
MagnetMatchesReference == magnet # <<>> => Magnet(magnet[1]) = RefMagnet(magnet[1])

(* A link makeMagnet writes for a file parses back to that file's hash,   *)
(* name and size: makeMagnet leaves xl out for size 0, and parseMagnet   *)
(* rejects a link without xl, so the magnet of an empty file is refused.  *)
MakeMagnetParses ==
    \A h \in Hashes, f \in FileNames, s \in 0..MaxSize :
        ParseMagnet(MakeMagnet(h, f, s)) = [fname |-> f, fsize |-> s, hash |-> h]
=============================================================================
