----------------------------- MODULE Collations -----------------------------
(***************************************************************************)
(* tds/collation.rs: which code page the bytes of a CHAR, VARCHAR or TEXT   *)
(* column are in.                                                           *)
(*                                                                         *)
(* A collation is <<info, sort_id>>.  A string is <<UTF-16 units, script>>; *)
(* what the code pages tell apart is the script.                            *)
(***************************************************************************)
EXTENDS Outcome, Naturals

\* Scripts, and an ill-formed sequence.
Ascii == 0
Accented == 1
Han == 2
Emoji == 3
Broken == 4

CONSTANTS
    LcidPages,    \* the table of lcid_to_encoding: the code page of a locale
    SortIdPages   \* the table of sortid_to_encoding: the code page of a sort id

NamedBy(table, key) ==
    IF key \in DOMAIN table THEN Ok(table[key]) ELSE Err("unsupported encoding")

lcid_to_encoding(locale) == NamedBy(LcidPages, locale)
sortid_to_encoding(sort_id) == NamedBy(SortIdPages, sort_id)

lcid(coll) == coll[1] % 65536

\* The sort id decides when there is one, the locale otherwise.
codec(coll) ==
    CASE coll[2] \in 30..35 -> Ok("cp437")
      [] coll[2] \in 40..45 \cup {49} \cup 55..61 -> Ok("cp850")
      [] coll[2] = 0 -> lcid_to_encoding(lcid(coll))
      [] OTHER -> sortid_to_encoding(coll[2])

DoubleByte == {"big5", "euc_kr", "shift_jis"}
WithAccents == {"cp437", "cp850", "windows_1250", "windows_1252",
                "windows_1254", "windows_1258"}

\* encoding_rs and the two tables: the bytes of one UTF-16 unit of a script,
\* 0 when the code page cannot write it.  UTF-16 is written as UTF-8.
BytesPerUnit(page, script) ==
    CASE script = Ascii -> 1
      [] script = Accented -> IF page \in WithAccents THEN 1
                              ELSE IF page \in {"gb18030", "utf_16le"} THEN 2
                              ELSE 0
      [] script = Han -> IF page \in DoubleByte \cup {"gb18030"} THEN 2
                         ELSE IF page = "utf_16le" THEN 3 ELSE 0
      [] script = Emoji -> IF page \in {"gb18030", "utf_16le"} THEN 2 ELSE 0
      [] script = Broken -> 0

\* CollationCodec::encode: <<bytes, content>>, or nothing.
CodecEncode(page, s) ==
    IF BytesPerUnit(page, s[2]) = 0 THEN Err("unrepresentable character")
    ELSE Ok(<<s[1] * BytesPerUnit(page, s[2]), s[2]>>)

\* CollationCodec::decode and decode_lossy: bytes that are not of this code
\* page are an error, or replaced.  The two OEM pages map every byte.
CodecDecode(page, bytes, lossy) ==
    LET w == BytesPerUnit(page, bytes[2])
    IN IF page = "utf_16le" THEN Ok(<<bytes[1] \div 2, Broken>>)
       ELSE IF w > 0 /\ bytes[1] % w = 0 THEN Ok(<<bytes[1] \div w, bytes[2]>>)
       ELSE IF lossy \/ page \in {"cp437", "cp850"} THEN Ok(<<bytes[1], Broken>>)
       ELSE Err("invalid sequence")

=============================================================================
