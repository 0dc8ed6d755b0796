----------------------------- MODULE PlayerArgs -----------------------------
(***************************************************************************)
(* The byte-level semantics both adapters' sanitizeRCONArg rest on: Go's   *)
(* `for _, r := range s` decodes a string as UTF-8 rune by rune, and       *)
(* strings.Builder.WriteRune encodes each rune back.  A byte that does not *)
(* start a valid sequence decodes as utf8.RuneError (U+FFFD) and consumes  *)
(* one byte, so the builder writes the three bytes EF BF BD for it.        *)
(*                                                                         *)
(* The decoder is Go's (utf8.DecodeRuneInString) for every byte below F0: *)
(* ASCII, two-byte and three-byte sequences with their continuation-range  *)
(* rules.  Arguments are drawn from ArgAlphabet, which has no four-byte    *)
(* lead; the sanitized output adds only EF BF BD.                          *)
(***************************************************************************)
EXTENDS Naturals, Sequences, SequencesExt

RuneError == 65533

(* A player id or reason is any Go string; these bytes stand for every    *)
(* class the decoder tells apart: a letter, a space, each of the three     *)
(* metacharacters ';' '\n' '\r', a two-byte lead (C3) and a continuation   *)
(* byte (A9), so that C3 A9 is the rune 'e-acute' and a lone C3 or A9 is   *)
(* invalid.                                                                *)
ArgAlphabet == {97, 32, 59, 10, 13, 195, 169}

ASSUME ArgAlphabet \subseteq 0..239

(* Every string of at most n bytes over the alphabet. *)
ArgsUpTo(n) == UNION {[1..k -> ArgAlphabet] : k \in 0..n}

IsContinuation(b) == b \in 128..191

(* The range Go allows for the second byte after a three-byte lead: no    *)
(* overlong forms after E0, no surrogates after ED.                        *)
SecondRange(lead) ==
  CASE lead = 224 -> 160..191
    [] lead = 237 -> 128..159
    [] OTHER      -> 128..191

(* for _, r := range s *)
RECURSIVE DecodeRunes(_)
DecodeRunes(s) ==
  IF s = <<>> THEN <<>>
  ELSE CASE Head(s) < 128 ->
              <<Head(s)>> \o DecodeRunes(Tail(s))
         [] Head(s) \in 194..223 /\ Len(s) >= 2 /\ IsContinuation(s[2]) ->
              <<(Head(s) - 192) * 64 + (s[2] - 128)>> \o DecodeRunes(Tail(Tail(s)))
         [] Head(s) \in 224..239 /\ Len(s) >= 3 /\ s[2] \in SecondRange(Head(s))
              /\ IsContinuation(s[3]) ->
              <<(Head(s) - 224) * 4096 + (s[2] - 128) * 64 + (s[3] - 128)>>
                \o DecodeRunes(SubSeq(s, 4, Len(s)))
         [] OTHER ->
              <<RuneError>> \o DecodeRunes(Tail(s))

(* b.WriteRune(r), for the runes DecodeRunes yields (all below U+10000). *)
EncodeRune(r) ==
  CASE r < 128  -> <<r>>
    [] r < 2048 -> <<192 + r \div 64, 128 + (r % 64)>>
    [] OTHER    -> <<224 + r \div 4096, 128 + ((r \div 64) % 64), 128 + (r % 64)>>

EncodeRunes(rs) == FlattenSeq([i \in 1..Len(rs) |-> EncodeRune(rs[i])])

(* The bytes that end or separate an RCON or telnet command. *)
Separators == {59, 10, 13}

SeparatorFree(bytes) == \A i \in 1..Len(bytes) : bytes[i] \notin Separators
=============================================================================
