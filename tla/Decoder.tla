------------------------------ MODULE Decoder ------------------------------
(***************************************************************************)
(* The text of a growing sequence of tokens                                *)
(* (crates/pagedllm/src/tokenizer.rs, IncrementalDecoder).                 *)
(*                                                                         *)
(* A token stands for bytes, and a character may be spread over several    *)
(* tokens.  Of a byte only its role in UTF-8 matters.  A text is, as in    *)
(* the code, the bytes of its characters.                                  *)
(***************************************************************************)
EXTENDS Integers, SequencesExt

CONSTANTS
    Bytes,       \* token -> the bytes it stands for, none for a special token
    MostTokens   \* the longest sequence of tokens that is ever decoded

Byte == {"ascii", "lead2", "lead3", "rest"}

ASSUME DecoderAssumption ==
    Bytes \in [DOMAIN Bytes -> Seq(Byte)] /\ MostTokens \in Nat

CharLen == [ascii |-> 1, lead2 |-> 2, lead3 |-> 3]

\* U+FFFD.
Replacement == <<"EF", "BF", "BD">>

-----------------------------------------------------------------------------
(* Tokenizer::decode: the bytes of all tokens, decoded at once.  Bytes that *)
(* form no character become one replacement character, and so does a       *)
(* character that the end or another one cuts short.                       *)

\* The byte at j goes on with the character that begins at i.
Continues(bytes, i, j) ==
    /\ bytes[i] # "rest"
    /\ j - i < CharLen[bytes[i]]
    /\ \A k \in (i + 1)..j : bytes[k] = "rest"

\* The character that begins at i, if one does.
CharAt(bytes, i) ==
    LET end == i + CharLen[bytes[i]] - 1 IN
    CASE bytes[i] # "rest" /\ end <= Len(bytes) /\ Continues(bytes, i, end) ->
           SubSeq(bytes, i, end)
      [] bytes[i] = "rest" /\ \E k \in 1..(i - 1) : Continues(bytes, k, i) -> <<>>
      [] OTHER -> Replacement

DecodeBytes(bytes) ==
    FlattenSeq([i \in DOMAIN bytes |-> CharAt(bytes, i)])

\* A table, for TLC to decode every sequence once.
Texts == [tokens \in BoundedSeq(DOMAIN Bytes, MostTokens) |->
            DecodeBytes(FlattenSeq([i \in DOMAIN tokens |-> Bytes[tokens[i]]]))]
Decode(tokens) == Texts[tokens]

ASSUME TextsAreBytes ==
    Texts \in [BoundedSeq(DOMAIN Bytes, MostTokens) -> Seq(Byte \cup ToSet(Replacement))]

-----------------------------------------------------------------------------
(* IncrementalDecoder: decode everything again at every token, and emit     *)
(* what is new, but hold back a replacement character at the end.          *)

NewDecoder == [tokens |-> <<>>, emitted |-> 0]

SlipLastByteHeld(text) ==
    IF IsSuffix(<<Last(Replacement)>>, text) THEN Len(text) - 1 ELSE Len(text)
Stable(text) ==
    IF IsSuffix(Replacement, text) THEN Len(text) - Len(Replacement) ELSE Len(text)

Pushed(d, token) ==
    LET tokens == Append(d.tokens, token)
        stable == Stable(Decode(tokens))
    IN  [tokens |-> tokens,
         emitted |-> IF stable <= d.emitted THEN d.emitted ELSE stable]

\* The text a token completes, often none.
Delta(d, token) ==
    LET text == Decode(Append(d.tokens, token)) IN
    SubSeq(text, d.emitted + 1, Stable(text))
=============================================================================
