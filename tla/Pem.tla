--------------------------------- MODULE Pem ---------------------------------
(***************************************************************************)
(* Package pem, and base64ext: the texts that keys are written in.  A text *)
(* is a sequence of symbols.  "BEGIN " and "END " are a symbol each, the   *)
(* five dashes are two, and a byte has 4 bits and a base64 character 3, so *)
(* that three bytes are four characters as they are in the code.           *)
(***************************************************************************)
EXTENDS Integers, FiniteSetsExt, SequencesExt

CONSTANT LineLength     \* characters of a line of base64 (64 in the code)

Characters == 0..7      \* of base64, each its own value
Padding    == 8
Dash       == 9
LF         == 10
BEGIN      == 11
END        == 12
CR         == 13
Letter     == 14        \* any other

pemHeader == <<Dash, Dash, BEGIN>>
pemFooter == <<Dash, Dash, END>>
pemEnding == <<Dash, Dash>>

Refused == [ok |-> FALSE]

Without(text, symbols) == SelectSeq(text, LAMBDA x : x \notin symbols)

Occurs(part, text, i) ==
    i + Len(part) - 1 <= Len(text) /\ SubSeq(text, i, i + Len(part) - 1) = part

(* bytes.Index: where the part begins, or 0 for none. *)
Index(text, part) ==
    LET at == {i \in DOMAIN text : Occurs(part, text, i)}
    IN  IF at = {} THEN 0 ELSE Min(at)

(* bytes.ReplaceAll by nothing, of a part that does not overlap itself. *)
CutAll(text, part) ==
    FlattenSeq([i \in DOMAIN text |->
        IF \E j \in 1..i : j + Len(part) > i /\ Occurs(part, text, j)
           THEN <<>> ELSE <<text[i]>>])
-----------------------------------------------------------------------------
(* base64.StdEncoding: the bits of the bytes in groups of a character's,   *)
(* the last filled up with zeros, and paddings up to a multiple of four.   *)

Bits(values, width) ==
    FlattenSeq([i \in DOMAIN values |->
        [j \in 1..width |-> (values[i] \div 2^(width - j)) % 2]])

(* The values of whole groups of bits; what is left over is dropped. *)
Values(bits, width) ==
    [i \in 1..Len(bits) \div width |->
        FoldLeft(LAMBDA v, bit : 2 * v + bit, 0,
                 SubSeq(bits, (i - 1) * width + 1, i * width))]

EncodeToString(blob) ==
    LET bits  == Bits(blob, 4)
        zeros == [i \in 1..((3 - (Len(bits) % 3)) % 3) |-> 0]
        chars == Values(bits \o zeros, 3)
    IN  chars \o [i \in 1..((4 - (Len(chars) % 4)) % 4) |-> Padding]

(* The decoder skips line breaks.  It wants whole groups of four with one  *)
(* or two paddings at the very end, and, being Strict, zeros in the bits   *)
(* that make no byte.                                                      *)
DecodeStringLoose(text) ==              \* Mutant: not Strict
    LET s     == Without(text, {CR, LF})
        chars == SelectSeq(s, LAMBDA x : x \in Characters)
        pads  == Len(s) - Len(chars)
    IN  IF /\ Len(s) % 4 = 0 /\ pads \in 0..2
           /\ s = chars \o [i \in 1..pads |-> Padding]
           THEN [ok |-> TRUE, blob |-> Values(Bits(chars, 3), 4)]
           ELSE Refused

DecodeString(text) ==
    LET s     == Without(text, {CR, LF})
        chars == SelectSeq(s, LAMBDA x : x \in Characters)
        pads  == Len(s) - Len(chars)
        bits  == Bits(chars, 3)
    IN  IF /\ Len(s) % 4 = 0 /\ pads \in 0..2
           /\ s = chars \o [i \in 1..pads |-> Padding]
           /\ \A i \in 4 * (Len(bits) \div 4) + 1 .. Len(bits) : bits[i] = 0
           THEN [ok |-> TRUE, blob |-> Values(bits, 4)]
           ELSE Refused

(* base64ext.DecodeString. *)
DecodeText(text) ==
    IF Contains(text, CR) \/ Contains(text, LF) THEN Refused ELSE DecodeString(text)
-----------------------------------------------------------------------------
lines(b64) ==
    FlattenSeq([i \in 1..(Len(b64) + LineLength - 1) \div LineLength |->
        SubSeq(b64, (i - 1) * LineLength + 1, Min({i * LineLength, Len(b64)}))
        \o <<LF>>])

Encode(kind, blob) ==
    pemHeader \o kind \o pemEnding \o <<LF>>
    \o lines(EncodeToString(blob))
    \o pemFooter \o kind \o pemEnding \o <<LF>>

(* The line ending of a text is that of its first line. *)
lineEnding(text) ==
    LET headerEnd == Index(text, <<LF>>)
    IN  IF headerEnd > 1 /\ text[headerEnd - 1] = CR THEN <<CR, LF>> ELSE <<LF>>

decodeBodySkipping(body, ending) ==     \* Mutant: base64 skips the other breaks
    DecodeString(CutAll(body, ending))

(* The body without its last line ending: nothing but base64 is left when  *)
(* the others are taken out.                                               *)
decodeBody(body, ending) == DecodeText(CutAll(body, ending))

restAllowedAny(rest, ending) == TRUE    \* Mutant: trailing data

restAllowed(rest, ending) == rest \in {<<>>, ending}

(* Everything behind the header, of which kind is the middle. *)
decodeAfter(data, kind, ending) ==
    LET footer == pemFooter \o kind \o pemEnding
        at     == Index(data, footer)
        body   == SubSeq(data, 1, at - 1)
        rest   == SubSeq(data, at + Len(footer), Len(data))
    IN  IF /\ at > 0
           /\ restAllowed(rest, ending)
           /\ body # <<>> /\ IsSuffix(ending, body)
           THEN LET b64 == decodeBody(SubSeq(body, 1, Len(body) - Len(ending)), ending)
                IN  IF b64.ok THEN [ok |-> TRUE, kind |-> kind, blob |-> b64.blob]
                    ELSE Refused
           ELSE Refused

Decode(text) ==
    LET headerEnd == Index(text, <<LF>>)
        ending    == lineEnding(text)
        header    == SubSeq(text, 1, headerEnd - Len(ending))
        kind      == SubSeq(header, Len(pemHeader) + 1, Len(header) - Len(pemEnding))
    IN  IF /\ headerEnd > 0
           /\ IsPrefix(pemHeader, header) /\ IsSuffix(pemEnding, header)
           /\ kind # <<>>
           THEN decodeAfter(SubSeq(text, headerEnd + 1, Len(text)), kind, ending)
           ELSE Refused
=============================================================================
