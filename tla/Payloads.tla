------------------------------ MODULE Payloads ------------------------------
(***************************************************************************)
(* The pure functions payloads go through: text envelopes and the run-length  *)
(* code of core variables (codec.py), and the arithmetic that reads a range of *)
(* a typed value out of its Base64 form (typed_values.py, engine.py).          *)
(*                                                                         *)
(* A text is a sequence of characters, one of each kind the code looks for.   *)
(* Base64 turns a character into one that is none of them.                    *)
(***************************************************************************)
EXTENDS Integers, Sequences, SequencesExt

CONSTANTS Plain, Comma, Newline, Close, Colon   \* the kinds: "x", ",", "\n", ")", ":"

Chars == {Plain, Comma, Newline, Close, Colon}

ASSUME CharsDiffer ==
    /\ \A i, j \in 1..5 : LET cs == <<Plain, Comma, Newline, Close, Colon>>
                          IN cs[i] = cs[j] => i = j
    /\ "malformed" \notin Chars

-----------------------------------------------------------------------------
(***************************************************************************)
(* Text envelopes: @qp( ... ): holds the text, @qv1( ... ): its Base64 form.    *)
(***************************************************************************)
Ch(c)     == [kind |-> "char", of |-> c]
B64(c)    == [kind |-> "b64", of |-> c]
OpenQp    == [kind |-> "open", of |-> "@qp("]
OpenQv    == [kind |-> "open", of |-> "@qv1("]
Terminator == <<Ch(Close), Ch(Colon)>>

EndsAt(s, i) == i < Len(s) /\ s[i] = Ch(Close) /\ s[i + 1] = Ch(Colon)

\* Faulty variants: a newline, or a terminator, in the text goes unnoticed.
FitsAnyLine(chars) == ~\E i \in DOMAIN chars : EndsAt(chars, i)
FitsAnyEnd(chars)  == ~Contains(chars, Ch(Newline))
\* encode_text leaves a text as it is when it has neither.
Fits(chars) == ~Contains(chars, Ch(Newline)) /\ ~\E i \in DOMAIN chars : EndsAt(chars, i)

Encode(text) ==
    LET chars == [i \in DOMAIN text |-> Ch(text[i])]
    IN IF Fits(chars) THEN <<OpenQp>> \o chars \o Terminator
       ELSE <<OpenQv>> \o [i \in DOMAIN text |-> B64(text[i])] \o Terminator

\* The parts of a text between its commas.
Parts(text) ==
    LET parts[i \in 0..Len(text)] ==
          IF i = 0 THEN <<<<>>>>
          ELSE LET before == parts[i - 1]
               IN IF text[i] = Comma THEN Append(before, <<>>)
                  ELSE ReplaceAt(before, Len(before), Append(Last(before), text[i]))
    IN parts[Len(text)]

\* The values of the envelopes one after the other; Malformed when what is left is none.
\* The patterns are not greedy: an envelope ends at the first terminator.
Malformed == <<<<"malformed">>>>

Envelope(s, from, to) ==
    LET text == [i \in 1..(to - from - 1) |-> s[from + i].of]
    IN IF s[from] = OpenQp THEN Parts(text) ELSE <<text>>

Decode(s) ==
    LET values[from \in 1..(Len(s) + 1)] ==
          IF from > Len(s) THEN <<>>
          ELSE LET ends == {i \in (from + 1)..Len(s) : EndsAt(s, i)}
                   to   == CHOOSE i \in ends : \A j \in ends : i <= j
               IN IF s[from] \notin {OpenQp, OpenQv} \/ ends = {} THEN Malformed
                  ELSE IF values[to + 2] = Malformed THEN Malformed
                  ELSE Envelope(s, from, to) \o values[to + 2]
    IN values[1]

-----------------------------------------------------------------------------
(***************************************************************************)
(* Core variables: the differences of a list of booleans, as runs.           *)
(***************************************************************************)
Xor(a, b) == (a + b) % 2

\* Faulty variant: the first bit is taken for FALSE.
DeltaFromZero(bits) == [i \in DOMAIN bits |-> IF i = 1 THEN 0 ELSE Xor(bits[i], bits[i - 1])]
Delta(bits) == [i \in DOMAIN bits |-> IF i = 1 THEN bits[1] ELSE Xor(bits[i], bits[i - 1])]

\* _delta_rle_encode
Runs(bits) ==
    LET delta == Delta(bits)
        runs[i \in 0..Len(bits)] ==
          IF i = 0 THEN <<>>
          ELSE LET before == runs[i - 1]
               IN IF before # <<>> /\ Last(before).bit = delta[i]
                  THEN ReplaceAt(before, Len(before), [Last(before) EXCEPT !.count = @ + 1])
                  ELSE Append(before, [bit |-> delta[i], count |-> 1])
    IN runs[Len(bits)]

\* _delta_rle_decode
Bits(runs) ==
    LET delta == FlattenSeq([k \in DOMAIN runs |-> [i \in 1..runs[k].count |-> runs[k].bit]])
        bits[i \in 1..Len(delta)] == IF i = 1 THEN delta[1] ELSE Xor(bits[i - 1], delta[i])
    IN bits

-----------------------------------------------------------------------------
(***************************************************************************)
(* Ranges.  n bytes are 4 characters for every 3 of them, padded.  A range is   *)
(* the offsets of its first byte and of the byte after its last.              *)
(***************************************************************************)
Least(a, b) == IF a <= b THEN a ELSE b
NoLength    == -1       \* length=None

EncodedLength(n) == 4 * ((n + 2) \div 3)
Padding(n)       == (3 - (n % 3)) % 3

\* decoded_size_from_base64: the tail shows the padding.
DecodedSize(n) == (EncodedLength(n) \div 4) * 3 - Padding(n)

\* payload_slice: the range of a payload of that many bytes.
Slice(size, start, length) ==
    [from |-> start, to |-> IF length = NoLength THEN size ELSE Least(size, start + length)]

\* Faulty variant: the last quartet is rounded down.
QuartetEndDown(n, end) == Least(EncodedLength(n), (end \div 3) * 4)
QuartetStart(start)    == (start \div 3) * 4
QuartetEnd(n, end)     == Least(EncodedLength(n), ((end + 2) \div 3) * 4)

\* read_typed_range: the quartets around the range are decoded, at most to the end
\* of the value, and what is too much at either side is cut off.
TypedRange(n, start, length) ==
    LET range  == Slice(DecodedSize(n), start, length)
        offset == (QuartetStart(start) \div 4) * 3
        end    == Least(n, (QuartetEnd(n, range.to) \div 4) * 3)
    IN [from |-> Least(end, offset + (start - offset)),
        to   |-> Least(end, offset + (range.to - offset))]

\* Faulty variant: a last chunk that is not full is dropped.
FullChunks(n, size) ==
    [k \in 1..(n \div size) |-> [from |-> (k - 1) * size, to |-> k * size]]
\* iter_typed_value
Chunks(n, size) ==
    [k \in 1..((n + size - 1) \div size) |->
        [from |-> (k - 1) * size, to |-> Least(n, k * size)]]

-----------------------------------------------------------------------------
(***************************************************************************)
(* Properties, of every input.                                             *)
(***************************************************************************)
\* Text comes back as its comma-separated parts, or whole when it had to be encoded;
\* so do the texts of joined payloads, which are only put one behind the other:
\* no text can end an envelope early or run into the next (codec.py:36-42, 65-94,
\* engine.py:495).
Meaning(text) ==
    IF Fits([i \in DOMAIN text |-> Ch(text[i])]) THEN Parts(text) ELSE <<text>>
JoinedDecodes(a, b) == Decode(Encode(a) \o Encode(b)) = Meaning(a) \o Meaning(b)

\* A text that is not in an envelope already stays on the one line of its record
\* (codec.py:39-42, parser.py:37).
OneLine(text) == ~Contains(Encode(text), Ch(Newline))

\* The run-length code returns the booleans, in runs that cannot be shortened
\* (codec.py:96-117).
CoreRoundTrip(bits) ==
    /\ Bits(Runs(bits)) = bits
    /\ \A k \in 2..Len(Runs(bits)) : Runs(bits)[k].bit # Runs(bits)[k - 1].bit

\* A range of a typed value is exactly the bytes asked for, cut at its end, and no
\* more than one quartet is decoded in vain at either side (engine.py:328-358).
RangeExact(n, start, length) ==
    start <= n =>
        LET want == Slice(n, start, length) IN
        /\ TypedRange(n, start, length) = want
        /\ QuartetEnd(n, want.to) - QuartetStart(start) <= 4 * ((want.to - want.from) \div 3 + 2)
=============================================================================
