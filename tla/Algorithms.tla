----------------------------- MODULE Algorithms -----------------------------
(***************************************************************************)
(* The pure algorithms of the read and write paths over bounded inputs: a     *)
(* behaviour is one search of an index, or stays in the state that holds the  *)
(* input of another algorithm.                                              *)
(***************************************************************************)
EXTENDS SnapshotIndex, Payloads, SpanPlan

CONSTANTS Byte, Source,     \* a file: a sequence of bytes
          Insertions,       \* what replacements put into it
          MaxText, MaxBits, MaxBytes, MaxReplacements   \* bounds: sizes of inputs

ASSUME InputsOK ==
    /\ Source \in Seq(Byte) /\ Insertions \subseteq Seq(Byte)
    /\ {MaxText, MaxBits, MaxBytes, MaxReplacements} \subseteq Nat

VARIABLE input

UpTo(set, n) == UNION {[1..k -> set] : k \in 0..n}

\* One of them may end behind the file.
Replacements == {r \in [start : 0..Len(Source), end : 0..(Len(Source) + 1), data : Insertions] :
                    r.start <= r.end}

Inputs ==
    [kind : {"scan"}, lines : UpTo(Names \cup {Opaque, Blank}, MaxLines)]
      \cup [kind : {"text"}, first : UpTo(Chars, MaxText), second : UpTo(Chars, MaxText)]
      \cup [kind : {"bits"}, bits : UpTo({0, 1}, MaxBits)]
      \cup [kind : {"range"}, size : 0..MaxBytes, start : 0..MaxBytes,
            length : NoLength..(MaxBytes + 1)]
      \cup [kind : {"plan"}, replacements : UpTo(Replacements, MaxReplacements)]

Idle == /\ recs = <<>> /\ table = <<>> /\ query = (CHOOSE n \in Names : TRUE)
        /\ lo = 0 /\ hi = 0
        /\ phase = "missing"

RunInit == \/ Init /\ input = [kind |-> "lookup"]
           \/ Idle /\ input \in Inputs
RunNext == Next /\ UNCHANGED input
RunSpec == RunInit /\ [][RunNext]_<<vars, input>>

-----------------------------------------------------------------------------
(***************************************************************************)
(* Properties.                                                             *)
(***************************************************************************)
\* Scan and parser agree on every body (see ScanAgrees).
ScanAgreesWithParser == input.kind = "scan" => ScanAgrees(input.lines)

\* Every text and every joined pair of them survives its envelope, on one line of the
\* file, and every list of booleans the run-length code (see JoinedDecodes, OneLine and
\* CoreRoundTrip).
PayloadsRoundTrip ==
    /\ input.kind = "text" => /\ JoinedDecodes(input.first, input.second)
                              /\ OneLine(input.first)
    /\ input.kind = "bits" => CoreRoundTrip(input.bits)

\* The chunks of a value follow each other and cover it (engine.py:360-363).
ChunksCover(n, size) ==
    LET cs == Chunks(n, size)
    IN FlattenSeq([k \in DOMAIN cs |-> [i \in 1..(cs[k].to - cs[k].from) |-> cs[k].from + i]])
          = [i \in 1..n |-> i]

\* Every range of a typed value is read exactly (see RangeExact), and so is the whole
\* value in chunks.
RangesExact ==
    input.kind = "range" =>
        /\ RangeExact(input.size, input.start, input.length)
        /\ input.length >= 1 => ChunksCover(input.size, input.length)

\* Every list of replacements gives the edited file, or is refused (see PlanEdits).
PlansEdit == input.kind = "plan" => PlanEdits(Source, input.replacements)
=============================================================================
