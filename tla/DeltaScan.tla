------------------------------ MODULE DeltaScan ------------------------------
(***************************************************************************)
(* The rsync-style delta (core/delta.cpp, and its use in                   *)
(* net/sync_session.cpp).  The asker holds an old copy and sends the       *)
(* signature of its blocks; the sender slides a window over the file it    *)
(* has, keeps the checksum of the window up to date from byte to byte,     *)
(* and turns what it finds into copies and the rest into literals; the     *)
(* asker rebuilds the file and compares its digest.                        *)
(*                                                                         *)
(* A byte is a small number, the 16 bits of each half of the checksum are  *)
(* % Half, its 32-bit arithmetic % Half^2.  The strong hash of a block and *)
(* the digest of a file are what they are taken of: no two contents share  *)
(* one.  Positions count from 0, as in the code.                           *)
(***************************************************************************)
EXTENDS Integers, Sequences, FiniteSets

CONSTANTS Byte,     \* the values of a byte
          L,        \* the block size
          Half,     \* 2^16
          Bases, Targets  \* the old copies and the files looked at

ASSUME DeltaAssumption ==
    /\ Byte \subseteq Nat
    /\ L \in Nat \ {0} /\ Half \in Nat \ {0}
    /\ Bases \subseteq Seq(Byte) /\ Targets \subseteq Seq(Byte)

VARIABLES sig,     \* the signature: the blocks, and the size of the file
          target,  \* the file to send
          pos, literal_start, a, b,
          ops,     \* the instructions so far
          phase,   \* "scan", then "stream", and how it ended
          base,    \* the asker's copy, as it is now
          out,     \* what the asker has rebuilt
          next     \* the instruction that travels next

scan  == <<pos, literal_start, a, b, ops>>
asker == <<base, out, next>>
vars == <<sig, target, scan, phase, asker>>

size == Len(target)

Copy(offset, len) == [copy |-> TRUE, offset |-> offset, len |-> len]
Literal(bytes)    == [copy |-> FALSE, literal |-> bytes]

\* The bytes of f from position i up to position j, which is not among them.
Bytes(f, i, j) == SubSeq(f, i + 1, j)

\* weak_checksum
Total(f) == LET sum[n \in 0..Len(f)] == IF n = 0 THEN 0 ELSE sum[n - 1] + f[n]
            IN  sum[Len(f)]
Low(f)   == Total(f)
High(f)  == Total([i \in 1..Len(f) |-> (Len(f) - i + 1) * f[i]])
weak_checksum(f) == <<Low(f) % Half, High(f) % Half>>

\* signature_of: whole blocks and what is left over.
BlockCount(f) == (Len(f) + L - 1) \div L
BlockAt(f, i) == Bytes(f, i * L, IF i * L + L <= Len(f) THEN i * L + L ELSE Len(f))
signature_of(f) ==
    [file_size |-> Len(f),
     blocks |-> [i \in 0..(BlockCount(f) - 1) |->
                    [weak |-> weak_checksum(BlockAt(f, i)), strong |-> BlockAt(f, i)]]]

Window(p) == Bytes(target, p, p + L)

\* The window's checksum is computed from scratch.
InitWindow(p) == /\ a' = Low(Window(p)) % (Half * Half)
                 /\ b' = High(Window(p)) % (Half * Half)

TypeOK == /\ sig.file_size \in Nat /\ target \in Targets
          /\ pos \in 0..(size + 1) /\ literal_start \in 0..size
          /\ a \in 0..(Half * Half - 1) /\ b \in 0..(Half * Half - 1)
          /\ phase \in {"scan", "stream", "accepted", "refused"}
          /\ base \in Seq(Byte) /\ out \in Seq(Byte)
          /\ next \in 1..(Len(ops) + 1)

\* compute_delta: the whole file is a literal if no window fits or no block is known.
Hopeless == sig.file_size = 0 \/ size < L

Init == /\ base \in Bases /\ sig = signature_of(base)
        /\ target \in Targets
        /\ pos = 0 /\ literal_start = 0 /\ ops = <<>>
        /\ a = IF Hopeless THEN 0 ELSE Low(Window(0)) % (Half * Half)
        /\ b = IF Hopeless THEN 0 ELSE High(Window(0)) % (Half * Half)
        /\ phase = "scan" /\ out = <<>> /\ next = 1

-----------------------------------------------------------------------------
(* The sender.                                                             *)

EmitLiteral(o, from, to) == IF to > from THEN Append(o, Literal(Bytes(target, from, to))) ELSE o

\* Mutant: any copy before this one is taken to be contiguous.
EmitCopyLoose(o, offset, len) ==
    IF o # <<>> /\ o[Len(o)].copy
    THEN [o EXCEPT ![Len(o)].len = @ + len]
    ELSE Append(o, Copy(offset, len))

\* A copy that continues the one before it extends it.
EmitCopy(o, offset, len) ==
    IF o # <<>> /\ o[Len(o)].copy /\ o[Len(o)].offset + o[Len(o)].len = offset
    THEN [o EXCEPT ![Len(o)].len = @ + len]
    ELSE Append(o, Copy(offset, len))

\* Mutant: the block left over at the end is skipped by its number, one too many.
HitsButLast ==
    {i \in DOMAIN sig.blocks : /\ sig.blocks[i].weak = <<a % Half, b % Half>>
                               /\ sig.blocks[i].strong = Window(pos)
                               /\ i * L + L < sig.file_size}

\* The blocks the window is equal to: the checksum finds them, the strong hash
\* confirms, and a short block at the end does not count.
Hits ==
    {i \in DOMAIN sig.blocks : /\ sig.blocks[i].weak = <<a % Half, b % Half>>
                               /\ sig.blocks[i].strong = Window(pos)
                               /\ i * L + L <= sig.file_size}

Scanning == phase = "scan" /\ ~Hopeless /\ pos + L <= size

Match ==
    /\ Scanning
    /\ \E i \in Hits : ops' = EmitCopy(EmitLiteral(ops, literal_start, pos), i * L, L)
    /\ pos' = pos + L
    /\ literal_start' = pos'
    /\ IF pos' + L <= size THEN InitWindow(pos') ELSE UNCHANGED <<a, b>>
    /\ UNCHANGED <<sig, target, phase, asker>>

\* Mutant: the high half rolls by the low half as it was.
RollLate ==
    LET leaving == target[pos + 1]
        entering == target[pos + L + 1]
    IN  /\ a' = (a - leaving + entering) % Half
        /\ b' = (b - L * leaving + a) % Half

\* The byte that leaves and the one that enters, in 32 bits, masked to 16.
Roll ==
    LET leaving == target[pos + 1]
        entering == target[pos + L + 1]
    IN  /\ a' = (a - leaving + entering) % Half
        /\ b' = (b - L * leaving + a') % Half

Slide ==
    /\ Scanning /\ Hits = {}
    /\ IF pos + L < size THEN Roll ELSE UNCHANGED <<a, b>>
    /\ pos' = pos + 1
    /\ UNCHANGED <<sig, target, literal_start, ops, phase, asker>>

\* The rest is a literal.
Finish ==
    /\ phase = "scan" /\ ~Scanning
    /\ ops' = EmitLiteral(ops, literal_start, size)
    /\ phase' = "stream"
    /\ literal_start' = size
    /\ UNCHANGED <<sig, target, pos, a, b, asker>>

-----------------------------------------------------------------------------
(* The asker.                                                              *)

\* The owner of the old copy cuts or changes it, once, while the answer is on its way.
Drift ==
    /\ phase = "stream" /\ sig = signature_of(base) /\ base # <<>>
    /\ \/ base' = Bytes(base, 0, Len(base) - 1)
       \/ \E v \in Byte : v # Head(base) /\ base' = <<v>> \o Tail(base)
    /\ UNCHANGED <<sig, target, scan, phase, out, next>>

\* handle_file_copy and handle_file_literal: the instruction is carried out; a copy
\* from beyond the end of the file ends the transfer.
Receive ==
    /\ phase = "stream" /\ next <= Len(ops)
    /\ LET op == ops[next]
       IN  IF op.copy /\ op.offset + op.len > Len(base)
           THEN phase' = "refused" /\ UNCHANGED out
           ELSE /\ out' = out \o IF op.copy THEN Bytes(base, op.offset, op.offset + op.len)
                                            ELSE op.literal
                /\ UNCHANGED phase
    /\ next' = next + 1
    /\ UNCHANGED <<sig, target, scan, base>>

\* handle_file_end
Verify ==
    /\ phase = "stream" /\ next > Len(ops)
    /\ phase' = IF out = target THEN "accepted" ELSE "refused"
    /\ UNCHANGED <<sig, target, scan, asker>>

Next == Match \/ Slide \/ Finish \/ Drift \/ Receive \/ Verify

Spec == Init /\ [][Next]_vars

-----------------------------------------------------------------------------
(* Properties.                                                             *)

\* The checksum kept from byte to byte is that of the window, however the window
\* came there: one that drifts finds nothing any more and no test of the result
\* would notice.
RollingIsExact ==
    Scanning => <<a % Half, b % Half>> = weak_checksum(Window(pos))

\* delta.h: "send only the bytes that changed".  No block of the old copy travels
\* as part of a literal.
KnownBlocksAreCopied ==
    \A n \in 1..Len(ops) : ~ops[n].copy =>
        \A i \in 0..(sig.file_size \div L - 1), p \in 0..(Len(ops[n].literal) - L) :
            Bytes(ops[n].literal, p, p + L) # sig.blocks[i].strong

\* "apply(base, compute_delta(signature(base), target)) == target": nothing but a
\* change of the old copy under way makes the digest fail, and so costs the transfer
\* of the whole file.
NoNeedlessRetry == phase = "refused" => sig # signature_of(base)
=============================================================================
