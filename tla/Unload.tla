------------------------------- MODULE Unload -------------------------------
(***************************************************************************)
(* A load library as ld370 ships it: the IEBCOPY unloaded image (unload_   *)
(* size, dir_layout, emit_unload), its framing into the variable-spanned   *)
(* records of a transmission (emit_xmit), and the way back: what survives  *)
(* IEBCOPY reading one such record at a time, and xmit370's directory walk *)
(* and member search over it.                                              *)
(*                                                                         *)
(* A name is a number in EBCDIC order; a block is its place in its member, *)
(* with a length and whether it is text.                                   *)
(***************************************************************************)
EXTENDS Integers, Sequences, FiniteSets

CONSTANTS
    Libraries,   \* the members to unload, in the order they are given
    HighName,    \* X'FF' * 8: the key of the last directory block
    SrcBlksize,  \* --blocksize, the library's BLKSIZE
    TrackCap,    \* MVS_TRK_PACK_CAP_3350
    TrackOvh,    \* MVS_TRK_OVH_3350
    TrackLen,    \* MVS_TRK_LEN_3350, what a track holds
    TrkPerCyl,   \* MVS_TRKPERCYL_3350
    RecBase,     \* record numbers are stored modulo this (one byte)
    DirBlk,      \* directory block size (256)
    MaxText      \* largest variable record of the transmission

\* A load module: a member has at least one block, its CESD or its text.
LoadBlock == [len : Nat, text : BOOLEAN]
LoadMember == [name : 0..HighName, blocks : Seq(LoadBlock) \ {<< >>}, aliases : Seq(0..HighName)]

ASSUME LibrariesAssumption == HighName \in Nat /\ \A l \in Libraries : l \in Seq(LoadMember)
ASSUME TrackAssumption ==
    /\ TrackOvh \in Nat \ {0} /\ TrackCap \in Nat /\ TrackLen \in Nat /\ TrkPerCyl \in Nat \ {0}
    /\ TrackCap + TrackOvh <= TrackLen /\ SrcBlksize \in Nat
    /\ \A l \in Libraries : \A x \in DOMAIN l : \A y \in DOMAIN l[x].blocks : l[x].blocks[y].len <= TrackCap
    /\ RecBase \in Nat \ {0, 1} /\ RecBase > TrackCap \div TrackOvh
ASSUME DirAssumption == DirBlk \in Nat /\ DirBlk >= 2 + 46
ASSUME TextAssumption == MaxText \in Nat /\ MaxText <= SrcBlksize /\ 12 + 8 + DirBlk + 12 <= SrcBlksize + 16

VARIABLES
    lib,      \* the library given
    mem,      \* its members, sorted once emit_unload begins
    pc,       \* "size", "sort", "assign", "dir", "data", "frame", "done", "refused"
    i, j,     \* member and block
    tt, r,    \* the next relative track and record
    trk,      \* bytes of the track used
    at,       \* <<member, block>> -> <<track, record>>; block 0 is the EOF
    size,     \* unload_size: what the buffer holds
    image,    \* the records of the unloaded image
    q,        \* the record about to be framed
    chunk,    \* the variable record being filled: its records
    frames    \* the variable records written

vars == <<lib, mem, pc, i, j, tt, r, trk, at, size, image, q, chunk, frames>>

COPYR1LEN == 52
COPYR2LEN == 276
MEMENT == 36
ALIASENT == 46
FFENT == 12

(***************************************************************************)
(* dir_layout: entries in name order, in blocks by bytes; the end mark in  *)
(* the last block or, when it does not fit, in one of its own.             *)
(***************************************************************************)
DirEnts(m) ==
    UNION {{[name |-> m[x].name, mi |-> x, ai |-> 0]}
           \union {[name |-> m[x].aliases[y], mi |-> x, ai |-> y] : y \in DOMAIN m[x].aliases} :
              x \in DOMAIN m}
DuplicateName(m) == Cardinality({d.name : d \in DirEnts(m)}) < Cardinality(DirEnts(m))

SortedByName(S) ==
    [x \in 1..Cardinality(S) |->
        CHOOSE d \in S : Cardinality({e \in S : e.name < d.name}) = x - 1]

DentLen(d) == IF d.ai = 0 THEN MEMENT ELSE ALIASENT

\* Faulty variant: blocks hold a number of entries.
BlocksByCount(d) ==
    [x \in 0..Len(d) |-> [blk |-> IF x = 0 THEN 0 ELSE (x - 1) \div ((DirBlk - 2) \div MEMENT), used |-> 0]]

\* Block and bytes used once entry x is in its block.
Blocks(d) ==
    LET place[x \in 0..Len(d)] ==
            IF x = 0 THEN [blk |-> 0, used |-> 2]
            ELSE LET b == place[x - 1] IN
                 IF b.used + DentLen(d[x]) > DirBlk
                 THEN [blk |-> b.blk + 1, used |-> 2 + DentLen(d[x])]
                 ELSE [b EXCEPT !.used = @ + DentLen(d[x])]
    IN place

BlockCount(d) ==
    LET last == Blocks(d)[Len(d)]
    IN IF last.used + FFENT > DirBlk THEN last.blk + 2 ELSE last.blk + 1

\* f[1] + ... + f[n].
Total(f, n) == LET s[x \in 0..n] == IF x = 0 THEN 0 ELSE s[x - 1] + f[x] IN s[n]

\* Faulty variant: without the member's end of file.
MemberSizeNoEof(m) == Total([y \in DOMAIN m.blocks |-> 12 + m.blocks[y].len], Len(m.blocks))

MemberSize(m) == Total([y \in DOMAIN m.blocks |-> 12 + m.blocks[y].len], Len(m.blocks)) + 12

Init ==
    /\ lib \in Libraries /\ mem = lib
    /\ pc = "size" /\ i = 1 /\ j = 1
    /\ tt = 0 /\ r = 1 /\ trk = 0
    /\ at = << >> /\ size = 0 /\ image = << >>
    /\ q = 1 /\ chunk = << >> /\ frames = << >>

\* unload_size, before the members are sorted; a name used twice is refused.
Size ==
    /\ pc = "size"
    /\ IF DuplicateName(mem) THEN pc' = "refused" /\ size' = size
       ELSE /\ pc' = "sort"
            /\ size' = COPYR1LEN + COPYR2LEN + 12 + BlockCount(SortedByName(DirEnts(mem))) * (12 + 8 + DirBlk)
                       + Total([x \in DOMAIN mem |-> MemberSize(mem[x])], Len(mem))
    /\ UNCHANGED <<lib, mem, i, j, tt, r, trk, at, image, q, chunk, frames>>

\* emit_unload sorts the members and refuses a block above the BLKSIZE.
Sort ==
    /\ pc = "sort"
    /\ mem' = SortedByName({mem[x] : x \in DOMAIN mem})
    /\ pc' = IF \E x \in DOMAIN mem : \E y \in DOMAIN mem[x].blocks : mem[x].blocks[y].len > SrcBlksize
             THEN "refused" ELSE "assign"
    /\ UNCHANGED <<lib, i, j, tt, r, trk, at, size, image, q, chunk, frames>>

(***************************************************************************)
(* Tracks and records.  A single member has a track for each record; the   *)
(* records of several are packed by what they take of a track.             *)
(***************************************************************************)
Cap == IF Len(mem) = 1 THEN 0 ELSE TrackCap

\* Where the next record of n bytes goes.  Faulty variant: counted as the 12
\* bytes of a count field.
NextAtByCount(n) == IF r > 1 /\ trk + 12 + n > Cap THEN <<tt + 1, 1, 12 + n>> ELSE <<tt, r, trk + 12 + n>>
NextAt(n) ==
    IF r > 1 /\ trk + TrackOvh + n > Cap
    THEN <<tt + 1, 1, TrackOvh + n>>
    ELSE <<tt, r, trk + TrackOvh + n>>

Assigned(x, n) ==
    /\ at' = [p \in DOMAIN at \union {<<i, x>>} |->
                IF p = <<i, x>> THEN <<NextAt(n)[1], NextAt(n)[2]>> ELSE at[p]]
    /\ tt' = NextAt(n)[1] /\ r' = NextAt(n)[2] + 1 /\ trk' = NextAt(n)[3]

AssignBlock ==
    /\ pc = "assign" /\ i <= Len(mem) /\ j <= Len(mem[i].blocks)
    /\ Assigned(j, mem[i].blocks[j].len)
    /\ j' = j + 1
    /\ UNCHANGED <<lib, mem, pc, i, size, image, q, chunk, frames>>

AssignEof ==
    /\ pc = "assign" /\ i <= Len(mem) /\ j > Len(mem[i].blocks)
    /\ Assigned(0, 0)
    /\ i' = i + 1 /\ j' = 1
    /\ UNCHANGED <<lib, mem, pc, size, image, q, chunk, frames>>

\* A member's first block, and its first text block if it has one.
FirstAt(x) == at[<<x, 1>>]
TextAt(x) ==
    LET texts == {y \in DOMAIN mem[x].blocks : mem[x].blocks[y].text}
    IN IF texts = {} THEN FirstAt(x) ELSE at[<<x, CHOOSE y \in texts : \A z \in texts : y <= z>>]

\* mvs_udebx_extent: whole cylinders up to the last track used.
ExtentTracks == (((tt + 1) + TrkPerCyl - 1) \div TrkPerCyl) * TrkPerCyl

(***************************************************************************)
(* The image: header, directory, data.                                     *)
(***************************************************************************)
DirEntry(d) ==
    [name |-> d.name, alias |-> d.ai # 0, tt |-> FirstAt(d.mi)[1], r |-> FirstAt(d.mi)[2] % RecBase,
     text |-> <<TextAt(d.mi)[1], TextAt(d.mi)[2] % RecBase>>]

DirRecord(d, b) ==
    LET here == {x \in DOMAIN d : Blocks(d)[x].blk = b}
        last == b = BlockCount(d) - 1
        ents == SortedByName({d[x] : x \in here})
    IN [kind |-> "dir", len |-> 12 + 8 + DirBlk,
        key |-> IF last \/ here = {} THEN HighName ELSE ents[Len(ents)].name,
        ents |-> [x \in DOMAIN ents |-> DirEntry(ents[x])], ff |-> last]

Directory ==
    /\ pc = "assign" /\ i > Len(mem)
    /\ LET d == SortedByName(DirEnts(mem))
       IN image' = <<[kind |-> "env", len |-> COPYR1LEN],
                     [kind |-> "env", len |-> COPYR2LEN, tracks |-> ExtentTracks]>>
                   \o [b \in 1..BlockCount(d) |-> DirRecord(d, b - 1)]
                   \o <<[kind |-> "eod", len |-> 12]>>
    /\ pc' = "data" /\ i' = 1 /\ j' = 1
    /\ UNCHANGED <<lib, mem, tt, r, trk, at, size, q, chunk, frames>>

\* mvs_put_count: cylinder, head and record; len is the record with its count.
DataRecord(kind, x, y, n) ==
    [kind |-> kind, cc |-> at[<<x, y>>][1] \div TrkPerCyl, hh |-> at[<<x, y>>][1] % TrkPerCyl,
     r |-> at[<<x, y>>][2] % RecBase, len |-> 12 + n,
     name |-> mem[x].name, block |-> y]

EmitBlock ==
    /\ pc = "data" /\ i <= Len(mem) /\ j <= Len(mem[i].blocks)
    /\ image' = Append(image, DataRecord("data", i, j, mem[i].blocks[j].len))
    /\ j' = j + 1
    /\ UNCHANGED <<lib, mem, pc, i, tt, r, trk, at, size, q, chunk, frames>>

EmitEof ==
    /\ pc = "data" /\ i <= Len(mem) /\ j > Len(mem[i].blocks)
    /\ image' = Append(image, DataRecord("eof", i, 0, 0))
    /\ i' = i + 1 /\ j' = 1
    /\ UNCHANGED <<lib, mem, pc, tt, r, trk, at, size, q, chunk, frames>>

EmitDone ==
    /\ pc = "data" /\ i > Len(mem)
    /\ pc' = "frame"
    /\ UNCHANGED <<lib, mem, i, j, tt, r, trk, at, size, image, q, chunk, frames>>

(***************************************************************************)
(* emit_xmit: the variable records.                                        *)
(***************************************************************************)

\* COPYR1, COPYR2 and each directory block; the end mark goes with the last.
FrameHead ==
    /\ pc = "frame" /\ q <= Len(image) /\ image[q].kind \in {"env", "dir"}
    /\ LET last == image[q + 1].kind = "eod"
       IN /\ frames' = Append(frames, IF last THEN <<q, q + 1>> ELSE <<q>>)
          /\ q' = IF last THEN q + 2 ELSE q + 1
    /\ UNCHANGED <<lib, mem, pc, i, j, tt, r, trk, at, size, image, chunk>>

SumLen(c) == Total([x \in DOMAIN c |-> image[c[x]].len], Len(c))

\* What ends a variable record once record q is in it.  Faulty variant: its
\* size only.
EndsBySize == SumLen(Append(chunk, q)) >= MaxText
EndsFrame == image[q].kind = "eof" \/ SumLen(Append(chunk, q)) >= MaxText

Overflows == chunk # << >> /\ SumLen(chunk) + image[q].len > MaxText

FrameBreak ==
    /\ pc = "frame" /\ q <= Len(image) /\ image[q].kind \in {"data", "eof"}
    /\ Overflows
    /\ frames' = Append(frames, chunk) /\ chunk' = << >>
    /\ UNCHANGED <<lib, mem, pc, i, j, tt, r, trk, at, size, image, q>>

FrameRecord ==
    /\ pc = "frame" /\ q <= Len(image) /\ image[q].kind \in {"data", "eof"}
    /\ ~Overflows
    /\ IF EndsFrame THEN frames' = Append(frames, Append(chunk, q)) /\ chunk' = << >>
       ELSE frames' = frames /\ chunk' = Append(chunk, q)
    /\ q' = q + 1
    /\ UNCHANGED <<lib, mem, pc, i, j, tt, r, trk, at, size, image>>

FrameDone ==
    /\ pc = "frame" /\ q > Len(image)
    /\ frames' = IF chunk = << >> THEN frames ELSE Append(frames, chunk)
    /\ chunk' = << >>
    /\ pc' = "done"
    /\ UNCHANGED <<lib, mem, i, j, tt, r, trk, at, size, image, q>>

Done == pc \in {"done", "refused"} /\ UNCHANGED vars

Next == \/ Size \/ Sort \/ AssignBlock \/ AssignEof \/ Directory
        \/ EmitBlock \/ EmitEof \/ EmitDone
        \/ FrameHead \/ FrameBreak \/ FrameRecord \/ FrameDone \/ Done

Spec == Init /\ [][Next]_vars

(***************************************************************************)
(* The way back.  IEBCOPY takes a variable record at a time: a directory   *)
(* block behind another one in it, or anything behind an end of file, is   *)
(* lost.  The rest is xmit370's reader.                                    *)
(***************************************************************************)
Lost(f, x) ==
    \E y \in 1..(x - 1) : \/ image[f[y]].kind = "eof"
                          \/ image[f[y]].kind = "dir" /\ image[f[x]].kind = "dir"
Reloaded == UNION {{f[x] : x \in {y \in DOMAIN f : ~Lost(f, y)}} : f \in {frames[z] : z \in DOMAIN frames}}

DirBlocks == {p \in Reloaded : image[p].kind = "dir"}
ReadDirectory == UNION {{image[p].ents[x] : x \in DOMAIN image[p].ents} : p \in DirBlocks}

\* member_bytes: from the first record at or behind the TTR to an end of file.
Data == {p \in Reloaded : image[p].kind \in {"data", "eof"}}
RelTrack(p) == image[p].cc * TrkPerCyl + image[p].hh
Here(p) == RelTrack(p) * RecBase + image[p].r
Least(S) == CHOOSE x \in S : \A y \in S : x <= y
MemberRecords(t, n) ==
    LET starts == {p \in Data : Here(p) >= t * RecBase + n}
        ends == IF starts = {} THEN {} ELSE {p \in Data : p >= Least(starts) /\ image[p].kind = "eof"}
    IN IF ends = {} THEN {} ELSE {p \in Data : p >= Least(starts) /\ p < Least(ends)}

-----------------------------------------------------------------------------
\* Properties.

Finished == pc = "done"

\* Every member and every alias comes back from the transmission with exactly
\* its member's blocks in order, and the text TTR names the first text block:
\* through sorting, packing, track and cylinder changes, and framing.
ReloadRecovers ==
    Finished =>
        \A x \in DOMAIN lib : \A name \in {lib[x].name} \union {lib[x].aliases[y] : y \in DOMAIN lib[x].aliases} :
            \E e \in ReadDirectory :
                LET recs == MemberRecords(e.tt, e.r)
                    texts == {y \in DOMAIN lib[x].blocks : lib[x].blocks[y].text}
                IN /\ e.name = name /\ e.alias = (name # lib[x].name)
                   /\ \A d \in ReadDirectory : d.name = name => d = e
                   /\ {<<image[p].name, image[p].block>> : p \in recs}
                         = {<<lib[x].name, y>> : y \in DOMAIN lib[x].blocks}
                   /\ \A p, s \in recs : p < s => image[p].block < image[s].block
                   /\ texts # {} => \E p \in recs : /\ image[p].block = Least(texts)
                                                  /\ <<RelTrack(p), image[p].r>> = e.text

\* A search by key finds every entry: the first directory block whose key is not
\* below the name holds it; no block overflows, and the end mark is in the last
\* block alone, which has the high key.
FoundByKey ==
    Finished =>
        /\ \A e \in ReadDirectory :
              \E p \in DirBlocks :
                  /\ e \in {image[p].ents[x] : x \in DOMAIN image[p].ents}
                  /\ image[p].key >= e.name
                  /\ \A o \in DirBlocks : o < p => image[o].key < e.name
        /\ \A p \in DirBlocks :
              LET ents == image[p].ents
                  used == 2 + Total([x \in DOMAIN ents |-> IF ents[x].alias THEN ALIASENT ELSE MEMENT], Len(ents))
              IN /\ used + (IF image[p].ff THEN FFENT ELSE 0) <= DirBlk
                 /\ image[p].ff <=> \A o \in DirBlocks : o <= p
                 /\ image[p].ff => image[p].key = HighName

\* No track is given more records than it physically holds, records on it are
\* numbered apart, and the extent in the header reaches the last track.
TracksHold ==
    Finished =>
        /\ \A t \in {RelTrack(p) : p \in Data} :
              LET on == {p \in Data : RelTrack(p) = t}
                  order == [x \in 1..Cardinality(on) |->
                              CHOOSE p \in on : Cardinality({o \in on : o < p}) = x - 1]
              IN /\ Total([x \in DOMAIN order |-> TrackOvh + image[order[x]].len - 12], Len(order)) <= TrackLen
                 /\ t < image[2].tracks
        /\ \A p, o \in Data : p < o => Here(p) < Here(o)

\* The buffer malloc'd before the members are sorted and laid out is exactly
\* filled, and nothing is ever written behind it.
ImageLength == Total([x \in DOMAIN image |-> image[x].len], Len(image))
SizeExact ==
    /\ pc \in {"data", "frame"} => ImageLength <= size
    /\ Finished => ImageLength = size
=============================================================================
