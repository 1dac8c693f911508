------------------------------- MODULE Ar370 -------------------------------
(***************************************************************************)
(* The archive between ar370, which writes it, and ld370, which reads it.  *)
(* ar370 works out every header's offset before it writes anything and     *)
(* puts the offsets into the symbol table in front; ld370 walks the        *)
(* headers by their sizes and takes the table's offsets at their word.     *)
(* A member of the archive is represented by its header's name field, its  *)
(* size and what it holds; offsets are in bytes.                           *)
(***************************************************************************)
EXTENDS ObjectDeck

CONSTANTS
    SymLen,             \* length of a symbol's name
    MEMBER_NAME_MAX     \* longest file name ar370 takes

\* An input file: its name as --include compares it, that name's length, its
\* size in bytes and the object deck it holds.
File == [base : Names, len : Nat, size : Nat, deck : Deck]

Even(n) == n + (n % 2)
HDR == 60
MAGIC == 8

Exported(e) == e.type \in {T_SD, T_LD, T_PC, T_CM} /\ e.name # Blank

\* The symbols of one deck, in card order.
scan_esd(deck) == SelectSeq(deck.esd, Exported)

\* The symbol table: one entry per exported symbol of each file in turn.
Symbols(files) ==
    LET entries(k) == LET syms == scan_esd(files[k].deck)
                      IN [s \in DOMAIN syms |-> [name |-> syms[s].name, obj |-> k]]
        table[k \in 0..Len(files)] == IF k = 0 THEN << >> ELSE table[k - 1] \o entries(k)
    IN table[Len(files)]

\* Bytes of the first k entries of the string table.
StringTab(S) ==
    LET sum[k \in 0..Len(S)] == IF k = 0 THEN 0 ELSE sum[k - 1] + SymLen[S[k].name] + 1
    IN sum[Len(S)]

\* "name/" has to fit the 16 bytes of the name field.
IsLong(file) == file.len > 15

\* Where in the long-name member each file's name begins, and the member's end.
lnoff(files) ==
    LET off[k \in 1..(Len(files) + 1)] ==
            IF k = 1 THEN 0 ELSE off[k - 1] + (IF IsLong(files[k - 1]) THEN files[k - 1].len + 2 ELSE 0)
    IN off

Refused(files) == \E k \in DOMAIN files : files[k].len > MEMBER_NAME_MAX

\* create: the offsets the symbol table will hold, from the sizes alone.
objoff(files) ==
    LET S == Symbols(files)
        symdata == 4 + 4 * Len(S) + StringTab(S)
        lndata == lnoff(files)[Len(files) + 1]
        front == MAGIC + HDR + Even(symdata) + (IF lndata > 0 THEN HDR + Even(lndata) ELSE 0)
        off[k \in 1..(Len(files) + 1)] ==
            IF k = 1 THEN front ELSE off[k - 1] + HDR + Even(files[k - 1].size)
    IN off

\* create: the archive as written, member by member.
create(files) ==
    LET S == Symbols(files)
        at == lnoff(files)
        off == objoff(files)
        symtab == [kind |-> "symtab", size |-> 4 + 4 * Len(S) + StringTab(S),
                   sym |-> [s \in DOMAIN S |-> [name |-> S[s].name, off |-> off[S[s].obj]]]]
        long == {k \in DOMAIN files : IsLong(files[k])}
        names == [kind |-> "long", size |-> at[Len(files) + 1],
                  names |-> [lo \in {at[k] : k \in long} |-> files[CHOOSE k \in long : at[k] = lo].base]]
        member(k) ==
            [kind |-> IF k \in long THEN "byoff" ELSE "short",
             name |-> IF k \in long THEN Blank ELSE files[k].base,
             at |-> at[k], size |-> files[k].size, deck |-> files[k].deck]
    IN <<symtab>> \o (IF long # {} THEN <<names>> ELSE << >>)
       \o [k \in DOMAIN files |-> member(k)]

\* load_archive's walk: where each header is, by the sizes of those before it.
Headers(arch) ==
    LET at[k \in DOMAIN arch] == IF k = 1 THEN MAGIC ELSE at[k - 1] + HDR + Even(arch[k - 1].size)
    IN at

IsMember(m) == m.kind \in {"byoff", "short"}

\* load_archive: the index and the members.  An index offset is turned into the
\* place of the member whose header is there, 0 when no header is.
load_archive(arch) ==
    LET places == SelectSeq([k \in DOMAIN arch |-> k], LAMBDA k : IsMember(arch[k]))
        at == Headers(arch)
        place(off) == {q \in DOMAIN places : at[places[q]] = off}
        base(m) == IF m.kind = "short" THEN m.name ELSE arch[2].names[m.at]
    IN [sym |-> [s \in DOMAIN arch[1].sym |->
                    [name |-> arch[1].sym[s].name,
                     off |-> IF place(arch[1].sym[s].off) = {} THEN 0
                             ELSE CHOOSE q \in place(arch[1].sym[s].off) : TRUE]],
        mem |-> [q \in DOMAIN places |-> [base |-> base(arch[places[q]]), deck |-> arch[places[q]].deck]]]
=============================================================================
