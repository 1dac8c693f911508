# A verification project for the cc370 toolchain

cc370 is a cross toolchain for MVS 3.8: a C compiler (GCC 3.2.3 with an i370
back end), an assembler (as370), an archiver (ar370), a linkage editor
(ld370), a runtime library and tools around them.  This project models what
the toolchain adds to the compiler: the path of a program from the
statements as370 places, through its object deck, ar370's libraries and
ld370's search, symbol table, layout and record stream, to the library that
is unloaded, transmitted and read back on MVS, and the 64-bit helpers the
program calls there.  A mistake on this path is found last, on the target.

Line numbers without a file are those of `src/ld370/src/ld370.c`.
`PROJECT.json` maps every definition to its lines.

## Inventory

| Component | State it keeps | Operations | Hard part |
|---|---|---|---|
| as370 passes (`as370.c` 6653) | location counter, current section, per-section extents and parked counters, literal table, pool reservation | section, storage and pool statements, twice; chaining between the passes | both passes must move alike; a pool reserved early and placed late |
| as370 deck writer (8458 of `as370.c`) | ESD list, text log, relocations, REPRO places | number, punch ESD, TXT, RLD, END | card limits; one name with two ESD entries; cards cut at REPRO |
| ar370 | member list, symbol index | create, list, extract | offsets fixed before anything is written; duplicates kept, on which the search relies |
| Deck reader, `parse_object` (347) | one `struct obj`: local ESD by ESDID, LD items, RLD items, END entry | read one deck | ESDIDs beyond `MAXESD` are skipped |
| Library search, `do_includes` (737), `autocall` (676), `pull_definer` (643) | `O[]`, `pulled[]`, `nwarn` | force members in, sweep to a fixpoint, seed the entry point | the array a sweep walks grows under it; which definer is clean depends on what is loaded |
| Composite ESD, PASS 2 (2556) | `G[]`, `loc_g[]`, `dropped`, `ncomerr`, `nwarn` | intern, define, drop, merge commons, define labels, refuse | every order of definitions and references of one name must end well |
| Layout (2666) | `newaddr`, `object_base`, `org`, `gid`, `textend`, `modlen`, the image | compact, place, number, find the entry, copy, relocate | two coordinate systems once a duplicate is dropped |
| CESD records (2835) | open record, its count | emit, close | the last record |
| Text records (2889) | position in the origin-sorted sections and in a chunk | sort, pack, split, leave out, mark the end | limits, end mark |
| RLD records (2961) | open record, previous pair | emit, suppress a pair, break a record, close | state that must not survive a record break |
| Unload and XMIT writers (1276-1812) | directory, track position, variable record | size, sort, assign tracks, write directory and data, frame | limits of blocks, tracks and records; a size computed apart |
| Outputs (3014-3066) | files on disk | refuse names, probe, write | one of several writes failing |
| Runtime helpers (`src/runtime/src`) | two words | divide, multiply, trap on overflow, convert | carries and borrows between the words |
| xmit370 | file being read | list, extract, create | its reader closes the circle of the unload model |
| as370's macro processor and listing, cc370, the inspection tools | - | - | not modelled, see below |

Every program is one sequential process without threads, signals or retries;
nothing is persisted between runs but the files.  What is hard to test is
*order* (decks, members, references, sections may come in any), *coincidence*
(two sections at one origin, one name in two roles, a record that just fits),
*two computations that must agree* (pass 1 and pass 2, the offsets and the
archive, the size and the image, the search and PASS 2) and *state that is
stale when used*.  `PROJECT.json` lists these hazards with the line where
each bites.

The components are a pipeline: as370's deck is what `parse_object` reads;
ar370's index is what the search reads; the search's `O[]`, in load order, is
what PASS 2 merges; the table and `dropped` are what the layout moves;
origins, `textend` and the ESDIDs are what the record writers read; the
member's blocks are what the unload writer packs.

What makes each correct:

* assembler: pass 2 meets every statement where pass 1 put it, sections and
  pools do not overlap, the deck reads back as what was assembled;
* search: closed when it ends, nothing pulled without need, no member twice,
  a clean definer preferred, load order kept;
* link: first definition kept, no strong reference loses its strength or its
  diagnosis, and what was pulled for a name is what the name binds to;
* layout: every kept byte and address constant where the table says, every
  constant pointing at what it pointed at;
* records: every symbol under its ESDID, all text once, relocation items that
  a record-at-a-time reader recovers, one end mark;
* library: every name finds its member after unload, framing and reload;
* outputs: nothing touched by a refused command, nothing beside a member that
  is not there;
* runtime: the results C promises, at every edge of the words.

## Modules

| Module | Models | Notes |
|---|---|---|
| `AsmSections` | `do_pass` over statements that move the counter, literal pools, `assign_origins` | one action per kind of statement; both passes are one behaviour |
| `AsmDeck` | ESDIDs, the text log, `emit_obj`; `parse_object`'s card reader | starts from the ESD list and the emissions of pass 2; one action per turn of `emit_obj`'s loops, `card` is the card being filled |
| `AsmDeckProofs` | proofs about `AsmDeck` | |
| `ObjectDeck` | ESD item types, decks, `parse_object` | constants `Names`, `Blank`, `MAXESD` |
| `Ar370` | ar370's `create`, ld370's `load_archive` | builds the libraries of the runs, with byte offsets |
| `LinkJob` | a command line: decks, archives, `--include`, `--entry` | index soundness is an assumption, met by `Ar370` |
| `LibraryCall` | abstract specification of inclusion and autocall | a set of members grows by need until it is closed |
| `Autocall` | PASS 1 after the archives are loaded | refines `LibraryCall` |
| `CompositeEsd` | PASS 2 and the refusals | one action per kind of item |
| `CompositeEsdProofs` | lemmas about a step of PASS 2 | a table item by item; cited by `LinkProofs` |
| `Link` | PASS 1 followed by PASS 2 over one `O[]` | extends `Autocall`, instantiates `CompositeEsd` |
| `LinkProofs` | proofs about `Autocall` and `Link` | over `CompositeEsdProofs` |
| `Layout` | everything from PASS 2 to the relocated image | extends `CompositeEsd`, so the two run one after the other |
| `LayoutProofs` | proofs about `Layout` | over `CompositeEsdProofs` |
| `TextRecords` | origin sort and text records | starts from a placed module |
| `RldRecords` | RLD records | starts from the item list |
| `LoadModule` | CESD records, then `TextRecords`, then `RldRecords` | the member as program fetch reads it |
| `LoadModuleProofs` | proofs about `RldRecords` and `LoadModule` | |
| `Unload` | `unload_size`, `dir_layout`, `emit_unload`, `emit_xmit`'s framing; xmit370's reader | IEBCOPY's reload is external, from the comments at 1710 and 1728 |
| `UnloadProofs` | proofs about `Unload` | |
| `Outputs` | the end of `main`, and of `--pack` | the environment denies paths, writes come up short |
| `OutputsProofs` | proofs about `Outputs` | |
| `Runtime` | the 64-bit helpers | a call is a behaviour, a round of the division a step |
| `RuntimeProofs` | proofs about `Runtime` | |
| `MC...` | instances for TLC | |

### Correspondence

*Control* is kept action by action: one action is one turn of a loop or one
way through an `if`, and its guard is the condition with the earlier branches
negated.  Where C uses -1 for "none" the models use 0 (tables are 1-based).

*Data* is abstracted to what the properties tell apart.  Names are model
values or numbers in collating order.  A deck's ESD card bytes 13-15 are one
field, `len`, which for an LD is its owner's ESDID.  A byte of text is where
it came from (an object and address, a statement, a literal), so that "the
right byte is here" can be said.  An address constant holds its symbol's
input value plus `off`.  An RLD cell keeps its record, whether a prefix was
written (`rp`, 0 or 4 bytes), the address and the continuation bit.  A
statement of the assembler is its effect on the counter: size, alignment,
literal operand.  A file is how much of its new content it holds.  Messages
are left out, except as the counts that decide the return code.

Sizes of records, cards, tracks, directory blocks and words are constants, so
that the runs can make them small; the layouts of the runs are chosen around
the small limits as real ones would lie around the real limits.

In every module an operator marked *Faulty variant* is a mistake the code
could have; it stands before the definition it would replace and is used by
nothing but the mutants of `PROJECT.json`.

## Runs

Passing runs:

| Run | Shows | Bounds |
|---|---|---|
| `library_search` | `SearchClosed`, `OnlyNeeded`, `CleanDefinerPreferred`, `NeverTwice`, refinement of `LibraryCall`, `Termination` under weak fairness | all libraries of up to three members over six decks, in one or two archives, against two sets of explicit objects, with and without an entry; and over three decks with members forced in by name and symbol, repeated and missing |
| `link` | `DefinerUsed`, `RefusedWithReason`: search and PASS 2 agree; `StrongDiagnosed`, `FirstKept`, `RefusalExact`, `OnlyHardens`: the table | every load order of up to three of nine decks without a library; four sets of explicit decks against every library of up to three of five members, written by `create` and read by `load_archive`, with a long member name and odd table sizes, with and without a forced member |
| `layout` | `TextInPlace`, `AdconsRight`, `WarnedExactly`, `CommonsApart`, `EndEntryInPlace` | every load order of up to three of seven objects under `--allow-unresolved`; the first, second or both sections of an object may be dropped; END cards name a byte of the deck's first section, kept or dropped; a limit of 48 bytes lets `mod_reserve` refuse |
| `load_module` | `CesdReadsBack`, `TextWritten`, `IdsAccount`, `FetchReadsItems`, `EndedOnce` | up to three sections of 3 to 40 bytes in every table order against records of 16, all subsets without text under `--sparse-text`; two sections with a gap between them; every table of up to five items over three pairs against records of 20; one to seven symbols, three to a record |
| `asm_sections` | `PassesAgree`, `SectionsApart`, `TextInSection`, `NothingOverwritten` | every program of up to three statements out of fourteen; every first section left for another that is left, resumed or ended; START, EXTRN and CNOP programs |
| `asm_deck` | `SymbolsReadBack`, `TextReadBack`, `RelocationsReadBack`, `PunchedInPlace` | five sets of five declarations in every order; every four emissions out of six including REPRO; every four address constants out of six; three entries, five text bytes and 16 RLD bytes to a card |
| `unload` | `ReloadRecovers`, `FoundByKey`, `TracksHold`, `SizeExact` | one to three members of four shapes with up to two aliases, in and out of order, with duplicate names and blocks too long; tracks of two or three blocks, two tracks to a cylinder, three entries to a directory block |
| `outputs` | `RefusedUntouched`, `OpenedBeforeMember`, `MemberFirst` | every request and every disk; up to two paths unwritable, at the start or from any step on; every write may be short |
| `runtime` | `DivTruncates`, `OverflowExact`, `ConversionsExact` | words of six bits; all pairs of 35 double words at the edges; one-operand helpers on all 4096; exponents around the point where no shift is needed |

Three members are enough for a member pulled by a member pulled by an
explicit object, and for two definers of one name with a third object to make
one of them conflict.  Three objects are enough for any two definitions of a
name with a reference before, between or behind them.  Three sections give a
chunk that breaks in the middle, six statements a section that is left,
resumed and grown past its reserved pool.  The word of six bits keeps every
relation of the real one that the helpers use: half words, a sign bit, whole
digits; a double has four digits and a float one.  `MAXESD` is just above the
largest deck.

Runs that show a disagreement between the code and what it says of itself
(findings in `PROJECT.json`; each was also seen with the built tools):

| Run | Property | What happens |
|---|---|---|
| `cnop_overlap` | `SectionsApart` | a section that ends in CNOP is chained without it; the next one overlaps it |
| `end_section` | `EndNamesSection` | END names an entry that a V constant also names: the card carries the reference's ESDID |
| `drop_common` | `TextInPlace` | a common in an object with a dropped duplicate copies dropped text over kept text |

The passing runs keep away from these three cases by their inputs.
`NothingOverwritten` also leaves out programs with ORG, which may write over
anything on purpose.  In the following cases the code departs from its comments
or its manual as well; the properties exclude them by an explicit hypothesis or
the instances by their inputs (the first four were seen with the built tools):

* a name that is a label in one object and a section in another: the later
  definition overwrites the earlier (2607, 2590; the comment at 2602 says the
  first wins).  `AdconsRight` leaves out such names, and `FirstKept`,
  `RefusalExact`, `WarnedExactly` and `DefinerUsed` the links that have one: its
  second section is not dropped, so the labels in that section stay, and a
  name other than the mixed one may be bound to the later of two labels;
* an END entry in a section that is not the deck's first: as370 punches the
  address in the deck (`as370.c` 8353; dasm370's tests call it module-absolute,
  `run.sh` 1552), ld370 takes it for an offset in the section (278, 2757) and
  counts the section's origin twice (2766).  The deck of as370's test `endesd`
  has its entry at 000008, in a section at 000008; linked, it is entered at
  000010.  `EndEntryInPlace` speaks of END cards that name a byte of a section
  with deck origin 0, where the two readings agree, kept or dropped;
* an empty section that is dropped and shares its origin with a kept one, as
  as370 gives an empty section the origin of the next (`as370.c` 6489):
  compaction removes the kept one's span (2692; the comment at 2676 speaks of
  the span the dropped one occupied).  Sections A (empty), B and C of eight
  bytes linked behind another A leave B and C at the same origin.  The objects of
  `layout` have no empty section;
* a transport file that comes up short is not noticed (1530, 1790): return code
  0, where the manual says of 0 that the file "was written"
  (`docs/books/ref/ld370.typ` 581).  `Outputs` has the behaviour, and
  `MemberFirst` speaks of the member, whose write is checked;
* a common with a blank name is merged into an earlier object's private code
  (2566).  as370 writes none (`PrivateIsBlank`);
* a gap between two sections of one chunk (padding an assembler asked for with
  ORG or an alignment beyond the doubleword) belongs to no section of the
  control record's list (2932); `IdsAccount` speaks of sections that adjoin,
  `TextWritten` of all;
* an empty section that shares its origin with another makes the packer end a
  chunk early (2906);
* a module of common areas only gets no record with an end mark (2900);
  `EndedOnce` speaks of modules with text;
* a label of a section that PASS 2 drops: the search holds it for defined
  (526), so a library that defines it is not searched, and the link is refused
  with the advice to add the archive that is there already (2656).
  `RefusedWithReason` names this as the one reason besides a missing
  definition;
* a REPRO behind text that opens the implicit private code, with no CSECT or
  START in front of it: only those statements set `g_sect_seen` (`as370.c`
  6994), so the card is punched ahead of the ESD and of the text it stands
  behind, where the comment at 8461 speaks of cards ahead of the first control
  section.  The programs of `asm_deck` start with a CSECT or with REPROs.

`AsmSections` and `AsmDeck` were compared with the assembler itself: section
lengths, origins, label addresses, text and relocations of some three thousand
generated programs agree with the decks as370 writes for them.

**Fairness.** `FairSpec` of `Autocall`, used by `library_search`, is weak
fairness of the whole step: the linker is one process that runs until it ends,
so a step that can be taken is taken.  No other run needs fairness.

**Deadlock** is checked in every run; a finished program stutters.

## Theorems

`AsmDeckProofs`, for every number of entries, text bytes and relocation bytes
to a card (at least eight of the last, `CardsAssumption`) and every assembly in
which a name has the kind its declaration gives it, text lies in a declared
control section and what a constant or an entry point needs of its symbol was
declared (`AssembliesAssumption`: what pass 1 leaves or reports):

* `SymbolsAsAssembled`: `SymbolsReadBack`.  `EsdInv` says that the ESD cards
  and the one being filled read as the entries so far (`Decked`): the numbered
  ones under their ESDIDs, the labels that are kept one by one, and, what makes
  it inductive, that the card's first ESDID plus the numbered entries on it is
  the next ESDID to be given out, or that no numbered entry is on it yet;
* `TextAsAssembled`: `TextReadBack`.  `TextInv` is about bytes by their number in
  the log: byte x of an event, and of a card, is the byte some statement put at
  that address for that section (`Logged`, `CardText`), the cards carry the
  first `done` bytes, each once and in order (`Texted`), and `done` is where
  `pos` and `k` stand in the log (`Cut`).  That the last card over an address
  carries the last statement's byte follows, because both ascend with x
  (`LastAgree`);
* `PunchedInTheirPlace`: `PunchedInPlace`, for assemblies whose text is behind a
  CSECT or START (`Sectioned`; see above for the others).  `PunchInv` says that
  the REPRO cards out so far are those at or in front of `done`, in the order
  of the source, each behind exactly the bytes its statement is behind; a card
  never runs past the next one, which is what `Take` is for;
* `RelocationsAsAssembled`: `RelocationsReadBack`.  `RelInv` follows the
  relocations from the statements (`Relocs`) through the sort to the cards.
  The sort is a permutation in order: an element's rank counts the ones ahead of
  it, which makes ranks differ and fill `1..n` (`SortedIs`).  The cards are the
  first of the sorted relocations (`Placed`) and the card being filled the next
  ones (`RldPart`), whose last item never promises a successor; an item's R and
  P are those of the one item that leads it (`LeadOne`).

`LinkProofs`, first about `Autocall`, for all decks, libraries and command lines whose index
entries point at members that define them (`IndexAssumption`, what ar370
writes), any `MAXESD`:

* `TypeCorrect`, `LinksOnce`, `KeepsLoadOrder`, `PullsOnlyNeeded`,
  `PrefersClean`: invariants over `O[]` as a history.  An appended object
  fixes what was loaded before it, so the proof carries, besides types, that
  a pull happens with `is_defined` evaluated over exactly the objects in front
  of the new one (`HistoryInv`).
* `SearchReachesFixpoint`: the closure.  `SearchClosed` is not inductive; the
  strengthening `SweepInv` says that in a sweep that has pulled nothing yet every
  reference already passed, in objects up to the snapshot, is defined or has
  no candidate, and that nothing was appended behind the snapshot.  A pull
  sets `changed` and forgets the claim, which is why the sweep must be
  repeated.
* `SearchRefines`: every step is a step of `LibraryCall` or a stutter, with
  `linked <- pulled`.  The step that closes uses `SearchReachesFixpoint`'s
  invariant, the pulling ones `HitsTyped`.

`LoadModuleProofs`, first about `RldRecords`, for every item table and every limit of at least eight
bytes:

* `TypeCorrect`;
* `ReadsBack`: `FetchReadsItems`.  `ItemsRead` is inductive together with
  `TailInv`, which ties `prev` to the newest cell and says that this cell promises
  nothing yet; without it a suppressed prefix could not be matched to the pair in
  hand.  `HeadersRight` speaks of finished records, and the count of a record is
  patched into its header only when the next record is opened or the table is
  done, so `HdrInv` says that every closed record's header holds what its items
  and prefixes take, that for the open one `rec_data` does, and that none exceeds
  the limit;
* `EndsModule`: `ModuleEnded`.

`LinkProofs`, about `Link`, over `CompositeEsdProofs`, for all decks, libraries and command
lines as above whose labels have their section in the deck and whose only
unnamed section is private code (`ObjectsAssumption`), with no unnamed symbol
in an index (`IndexNamesAssumption`):

* `StrongReferencesResolved`, `FirstDefinitionKept`, `RefusedExactly`,
  `SymbolsOnlyHarden`: the table of PASS 2, in whatever order PASS 1 left the
  objects;
* `DefinerTaken`, `RefusalHasReason`: what ties the two passes together.

`FirstDefinitionKept`, `RefusedExactly` and `DefinerTaken` leave out links with a
mixed name, as the properties do.

The invariant `LinkInv` keeps the search's own invariants, now frozen, beside
four about the table.  `EsdType` says which items the loop has bound and that
every binding is a place of the table.  `Sound` says that an entry has one of
the shapes PASS 2 makes (section, common, label in a section, reference) and
that a bound section or strong reference left its mark on its entry.
`Accounted` says that a name has one entry, that an unresolved entry has a
strong reference behind it, and that a label which was not lost is answered.
`Merged` is the full account, item by item: the entry of a name holds the
first section met, or else the longest common, or else the first label; the
dropped sections are the later ones; and an outgrown common has been counted.
It is the part that a mixed name breaks, so it is carried under `NoMixed`.  A
step touches one entry (`Turn`), and the lemmas of `CompositeEsdProofs` say
what each kind of item may do to it.  `DefinerTaken` and `RefusalHasReason`
then read the search's history against the finished table.

`LayoutProofs`, over `CompositeEsdProofs`, for all objects in every load order,
any `MAXESD`, any limit and any `--entry`:

* `CommonAreasApart`: `CommonsApart`, without further hypothesis;
* `WarningsExact`: `WarnedExactly`, where private code is the only unnamed
  section (`Plain`);
* `SectionsInPlace`: `TextInPlace`, under `Regular`: `Plain`, no mixed name, and
  every object that loses a section is `Tidy`, that is, no two of its sections
  share an origin or overlap and it has no common area.  The run `drop_common`
  and the empty section above are what happens otherwise.  Objects that lose nothing may
  be of any shape;
* `ConstantsRight`: `AdconsRight`, under `Regular` and `Located`: a constant
  and a label lie in a section of their own deck, and a constant's symbol is in
  it;
* `EntryInPlace`: `EndEntryInPlace`, under `Regular`.  Where the END card's
  section is a dropped duplicate the byte is that of the section kept, which
  `NamedByte` finds in the image.

The hypotheses were compared with the run `layout` by TLC: `Plain` and `Located`
hold of all its links, `Regular` of all without a mixed name, among them links in
which a drop moves a kept section that has constants, and that end with a
warning and an END entry.

`LayInv` says how far the stages have come: each placed object ends, with its
compacted size, before the next one's base, and commons are stacked behind the
text.  How far a section moves is a count of bytes, those in front of it that
belong to dropped sections, so `Compacted` keeps sections apart because bytes of
a kept section are never counted (`KeptStays`, `CompactedApart`).  `TabInv`
carries PASS 2's `Merged` through the layout: a kept section's entry holds the
origin the stage gave it; a reference, and a later section of the name, is bound
to the first section or else the first label.  `ImgInv` says that the objects copied so far are in
the image: by the two above a byte has one writer, so no later copy disturbs
it.  `RelInv` says what each constant holds after its turn, `WarnInv` that
`nwarn` counts what PASS 2 and relocation have met so far, and `EntInv` what the
END loop found.

`LoadModuleProofs`, about `LoadModule`, for every number of symbols, every table of items and
every layout whose sections are not empty and do not overlap once padded to
doublewords (`Apart`), for every text limit that is a multiple of eight (as
all of `pick_maxtext`'s are):

* `SymbolsNumbered`: the open CESD record ends in front of the next ESDID, the
  closed ones have their counts and every ESDID given out is in one of them;
* `TextBroughtIn`, `ListsAccount`: the sort puts every section at one place
  (`Place` is shown to be a bijection by counting: it is injective, because of
  two sections one sorts before the other, and its values are `1..n`) and the
  text in front of the commons.  The chunk in hand is whole sections that fit,
  or one section from a multiple of eight on (`InChunk`); the records so far
  bring in what is wanted below the next byte (`UpTo`).  A limit that is not a
  multiple of eight would break this: the last record of a split section could
  start in its padding;
* `ItemsReadBack`: `ReadsBack` carried over to the composed writer;
* `EndMarkedOnce`: no text record carries the mark before all sections are
  packed, and none at all when RLD records follow.

`UnloadProofs`, for every list of members with at least one block each and
names up to the high key (`LibrariesAssumption`), every track geometry in which
a block fits a track and a byte numbers the records of one (`TrackAssumption`),
every directory block that holds the longest entry (`DirAssumption`) and every
record limit (`TextAssumption`):

* `TracksSuffice`: `TracksHold`.  `AssignInv` says that the records given so far
  (`Given`, in the order of member and block, a member's end mark last) were
  `Placed`: a witness `u` holds how full its track was once a record was put
  there, the next on the track adds to that, and a record number never exceeds
  what the track has been charged for.  The charge is the reason that a byte is
  enough; the extent COPYR2 announces is rounded up to whole cylinders, so it
  reaches the last track;
* `KeysFind`: `FoundByKey`.  The directory is sorted by name and cut into
  stretches: the entries of a block are consecutive, each is at most the length
  left by those in front of it, and the key of a block is its last name.  That
  the blocks cover the entries in order, with none empty and the end mark in the
  last, is shown of the recursive function `Blocks` by a least counterexample;
* `ReloadComplete`: `ReloadRecovers`.  `ImageInv` says that the image is the
  head, then exactly the records of `Given`, in ascending order (`Written`);
  `FrameInv` that every record in front of the next one is in a written
  variable record at a place where the reload does not lose it, or waits in the
  open one (`Framed`).  A TTR then leads to one record, because places differ,
  and from there the member's records follow one another up to its end mark;
* `SizeFits`: `SizeExact`.  `SizeInv` counts the bytes written so far.
  `unload_size` adds the members up as given and `emit_unload` writes them
  sorted, so the proof needs that a sum does not change when its terms are
  rearranged (`TotalReordered`).

`OutputsProofs`, for every request, every state of the disk and any number of
paths denied at any moment: `TypeCorrect`, `RefusedLeavesDisk`,
`ProbesBeforeMember`, `MemberWholeFirst`.  The invariant ties `pc` to the
files: a file that was probed is no longer the one from before, and behind the
member's write the member is whole.

`RuntimeProofs`, for words and digits of every size that
`WordAssumption`, `DigitAssumption` and `HalfAssumption` allow (a word of a whole
number of digits, more than two, and few enough to be counted in an exponent of
seven bits) and all arguments:

* `DivisionTruncates`: the loop invariant `Partial` says that quotient times
  divisor plus remainder are the dividend bits so far, that the rest of the
  dividend stands at the left of `n`, and that the remainder is below the
  divisor and below two to the rounds done.  The last part is why the shift of
  the remainder loses nothing, even when the divisor has its top bit on;
* `OverflowCaught`: each helper is one step, so the work is in what the
  operators compute.  `Adds`, `Subtracts`, `Negates` and `Multiplies` say it of
  the number a double word stands for; `MagnitudesMultiply` says that the three
  tests of `mulvdi3` together catch every product that needs a third word, and
  `FitsSigned` that the sign test catches the rest;
* `ConversionsRight`: `ConversionsExact`.  `ShiftsRight` and `ShiftsLeft` say
  that the shifts of two words divide and multiply by a power of two,
  `DigitsCounted` that `hexdigits` counts digits, `HalfAdds` that the half added
  for the round carries as it must.  A magnitude is at most half the width, so
  adding the half never leaves the double word (`CutRounds`), and what is cut
  off leaves at most the first number that is a digit too long, so one digit
  more in the exponent is enough when the round carries (`RoundsOnce`).  The
  unit that `RoundedValue` chooses is the only one there is (`UnitUnique`).

Powers of two are the recursive function `pow2`; that it doubles, and that
powers multiply, is proved from its definition (`Powers`, `PowersMultiply`); so
is what the recursive function in `hexdigits` counts.

Only model-checked: `Termination` (liveness under fairness and `ENABLED` are
outside the prover), the properties of `AsmSections` (they need the state of
pass 1 at every statement, which the module does not keep once the statement is
done), `TextInPlace` for links with a mixed name, which `layout` has, and the
runs that show a disagreement.  Operators declared `RECURSIVE` are outside the
prover too, which is why the modules use recursive functions; the library's induction
rules cannot be applied to a formula, but a least counterexample
(`LeastNumber`) does the same work where an induction over numbers is needed.

## Not modelled

* **cc370**, the compiler: some 500,000 of the repository's 529,000 lines of
  implementation are GCC 3.2.3 and libiberty, third-party code.  The lines the
  modules cover are therefore a small share of the repository, though they
  include the core of each of the toolchain's own programs that write
  something.
* as370's macro processor, expressions, instruction encoding, USING/DROP and
  listing: text processing whose reference is IFOX00's decks.
* ld370's option parsing, the map's text, `split_member`, directory user data,
  INMR text units and NETDATA segments; reading members back in `--pack`.
* ar370's listing and extraction, xmit370 but for its library reader, the
  load module reader of `common`, the inspection tools: they change nothing.
* the runtime's bit counting.
* external dummy sections, which the manual says ld370 does not resolve; TXT
  cards that leave part of a section uncovered, except for `--sparse-text`;
  RLD items with the subtract flag; EQU aliases of relocation targets.
* crashes: no program recovers from one, a rerun writes its files anew.

## Plan

What is left is proof: `PassesAgree` of `AsmSections`, by a function that gives
pass 1's state at every statement and an invariant that ties both passes to it,
and from it the other properties of that module, for programs in which storage
follows every CNOP (`cnop_overlap` shows why).
