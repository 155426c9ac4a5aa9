------------------------------ MODULE MemoryMap ------------------------------
(***************************************************************************)
(* The Multiboot2 information as kernel/memory.c prints it and pmm_init    *)
(* reads it after that: two walks over the same tags, a list of records at *)
(* byte offsets that are multiples of 8, and over the entries of the       *)
(* memory map.  kprintf shows numbers of 64 bits as two words.             *)
(***************************************************************************)
EXTENDS Format, FiniteSets

CONSTANTS
  Infos,      \* what boot loaders hand over: sequences of tags, the last one "end"
  Kilo,       \* 1024
  Others      \* the fields that other callers of kprintf print

VARIABLES
  mbi,        \* the tags of this boot
  pc,
  at,         \* tag, as an offset from the start of the information
  meminfo,    \* offsets of the tags found; 0: none
  mmap_tag,
  entry, i,   \* the entry being read, as an offset, and the loop counter
  lines,      \* what was printed
  mmap        \* what pmm_init reads of the memory map

vars == <<mbi, pc, at, meminfo, mmap_tag, entry, i, lines, mmap>>
found == <<meminfo, mmap_tag>>

Wide   == Word * Word                      \* 64 bits
Type   == {"end", "other", "basic", "mmap"}
\* The first five names belong to the types 1 to 5 of multiboot2.h.
Memory == {"available", "reserved", "acpi_reclaimable", "nvs", "badram", "unknown"}
Region == [type : Memory, addr : 0 .. Wide - 1, len : 0 .. Wide - 1]
TagType == [type : Type, size : Nat, lower : Nat, upper : Nat,
            entry_size : Nat, entries : Seq(Region)]

\* A memory map tag is as long as its entries say, and entries are no shorter
\* than struct multiboot_mmap_entry; every tag holds at least type and size.
ASSUME MemoryMapAssumption ==
  /\ Kilo \in Nat /\ Others \subseteq Fields
  /\ \A info \in Infos :
       /\ info \in Seq(TagType) /\ info # <<>>
       /\ \A k \in DOMAIN info :
            /\ info[k].size >= 8
            /\ info[k].type = "end" <=> k = Len(info)
            /\ info[k].type = "mmap" =>
                 /\ info[k].entry_size >= 24
                 /\ info[k].size = 16 + info[k].entry_size * Len(info[k].entries)
                 /\ \A n \in DOMAIN info[k].entries :
                      info[k].entries[n].addr + info[k].entries[n].len < Wide
       /\ \A type \in {"basic", "mmap"} :       \* at most one of each
            Cardinality({k \in DOMAIN info : info[k].type = type}) <= 1
------------------------------------------------------------------------------
(***************************************************************************)
(* The bytes of the information: where its tags and entries start.         *)
(***************************************************************************)
RoundUp(size) == ((size + 7) \div 8) * 8

Starts(info) ==
  LET start[k \in 1 .. Len(info)] ==
        IF k = 1 THEN 8 ELSE start[k - 1] + RoundUp(info[k - 1].size)
  IN  start
Start == Starts(mbi)

TagNo(offset)  == CHOOSE k \in DOMAIN mbi : Start[k] = offset
OnTag(offset)  == \E k \in DOMAIN mbi : Start[k] = offset
Tag(offset)    == mbi[TagNo(offset)]

\* The entry of the memory map at an offset.
OnEntry(offset) ==
  \E n \in DOMAIN Tag(mmap_tag).entries :
    offset = mmap_tag + 16 + (n - 1) * Tag(mmap_tag).entry_size
Entry(offset) ==
  Tag(mmap_tag).entries[(offset - mmap_tag - 16) \div Tag(mmap_tag).entry_size + 1]

\* From one tag to the next; the mutant does not round.
NextTag_packed(offset) == offset + Tag(offset).size
NextTag(offset) == offset + ((Tag(offset).size + 7) \div 8) * 8

EntryCount(tag) == (tag.size - 16) \div tag.entry_size

\* pmm.c counts for itself.
PmmCount(tag) == (tag.size - 16) \div tag.entry_size

\* From one entry to the next.
Stride(tag) == tag.entry_size

\* pmm.c has steps of its own: to the next tag, and at four places of its loop to
\* the next entry.  Mutant: an entry that is not available is not left behind.
PmmNextTag(offset) == offset + ((Tag(offset).size + 7) \div 8) * 8

PmmNextEntry_stuck(offset) ==
  IF Entry(offset).type = "available" THEN offset + Tag(mmap_tag).entry_size ELSE offset
PmmNextEntry(offset) == offset + Tag(mmap_tag).entry_size
------------------------------------------------------------------------------
Shown(field) == [field |-> field, text |-> Converted(field)]
Line(label, fields) ==
  [label |-> label, fields |-> [n \in DOMAIN fields |-> Shown(fields[n])]]

u(value) == Field("u", FALSE, 0, value % Word)
\* 0x%x%08x; the mutant pads the low word with spaces.
Halves_spaces(value) ==
  <<Field("x", FALSE, 0, value \div Word), Field("x", FALSE, WordDigits, value % Word)>>
Halves(value) ==
  <<Field("x", FALSE, 0, value \div Word), Field("x", TRUE, WordDigits, value % Word)>>

\* Any other call of kprintf: counters, addresses, ticks.
kprintf(field) ==
  /\ pc = "start" /\ pc' = "elsewhere"
  /\ lines' = <<Line("other", <<field>>)>>
  /\ UNCHANGED <<mbi, at, found, entry, i, mmap>>

memory_print_map(info) ==
  /\ pc = "start" /\ pc' = "walk"
  /\ mbi' = info
  /\ at' = 8
  /\ UNCHANGED <<found, entry, i, lines, mmap>>

\* The loop over the tags; the information is walked to its end.
walk_tags ==
  /\ pc = "walk" /\ OnTag(at)
  /\ \/ /\ Tag(at).type = "end"
        /\ pc' = "basic"
        /\ UNCHANGED <<at, found>>
     \/ /\ Tag(at).type # "end"
        /\ meminfo' = IF Tag(at).type = "basic" THEN at ELSE meminfo
        /\ mmap_tag' = IF Tag(at).type = "mmap" THEN at ELSE mmap_tag
        /\ at' = NextTag(at)
        /\ pc' = pc
  /\ UNCHANGED <<mbi, entry, i, lines, mmap>>

BasicLines ==
  IF meminfo = 0 THEN <<>>
  ELSE <<Line("lower", <<u(Tag(meminfo).lower * Kilo)>>),
         Line("upper", <<u(Tag(meminfo).upper * Kilo)>>)>>

print_basic ==
  /\ pc = "basic"
  /\ i' = 0
  /\ \/ /\ mmap_tag = 0
        /\ lines' = BasicLines
        /\ pc' = "pmm" /\ at' = 8 /\ entry' = entry
     \/ /\ mmap_tag # 0
        /\ lines' = Append(BasicLines, Line("count", <<u(EntryCount(Tag(mmap_tag)))>>))
        /\ entry' = mmap_tag + 16
        /\ pc' = "region" /\ at' = at
  /\ UNCHANGED <<mbi, found, mmap>>

RegionFields(n, region) ==
  LET start == Halves(region.addr)
      end   == Halves((region.addr + region.len) % Wide)
  IN  <<u(n + 1), start[1], start[2], u(region.len), end[1], end[2]>>

print_region ==
  /\ pc = "region"
  /\ \/ /\ i < EntryCount(Tag(mmap_tag)) /\ OnEntry(entry)
        /\ lines' = Append(lines, Line(Entry(entry).type, RegionFields(i, Entry(entry))))
        /\ entry' = entry + Stride(Tag(mmap_tag))
        /\ i' = i + 1
        /\ UNCHANGED <<pc, at, mmap_tag>>
     \/ /\ i = EntryCount(Tag(mmap_tag))
        /\ pc' = "pmm" /\ at' = 8 /\ i' = 0 /\ mmap_tag' = 0
        /\ UNCHANGED <<lines, entry>>
  /\ UNCHANGED <<mbi, meminfo, mmap>>

\* pmm_find_mmap stops at the first memory map, or at the end without one.
pmm_find_mmap ==
  /\ pc = "pmm" /\ OnTag(at)
  /\ \/ /\ Tag(at).type = "end"
        /\ pc' = "done"
        /\ UNCHANGED <<at, mmap_tag, entry>>
     \/ /\ Tag(at).type = "mmap"
        /\ pc' = "pmm_region" /\ mmap_tag' = at /\ entry' = at + 16
        /\ at' = at
     \/ /\ Tag(at).type \notin {"end", "mmap"}
        /\ at' = PmmNextTag(at)
        /\ UNCHANGED <<pc, mmap_tag, entry>>
  /\ UNCHANGED <<mbi, meminfo, i, lines, mmap>>

pmm_init ==
  /\ pc = "pmm_region"
  /\ \/ /\ i < PmmCount(Tag(mmap_tag)) /\ OnEntry(entry)
        /\ mmap' = Append(mmap, Entry(entry))
        /\ entry' = PmmNextEntry(entry)
        /\ i' = i + 1 /\ pc' = pc
     \/ /\ i = PmmCount(Tag(mmap_tag))
        /\ pc' = "done"
        /\ UNCHANGED <<mmap, entry, i>>
  /\ UNCHANGED <<mbi, at, found, lines>>

Init ==
  /\ mbi = <<>> /\ pc = "start" /\ at = 0
  /\ meminfo = 0 /\ mmap_tag = 0 /\ entry = 0 /\ i = 0
  /\ lines = <<>> /\ mmap = <<>>

Reading == walk_tags \/ print_basic \/ print_region \/ pmm_find_mmap \/ pmm_init
Next ==
  \/ Reading
  \/ \E info \in Infos : memory_print_map(info)
  \/ \E field \in Others : kprintf(field)

Spec == Init /\ [][Next]_vars /\ WF_vars(Reading)
------------------------------------------------------------------------------
\* A field reads back as the number that was printed: %x and %p always, %d with
\* its sign unless zeros come before it, %u only below half of a word: itoa
\* takes a larger number for a negative one (vga.c:165, 276, 313).
Faithful(f, symbols) ==
  CASE f.spec \in {"x", "p"} -> Numeral(symbols) /\ Read(symbols, 16) = f.arg
    [] f.spec = "d" ->
         ~(f.zero /\ Negative(f.arg)) => Numeral(symbols) /\ Read(symbols, 10) = Signed(f.arg)
    [] f.spec = "u" ->
         ~Negative(f.arg) => Numeral(symbols) /\ Read(symbols, 10) = f.arg
FieldsExact ==
  \A n \in DOMAIN lines : \A k \in DOMAIN lines[n].fields :
    LET shown == lines[n].fields[k]
    IN  /\ Faithful(shown.field, shown.text)
        /\ Len(shown.text) >= IF shown.field.spec = "p" THEN WordDigits ELSE shown.field.width

\* The lines of the memory map say what its tag says, region by region: start
\* and end in full, joined from two words, the length below half a word, and
\* the number of regions (memory.c:84-103).
OfRegion(kept, line) == IF line.label \in Memory THEN Append(kept, line) ELSE kept
Printed == FoldLeft(OfRegion, <<>>, lines)
Joined(line, k) == Read(line.fields[k].text \o line.fields[k + 1].text, 16)
Told(line, region) ==
  /\ line.label = region.type
  /\ Numeral(line.fields[2].text \o line.fields[3].text)
  /\ Joined(line, 2) = region.addr
  /\ Joined(line, 5) = region.addr + region.len
  /\ region.len < Word \div 2 => Read(line.fields[4].text, 10) = region.len

MapTags == {k \in DOMAIN mbi : mbi[k].type = "mmap"}
Entries == IF MapTags = {} THEN <<>> ELSE mbi[CHOOSE k \in MapTags : TRUE].entries
RegionsExact ==
  pc \in {"pmm", "pmm_region", "done"} =>
    /\ Len(Printed) = Len(Entries)
    /\ \A n \in DOMAIN Entries : Told(Printed[n], Entries[n])

\* The allocator works with the map that was printed: two walks written twice,
\* one to the end and one to the first match, agree (memory.c:58, pmm.c:100).
PmmSeesThePrintedMap ==
  pc = "done" => /\ Len(mmap) = Len(Printed)
                 /\ \A n \in DOMAIN mmap : Told(Printed[n], mmap[n])

\* Both walks step from one tag, and from one entry, exactly to the next, whatever
\* the sizes are rounded to: a step that lands between two goes no further.
WalkEnds == pc = "walk" ~> pc = "done"
==============================================================================
