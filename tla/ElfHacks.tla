------------------------------ MODULE ElfHacks ------------------------------
(***************************************************************************)
(* src/client/elfhacks.c: finding a loaded object by name, checking its    *)
(* headers, looking a symbol up in its hash tables and redirecting its     *)
(* relocations.  Every function is an operator on the object as the        *)
(* dynamic linker loaded it; addresses are numbers, and the value of a     *)
(* symbol is its index in .symtab.                                         *)
(*                                                                         *)
(* A table is read where the code reads it: an index past the end of a     *)
(* hash table yields Beyond, whatever the memory there may hold.           *)
(***************************************************************************)
EXTENDS Naturals, Sequences, FiniteSetsExt

CONSTANTS
  Main,         \* dlpi_name of the main program, ""
  NoName,       \* st_name 0
  Null,         \* a pointer that is not set
  Beyond,       \* what is read past the end of a table
  WordBits      \* __ELF_NATIVE_CLASS

NotFound == 0   \* EAGAIN: index 0 of .symtab is no symbol

-----------------------------------------------------------------------------
\* Objects.  o.loads are the PT_LOAD segments, o.dynamics the number of PT_DYNAMIC
\* headers, o.dynamic is .dynamic without its DT_NULL.

\* Whether a name matches what is looked for: the names of a pattern, or NULL for
\* the main program.
Matches(match, name) == IF match = Null THEN name = Main ELSE name \in match

\* Mutant: the pattern is matched against every object.
NarrowedNever(match, name) == match

\* eh_find_callback puts the name of the object it has found in place of the
\* pattern, and the search goes on.
Narrowed(match, name) == IF match = Null THEN {} ELSE {name}

FindCallback(found, i, name) ==
  IF Matches(found.match, name)
  THEN [match |-> Narrowed(found.match, name), at |-> i]
  ELSE found

\* The index of the object of the link map that eh_find_obj fills in, 0 if none.
FindObj(map, pattern) ==
  LET after[i \in 0 .. Len(map)] ==
        IF i = 0 THEN [match |-> pattern, at |-> 0]
        ELSE FindCallback(after[i - 1], i, map[i].name)
  IN  after[Len(map)].at

CheckAddr(o, addr) ==
  \E load \in o.loads : addr # Null /\ addr \in load.vaddr .. (load.vaddr + load.memsz - 1)

Entries(o, tag) == {p \in DOMAIN o.dynamic : o.dynamic[p].tag = tag}

AddressOf(o, tag) ==
  IF Entries(o, tag) = {} THEN Null ELSE o.dynamic[Min(Entries(o, tag))].val

TableTags == {"STRTAB", "HASH", "GNU_HASH", "SYMTAB"}

\* Mutant: nothing is done about headers of the vdso.
AnyHeaders(o) == o.dynamics = 1 /\ \A tag \in TableTags : Cardinality(Entries(o, tag)) <= 1

\* eh_init_obj returns 0, not ENOTSUP.
Supported(o) ==
  /\ o.dynamics = 1
  /\ \A tag \in TableTags : Cardinality(Entries(o, tag)) <= 1
  /\ CheckAddr(o, AddressOf(o, "STRTAB")) /\ CheckAddr(o, AddressOf(o, "SYMTAB"))

\* The hash tables the object is searched in; the address of one is only checked
\* if it is the one found first.
HashTable(o) ==
  LET addr == AddressOf(o, "HASH") IN IF CheckAddr(o, addr) THEN addr ELSE Null

GnuHashTable(o) ==
  LET addr == AddressOf(o, "GNU_HASH")
  IN  IF AddressOf(o, "HASH") # Null \/ CheckAddr(o, addr) THEN addr ELSE Null

\* The objects whose callback eh_iterate_obj calls, one returning non-zero last.
IterateObj(map, stop) ==
  {i \in DOMAIN map :
     Supported(map[i]) /\ \A j \in 1 .. (i - 1) : ~(Supported(map[j]) /\ j \in stop)}

-----------------------------------------------------------------------------
\* Symbols.  o.symtab[i] is the name of symbol i, o.hashOf the hash of a name.

\* The search in DT_HASH.  It does not follow the links of the chain but reads the
\* links that lie one behind the other from the bucket's own on.
FindSymHash(o, name) ==
  LET first == o.hash.bucket[o.hashOf[name] % o.hash.nbucket]
      link(i) == IF first + i \in DOMAIN o.hash.chain THEN o.hash.chain[first + i] ELSE Beyond
      ends == {i \in 0 .. Cardinality(DOMAIN o.hash.chain) :
                 link(i) \in {0, Beyond} \/ o.symtab[link(i)] = name}
  IN  IF o.hash.nbucket = 0 THEN NotFound
      ELSE IF o.symtab[first] = name THEN first ELSE link(Min(ends))

\* Whether the Bloom filter lets a hash through.
MayHave(gnu, hash) ==
  LET word == gnu.bitmask[(hash \div WordBits) % Cardinality(DOMAIN gnu.bitmask)]
  IN  {hash % WordBits, (hash \div 2^gnu.shift) % WordBits} \subseteq word

\* Mutant: the lowest bit, which marks the end of a chain, is compared too.
SameHashAllBits(h1, h2) == h1 = h2
SameHash(h1, h2) == h1 \div 2 = h2 \div 2

\* The search in DT_GNU_HASH: a chain is a run of entries, the last of which has
\* its lowest bit set.
FindSymGnuHash(o, name) ==
  LET hash == o.hashOf[name]
      first == o.gnu.buckets[hash % o.gnu.nbuckets]
      chain == {i \in DOMAIN o.gnu.chain :
                  i >= first /\ \A j \in first .. (i - 1) : o.gnu.chain[j] % 2 = 0}
      matches == {i \in chain : SameHash(o.gnu.chain[i], hash) /\ o.symtab[i] = name}
  IN  IF o.gnu.nbuckets = 0 \/ ~MayHave(o.gnu, hash) \/ first = 0 \/ matches = {}
      THEN NotFound ELSE Min(matches)

\* Mutant: DT_HASH is only searched if there is no DT_GNU_HASH.
FindSymOneTable(o, name) ==
  IF GnuHashTable(o) # Null THEN FindSymGnuHash(o, name)
  ELSE IF HashTable(o) # Null THEN FindSymHash(o, name) ELSE NotFound

FindSym(o, name) ==
  IF GnuHashTable(o) # Null /\ FindSymGnuHash(o, name) # NotFound
  THEN FindSymGnuHash(o, name)
  ELSE IF HashTable(o) # Null THEN FindSymHash(o, name) ELSE NotFound

-----------------------------------------------------------------------------
\* Relocations.  The val of a JMPREL entry is its table, the symbol of each entry.

\* Mutant: only what follows is searched.
FindNextDynForward(o, tag, p) ==
  LET after == {q \in Entries(o, tag) : q > p} IN IF after = {} THEN Null ELSE Min(after)

\* The first entry with the tag behind p, else the first before it.
FindNextDyn(o, tag, p) ==
  LET after == {q \in Entries(o, tag) : q > p}
      before == {q \in Entries(o, tag) : q < p}
  IN  IF after # {} THEN Min(after) ELSE IF before # {} THEN Min(before) ELSE Null

\* What eh_set_rel and eh_iterate_rel make of the table at p.  Without DT_PLTREL
\* they read a pointer that is NULL.
TableStatus(o, p) ==
  LET pltrel == FindNextDyn(o, "PLTREL", p)
  IN  IF pltrel = Null THEN "crash"
      ELSE IF o.dynamic[pltrel].val \notin {"REL", "RELA"}
              \/ FindNextDyn(o, "PLTRELSZ", p) = Null
      THEN "EINVAL" ELSE "ok"

\* The relocations they go through: those of the tables before the first bad one.
Relocations(o) ==
  UNION {{<<p, k>> : k \in 1 .. o.dynamic[FindNextDyn(o, "PLTRELSZ", p)].val} :
           p \in {q \in Entries(o, "JMPREL") :
                    \A r \in Entries(o, "JMPREL") : r <= q => TableStatus(o, r) = "ok"}}

SymbolOf(o, slot) == o.symtab[o.dynamic[slot[1]].val[slot[2]]]

\* The slots eh_set_rel redirects.
SetRel(o, name) == {slot \in Relocations(o) : SymbolOf(o, slot) # NoName /\ SymbolOf(o, slot) = name}

SlotBefore(s, t) == s[1] < t[1] \/ (s[1] = t[1] /\ s[2] < t[2])

\* The slots eh_iterate_rel calls its callback for, up to one that returns non-zero.
IterateRel(o, stop) ==
  {slot \in Relocations(o) : \A s \in Relocations(o) \cap stop : ~SlotBefore(s, slot)}

-----------------------------------------------------------------------------
\* What the linker and the dynamic linker leave in an object (external).

\* The addresses in .dynamic are all relocated, or, in the vdso, none is.
RelocatedWhole(o) ==
  (\E tag \in TableTags : CheckAddr(o, AddressOf(o, tag))) =>
    \A tag \in TableTags : AddressOf(o, tag) # Null => CheckAddr(o, AddressOf(o, tag))

\* The links of DT_HASH lead to symbols.
HashLinked(o) ==
  /\ o.hash.nbucket \in Nat \ {0}
  /\ DOMAIN o.hash.chain = DOMAIN o.symtab
  /\ \A b \in 0 .. (o.hash.nbucket - 1) : o.hash.bucket[b] \in DOMAIN o.symtab
  /\ \A i \in DOMAIN o.symtab : o.hash.chain[i] \in DOMAIN o.symtab

\* DT_GNU_HASH has the symbols from symbias on, each with its hash in the chain of its
\* bucket, which goes on at least to the symbol, and in the Bloom filter.
GnuLinked(o) ==
  /\ o.gnu.nbuckets # 0 /\ o.gnu.symbias \in Nat \ {0}
  /\ DOMAIN o.gnu.chain = {i \in DOMAIN o.symtab : i >= o.gnu.symbias}
  /\ \A i \in DOMAIN o.gnu.chain :
       LET hash == o.hashOf[o.symtab[i]]
           first == o.gnu.buckets[hash % o.gnu.nbuckets]
       IN  /\ first \in DOMAIN o.gnu.chain /\ first <= i
           /\ \A j \in first .. (i - 1) : o.gnu.chain[j] % 2 = 0
           /\ o.gnu.chain[i] \div 2 = hash \div 2
           /\ MayHave(o.gnu, hash)

\* A table of relocations is as long as .dynamic says.
RelocationsSized(o) ==
  \A p \in Entries(o, "JMPREL"), q \in Entries(o, "PLTRELSZ") :
    o.dynamic[q].val \in Nat /\ DOMAIN o.dynamic[p].val = 1 .. o.dynamic[q].val

\* An object that is looked through for names.
WellLinked(o, names) ==
  /\ IsFiniteSet(DOMAIN o.dynamic) /\ DOMAIN o.dynamic \subseteq Nat
  /\ RelocatedWhole(o) /\ RelocationsSized(o)
  /\ \E n \in 1 .. Cardinality(DOMAIN o.symtab) : DOMAIN o.symtab = 0 .. (n - 1)
  /\ \A name \in names : o.hashOf[name] \in Nat
  /\ HashTable(o) # Null => HashLinked(o)
  /\ GnuHashTable(o) # Null => GnuLinked(o)

-----------------------------------------------------------------------------
\* The calls of a program that uses elfhacks: an object is looked for, then
\* searched or changed.

VARIABLES
  linkmap,   \* the loaded objects
  obj,       \* index of the object the last eh_find_obj returned, 0 if none
  answer     \* the last call: what was asked for and what it returned

elfVars == <<linkmap, obj, answer>>
NoAnswer == [call |-> "none"]
Object == linkmap[obj]

ElfFindObj(pattern) ==
  /\ obj = 0 /\ answer = NoAnswer
  /\ LET i == FindObj(linkmap, pattern)
     IN  /\ answer' = [call |-> "find_obj", for |-> pattern, ret |-> i]
         /\ obj' = IF i # 0 /\ Supported(linkmap[i]) THEN i ELSE 0
  /\ UNCHANGED linkmap

\* The calls on an object, or on all of them.
ElfAsk(call, for, ret) ==
  /\ answer' = [call |-> call, for |-> for, ret |-> ret]
  /\ UNCHANGED <<linkmap, obj>>

ElfIterateObj(stop) ==
  /\ obj = 0 /\ answer = NoAnswer
  /\ ElfAsk("iterate_obj", stop, IterateObj(linkmap, stop))

ElfFindSym(name) == obj # 0 /\ ElfAsk("find_sym", name, FindSym(Object, name))
ElfSetRel(name) == obj # 0 /\ ElfAsk("set_rel", name, SetRel(Object, name))

\* The callback returns non-zero for a relocation of the symbol.
ElfIterateRel(name) ==
  /\ obj # 0
  /\ ElfAsk("iterate_rel", name, IterateRel(Object, SetRel(Object, name)))

ElfNext(patterns, names) ==
  \/ \E pattern \in patterns : ElfFindObj(pattern)
  \/ \E stop \in SUBSET DOMAIN linkmap : ElfIterateObj(stop)
  \/ \E name \in names : ElfFindSym(name) \/ ElfSetRel(name) \/ ElfIterateRel(name)

-----------------------------------------------------------------------------
\* eh_find_obj finds the first object that matches the pattern, or a later one of
\* the same name.  The tables it returns the object with lie in its segments, the
\* headers of the vdso, whose addresses are not relocated, being refused.
ObjectFound ==
  /\ answer.call = "find_obj" =>
       LET matches == {i \in DOMAIN linkmap : Matches(answer.for, linkmap[i].name)}
       IN  IF matches = {} THEN answer.ret = 0
           ELSE answer.ret # 0 /\ linkmap[answer.ret].name = linkmap[Min(matches)].name
  /\ obj # 0 => \A table \in {HashTable(Object), GnuHashTable(Object)} \ {Null} :
                  CheckAddr(Object, table)

\* The symbols at the head of the name's chain in DT_HASH and behind it.
FirstTwo(o, name) ==
  LET first == o.hash.bucket[o.hashOf[name] % o.hash.nbucket] IN {first, o.hash.chain[first]}

\* The symbols with a name.
NamedBy(o, name) == {j \in DOMAIN o.symtab : o.symtab[j] = name}

\* A symbol that eh_find_sym returns is the one asked for.  It finds every symbol that
\* DT_GNU_HASH has, whatever else shares its bucket, and those that are first or second
\* in their chain of DT_HASH.
SymbolsReached ==
  answer.call = "find_sym" =>
    LET named == NamedBy(Object, answer.for)
    IN  /\ answer.ret \notin {NotFound, Beyond} => answer.ret \in named
        /\ GnuHashTable(Object) # Null /\ (\E j \in named : j >= Object.gnu.symbias)
             => answer.ret \in named
        /\ HashTable(Object) # Null /\ named \cap FirstTwo(Object, answer.for) # {}
             => answer.ret \in named

\* elfhacks.h: "Finds symbol in object's .dynsym and retrvieves its value."  DT_HASH has
\* all the symbols there are.
SymbolsFound ==
  answer.call = "find_sym" /\ HashTable(Object) # Null /\ NamedBy(Object, answer.for) # {}
    => answer.ret \in NamedBy(Object, answer.for)

\* An object with one table of relocations, and its kind and size, in any order.
OneTable(o) ==
  /\ \A tag \in {"JMPREL", "PLTREL", "PLTRELSZ"} : Cardinality(Entries(o, tag)) = 1
  /\ AddressOf(o, "PLTREL") \in {"REL", "RELA"}

\* Wherever the entries of .dynamic are, eh_set_rel changes all slots of the symbol
\* and no others, and eh_iterate_rel sees the slots up to the first of the symbol.
SlotsSet ==
  obj # 0 /\ OneTable(Object) =>
    LET table == AddressOf(Object, "JMPREL")
        slots == {k \in DOMAIN table : Object.symtab[table[k]] = answer.for}
    IN  /\ answer.call = "set_rel" => {slot[2] : slot \in answer.ret} = slots
        /\ answer.call = "iterate_rel" =>
             {slot[2] : slot \in answer.ret} =
               IF slots = {} THEN DOMAIN table ELSE 1 .. Min(slots)
=============================================================================
