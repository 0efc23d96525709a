---------------------------- MODULE MCGlc2Client ----------------------------
(***************************************************************************)
(* Small instances of Glc2Client: objects as a linker and the dynamic      *)
(* linker make them.                                                       *)
(***************************************************************************)
EXTENDS Glc2Client, TLC

CONSTANTS ctx1, ctx2, ctx3, win1, win2, win3, t1, t2, glc_start, listener, up, down, pbo1, pbo2

-----------------------------------------------------------------------------
\* Tables a linker builds for a symbol table and its hashes (external).

\* DT_HASH: each symbol is put in front of the chain of its bucket, in the order the
\* linker comes across them.
HashTables(symtab, hashOf, nbucket, order) ==
  LET after[k \in 0 .. Len(order)] ==
        IF k = 0 THEN [nbucket |-> nbucket, bucket |-> [b \in 0 .. (nbucket - 1) |-> 0],
                       chain |-> [i \in DOMAIN symtab |-> 0]]
        ELSE LET b == hashOf[symtab[order[k]]] % nbucket
             IN  [after[k - 1] EXCEPT !.chain[order[k]] = after[k - 1].bucket[b],
                                      !.bucket[b] = order[k]]
  IN  after[Len(order)]

\* DT_GNU_HASH of the symbols from symbias on, two words and a shift of one.
GnuTable(symtab, hashOf, nbuckets, symbias) ==
  LET hashed == {i \in DOMAIN symtab : i >= symbias}
      H(i) == hashOf[symtab[i]]
      In(b) == {i \in hashed : H(i) % nbuckets = b}
  IN  [nbuckets |-> nbuckets, symbias |-> symbias, shift |-> 1,
       buckets |-> [b \in 0 .. (nbuckets - 1) |-> IF In(b) = {} THEN 0 ELSE Min(In(b))],
       chain |-> [i \in hashed |->
                    2 * (H(i) \div 2) + (IF i = Max(In(H(i) % nbuckets)) THEN 1 ELSE 0)],
       bitmask |-> [w \in 0 .. 1 |->
                      UNION {{H(i) % WordBits, (H(i) \div 2) % WordBits} :
                               i \in {j \in hashed : (H(j) \div WordBits) % 2 = w}}]]

\* Symbols of DT_GNU_HASH are sorted by bucket.
Sorted(symtab, hashOf, nbuckets, symbias) ==
  \A i, j \in DOMAIN symtab :
    symbias <= i /\ i < j => hashOf[symtab[i]] % nbuckets <= hashOf[symtab[j]] % nbuckets

Entry(tag, val) == [tag |-> tag, val |-> val]

\* An object whose segment is 10 .. 19.
AnObject(name, dynamic, symtab, hashOf, hash, gnu) ==
  [name |-> name, loads |-> {[vaddr |-> 10, memsz |-> 10]}, dynamics |-> 1,
   dynamic |-> dynamic, symtab |-> symtab, hashOf |-> hashOf, hash |-> hash, gnu |-> gnu]

Strings == <<Entry("STRTAB", 11), Entry("SYMTAB", 12)>>
Relocated == <<Entry("HASH", 13), Entry("GNU_HASH", 14)>>

-----------------------------------------------------------------------------
\* Objects with three symbols and every hash function into few values.
Symtab == [i \in 0 .. 3 |-> <<NoName, "f", "g", "h">>[i + 1]]
HashFunctions == [SymbolNames -> {0, 1, 3, 6}]
Orders == {<<1, 2, 3>>, <<2, 3, 1>>}

Searched(dynamic, nbuckets, symbias) ==
  {<<AnObject("lib", Strings \o dynamic, Symtab, hashOf,
              HashTables(Symtab, hashOf, nbuckets, order),
              GnuTable(Symtab, hashOf, nbuckets, symbias))>> :
     order \in Orders, hashOf \in {h \in HashFunctions : Sorted(Symtab, h, nbuckets, symbias)}}

Searches ==
  UNION {Searched(dynamic, nbuckets, symbias) :
           dynamic \in {<<Relocated[1]>>, <<Relocated[2]>>, Relocated},
           nbuckets \in {1, 2}, symbias \in {1, 2}}

\* An object of which only the headers matter, or the relocations.
AnyHash == [n \in SymbolNames |-> 1]
Plain(name, dynamic) ==
  AnObject(name, dynamic, Symtab, AnyHash, HashTables(Symtab, AnyHash, 1, <<1, 2, 3>>),
           GnuTable(Symtab, AnyHash, 1, 1))

\* Entries of .dynamic in any order and number.
Relocations3 == {Entry("JMPREL", <<2, 0, 1, 2>>), Entry("PLTREL", "RELA"), Entry("PLTRELSZ", 4)}
Arrangements == UNION {{s \in [1 .. n -> Relocations3] : \A i, j \in 1 .. n : i # j => s[i] # s[j]} : n \in 0 .. 3}
Redirected ==
  {<<Plain("lib", a \o Strings \o b)>> : a \in Arrangements, b \in Arrangements}

\* Link maps with the vdso, whose addresses are not relocated, and an object twice.
Vdso(name) == Plain(name, <<Entry("STRTAB", 1), Entry("SYMTAB", 2), Entry("HASH", 3), Entry("GNU_HASH", 4)>>)
Odd ==
  {[Plain("odd", Strings) EXCEPT !.dynamics = 0],
   Plain("odd", Strings \o <<Entry("HASH", 13), Entry("HASH", 14)>>),
   Vdso("odd"), Vdso(Main), Plain("lib", Strings \o Relocated)}
Walked ==
  {<<Plain(Main, Strings \o Relocated), a, b, c>> :
     a \in {Plain("lib", Strings \o Relocated)} \cup Odd, b \in Odd,
     c \in {Plain("odd", Strings), Plain("lib2", Strings \o Relocated)}}

MCInspected == Searches \cup Redirected \cup Walked
MCPatterns == {Null, {"lib", "lib2"}, {"odd"}, {"none"}, {Main, "lib", "lib2", "odd"}}

-----------------------------------------------------------------------------
\* libdl and libc as glc_init finds them.
Library(name, names) ==
  LET symtab == [i \in 0 .. Len(names) |-> IF i = 0 THEN NoName ELSE names[i]]
      hashOf == [n \in DlSymbols \cup {LibcSymbol} |-> 1]
  IN  AnObject(name, Strings \o <<Relocated[2]>>, symtab, hashOf, Null,
               GnuTable(symtab, hashOf, 1, 1))

LibdlSo == Library("libdl", <<"dlsym", "dlopen", "dlvsym">>)
LibcSo == Library("libc", <<LibcSymbol>>)
MCLoaded ==
  {<<LibcSo, LibdlSo>>, <<LibcSo>>, <<LibdlSo>>,
   <<Library("libdl", <<"dlsym", "dlopen">>), LibcSo>>,
   <<LibdlSo, Library("libc", <<"dlsym">>)>>}

\* One function may be missing.
MCExports == {Hooks \ missing : missing \in {{}} \cup {{f} : f \in Hooks}}

\* Threads and contexts are interchangeable.
ContextSymmetry == Permutations(Renderers) \cup Permutations(Cells)

\* Nothing is said about behaviours in which calls have met that nothing keeps apart.
CallsApart == ~raced

MCListeners == <<glc_start, listener>>
=============================================================================
