--------------------------- MODULE Glc2ClientProofs ---------------------------
(***************************************************************************)
(* The client inside the captured program.  Its parts share no variable,   *)
(* so each has an inductive invariant of its own, that holds in all kinds  *)
(* of behaviours.                                                          *)
(***************************************************************************)
EXTENDS Glc2Client, RecursionProofs, SequenceTheorems, FiniteSetTheorems

-----------------------------------------------------------------------------
\* An element in front of a sequence.
LEMMA InFront ==
  ASSUME NEW S, NEW s \in Seq(S), NEW x \in S
  PROVE  /\ <<x>> \o s \in Seq(S)
         /\ Len(<<x>> \o s) = Len(s) + 1
         /\ Len(s) \in Nat
         /\ (<<x>> \o s)[1] = x
         /\ \A i \in 1 .. Len(s) : (<<x>> \o s)[i + 1] = s[i]
<1>1. <<x>> \in Seq(S) /\ Len(<<x>>) = 1 /\ <<x>>[1] = x
  OBVIOUS
<1>2. Len(s) \in Nat
  BY LenProperties
<1>3. /\ <<x>> \o s \in Seq(S)
      /\ Len(<<x>> \o s) = Len(<<x>>) + Len(s)
      /\ \A i \in 1 .. Len(<<x>>) + Len(s) :
           (<<x>> \o s)[i] = IF i <= Len(<<x>>) THEN <<x>>[i] ELSE s[i - Len(<<x>>)]
  BY <1>1, ConcatProperties
<1> QED
  BY <1>1, <1>2, <1>3

\* An element taken out of a sequence.
LEMMA Shortened ==
  ASSUME NEW S, NEW s \in Seq(S), NEW i \in 1 .. Len(s)
  PROVE  /\ RemoveAt(s, i) \in Seq(S)
         /\ Len(s) \in Nat /\ Len(RemoveAt(s, i)) = Len(s) - 1
         /\ \A j \in 1 .. (Len(s) - 1) :
              RemoveAt(s, i)[j] = IF j < i THEN s[j] ELSE s[j + 1]
<1>1. PICK n \in Nat : n = Len(s)
  BY LenProperties
<1>2. i \in 1 .. n /\ \A j \in 1 .. n : s[j] \in S
  BY <1>1, ElementOfSeq
<1>3. PICK l : l = SubSeq(s, 1, i - 1)
  OBVIOUS
<1>4. PICK r : r = SubSeq(s, i + 1, n)
  OBVIOUS
<1>5. l \in Seq(S) /\ Len(l) = i - 1 /\ \A j \in 1 .. (i - 1) : l[j] = s[j]
  BY <1>2, <1>3, SubSeqProperties
<1>6. r \in Seq(S) /\ Len(r) = n - i /\ \A j \in 1 .. (n - i) : r[j] = s[i + j]
  BY <1>2, <1>4, SubSeqProperties
<1>7. RemoveAt(s, i) = l \o r
  BY <1>1, <1>3, <1>4 DEF RemoveAt
<1>8. /\ l \o r \in Seq(S) /\ Len(l \o r) = Len(l) + Len(r)
      /\ \A j \in 1 .. Len(l) + Len(r) :
           (l \o r)[j] = IF j <= Len(l) THEN l[j] ELSE r[j - Len(l)]
  BY <1>5, <1>6, ConcatProperties
<1>9. PICK c : c = l \o r
  OBVIOUS
<1>10. Len(c) = n - 1
  <2>1. Len(c) = Len(l) + Len(r)
    BY <1>8, <1>9
  <2> QED
    BY <1>2, <1>5, <1>6, <2>1
<1>11. ASSUME NEW j \in 1 .. (n - 1)
       PROVE  c[j] = IF j < i THEN s[j] ELSE s[j + 1]
  <2>1. c[j] = IF j <= i - 1 THEN l[j] ELSE r[j - (i - 1)]
    BY <1>2, <1>5, <1>6, <1>8, <1>9
  <2>2. CASE j < i
    BY <1>2, <1>5, <2>1, <2>2
  <2>3. CASE j >= i
    <3>1. j - (i - 1) \in 1 .. (n - i) /\ i + (j - (i - 1)) = j + 1 /\ ~(j <= i - 1)
      BY <1>2, <2>3
    <3>2. r[j - (i - 1)] = s[i + (j - (i - 1))]
      BY <1>6, <3>1
    <3> QED
      BY <1>2, <2>1, <2>3, <3>1, <3>2
  <2> QED
    BY <1>2, <2>2, <2>3
<1> QED
  BY <1>1, <1>7, <1>8, <1>9, <1>10, <1>11

\* The first occurrence of an element is taken out, or there is none.
LEMMA FirstRemoved ==
  ASSUME NEW S, NEW s \in Seq(S), NEW e
  PROVE  \/ e \notin ToSet(s) /\ RemoveFirst(s, e) = s
         \/ \E i \in 1 .. Len(s) : s[i] = e /\ RemoveFirst(s, e) = RemoveAt(s, i)
<1>0. DOMAIN s = 1 .. Len(s) /\ Len(s) \in Nat
  BY LenProperties
<1> DEFINE I == {i \in 1 .. Len(s) : s[i] = e}
<1>1. CASE I = {}
  BY <1>0, <1>1 DEF RemoveFirst, ToSet
<1>2. CASE I # {}
  <2>1. SelectInSeq(s, LAMBDA v : v = e) = Min(I)
    BY <1>2 DEF SelectInSeq
  <2>2. RemoveFirst(s, e) = RemoveAt(s, Min(I))
    BY <1>2, <2>1 DEF RemoveFirst
  <2>3. Min(I) \in I
    <3>1. I \in SUBSET Nat
      BY <1>0
    <3> HIDE DEF I
    <3>2. \E i \in I : \A j \in I : i <= j
      BY <1>2, <3>1, SmallestOf
    <3> QED
      BY <3>2 DEF Min
  <2> QED
    BY <2>2, <2>3
<1> QED
  BY <1>1, <1>2

\* Sequences without repetition.
Different(s) == \A i, j \in 1 .. Len(s) : s[i] = s[j] => i = j

LEMMA DifferentInFront ==
  ASSUME NEW S, NEW s \in Seq(S), Different(s), NEW k \in S, k \notin ToSet(s)
  PROVE  /\ <<k>> \o s \in Seq(S) /\ Different(<<k>> \o s)
         /\ ToSet(<<k>> \o s) = ToSet(s) \cup {k}
<1>1. PICK t : t = <<k>> \o s
  OBVIOUS
<1>2. PICK n \in Nat : n = Len(s)
  BY LenProperties
<1>3. /\ t \in Seq(S) /\ Len(t) = n + 1 /\ t[1] = k
      /\ \A i \in 1 .. n : t[i + 1] = s[i]
  BY <1>1, <1>2, InFront
<1>4. DOMAIN s = 1 .. n /\ DOMAIN t = 1 .. (n + 1)
  BY <1>2, <1>3, LenProperties
<1>5. \A i \in 1 .. (n + 1) : i = 1 \/ (i - 1 \in 1 .. n /\ (i - 1) + 1 = i)
  OBVIOUS
<1>6. \A i \in 1 .. (n + 1) : i = 1 \/ t[i] = s[i - 1]
  BY <1>3, <1>5
<1>7. \A i \in 1 .. n : s[i] # k
  BY <1>4 DEF ToSet
<1>8. Different(t)
  <2> SUFFICES ASSUME NEW i \in 1 .. (n + 1), NEW j \in 1 .. (n + 1), t[i] = t[j]
               PROVE  i = j
    BY <1>3 DEF Different
  <2>1. CASE i = 1 \/ j = 1
    BY <1>3, <1>5, <1>6, <1>7, <2>1
  <2>2. CASE i # 1 /\ j # 1
    <3>1. i - 1 = j - 1
      BY <1>2, <1>5, <1>6, <2>2 DEF Different
    <3> QED
      BY <3>1
  <2> QED
    BY <2>1, <2>2
<1>9. ToSet(t) = ToSet(s) \cup {k}
  <2>1. \A i \in 1 .. n : i + 1 \in 1 .. (n + 1)
    OBVIOUS
  <2>2. 1 \in 1 .. (n + 1)
    OBVIOUS
  <2>3. \A x \in ToSet(t) : x \in ToSet(s) \cup {k}
    BY <1>3, <1>4, <1>5, <1>6 DEF ToSet
  <2>4. \A x \in ToSet(s) \cup {k} : x \in ToSet(t)
    <3>1. k = t[1] /\ 1 \in DOMAIN t
      BY <1>3, <1>4, <2>2
    <3>2. \A i \in DOMAIN s : i + 1 \in DOMAIN t /\ t[i + 1] = s[i]
      BY <1>3, <1>4, <2>1
    <3> QED
      BY <3>1, <3>2 DEF ToSet
  <2> QED
    BY <2>3, <2>4
<1> QED
  BY <1>1, <1>3, <1>8, <1>9

LEMMA DifferentRemoved ==
  ASSUME NEW S, NEW s \in Seq(S), Different(s), NEW k
  PROVE  /\ RemoveFirst(s, k) \in Seq(S) /\ Different(RemoveFirst(s, k))
         /\ ToSet(RemoveFirst(s, k)) = ToSet(s) \ {k}
<1>1. PICK t : t = RemoveFirst(s, k)
  OBVIOUS
<1>2. PICK n \in Nat : n = Len(s)
  BY LenProperties
<1>3. DOMAIN s = 1 .. n
  BY <1>2, LenProperties
<1>4. CASE k \notin ToSet(s) /\ t = s
  BY <1>1, <1>4
<1>5. CASE \E i \in 1 .. Len(s) : s[i] = k /\ t = RemoveAt(s, i)
  <2>1. PICK i \in 1 .. n : s[i] = k /\ t = RemoveAt(s, i)
    BY <1>2, <1>5
  <2>2. /\ t \in Seq(S) /\ Len(t) = n - 1
        /\ \A j \in 1 .. (n - 1) : t[j] = IF j < i THEN s[j] ELSE s[j + 1]
    BY <1>2, <2>1, Shortened
  <2>3. DOMAIN t = 1 .. (n - 1)
    BY <2>2, LenProperties
  <2>4. \A j \in 1 .. n : s[j] = k => j = i
    BY <1>2, <2>1 DEF Different
  <2>5. ASSUME NEW j \in 1 .. (n - 1)
        PROVE  \E l \in 1 .. n : l # i /\ t[j] = s[l] /\ j = IF l < i THEN l ELSE l - 1
    <3>1. CASE j < i
      BY <2>2, <3>1
    <3>2. CASE j >= i
      <4>1. j + 1 \in 1 .. n /\ j + 1 # i /\ ~(j + 1 < i) /\ (j + 1) - 1 = j /\ ~(j < i)
        BY <3>2
      <4> QED
        BY <2>2, <4>1
    <3> QED
      BY <3>1, <3>2
  <2>6. Different(t)
    <3> SUFFICES ASSUME NEW p \in 1 .. (n - 1), NEW q \in 1 .. (n - 1), t[p] = t[q]
                 PROVE  p = q
      BY <2>2 DEF Different
    <3>1. PICK l \in 1 .. n : l # i /\ t[p] = s[l] /\ p = IF l < i THEN l ELSE l - 1
      BY <2>5
    <3>2. PICK m \in 1 .. n : m # i /\ t[q] = s[m] /\ q = IF m < i THEN m ELSE m - 1
      BY <2>5
    <3>3. l = m
      BY <1>2, <3>1, <3>2 DEF Different
    <3> QED
      BY <3>1, <3>2, <3>3
  <2>7. ASSUME NEW x \in ToSet(t)
        PROVE  x \in ToSet(s) \ {k}
    <3>1. PICK j \in 1 .. (n - 1) : x = t[j]
      BY <2>3, <2>7 DEF ToSet
    <3>2. PICK l \in 1 .. n : l # i /\ t[j] = s[l]
      BY <2>5
    <3> QED
      BY <1>3, <2>4, <3>1, <3>2 DEF ToSet
  <2>8. ASSUME NEW x \in ToSet(s) \ {k}
        PROVE  x \in ToSet(t)
    <3>1. PICK l \in 1 .. n : x = s[l] /\ l # i
      BY <1>3, <2>1, <2>8 DEF ToSet
    <3>2. PICK j : j = IF l < i THEN l ELSE l - 1
      OBVIOUS
    <3>3. j \in 1 .. (n - 1) /\ (IF j < i THEN j ELSE j + 1) = l
      BY <3>1, <3>2
    <3>4. t[j] = s[l]
      BY <2>2, <3>3
    <3> QED
      BY <2>3, <3>1, <3>3, <3>4 DEF ToSet
  <2> QED
    BY <1>1, <2>2, <2>6, <2>7, <2>8
<1> QED
  BY <1>1, <1>4, <1>5, FirstRemoved

-----------------------------------------------------------------------------
\* Pixel buffer objects.

\* The functions are there as soon as anything is done with a buffer.
FunctionsFound ==
  /\ ~nullcall
  /\ pbo_init => resolved = AllFunctions
  /\ \A p \in Pbos : pbo[p] # "none" => pbo_init
  /\ reads # << >> => pbo_init

\* The calls in progress, innermost first, are for different buffers, which are
\* active and mapped; the innermost has its buffer bound, each of the others will
\* find its own when the one inside has put it back, and the outermost puts back
\* what the program has bound.
Nested ==
  /\ mapped = {reads[i].id : i \in 1 .. Len(reads)}
  /\ \A i \in 1 .. Len(reads) : pbo[reads[i].id] = "active"
  /\ \A i, j \in 1 .. Len(reads) : reads[i].id = reads[j].id => i = j
  /\ bound = IF reads = << >> THEN program ELSE reads[1].id
  /\ \A i \in 1 .. Len(reads) :
       reads[i].binding = IF i = Len(reads) THEN program ELSE reads[i + 1].id

PboInv == PboTypeOK /\ FunctionsFound /\ (~refused => Nested)

LEMMA SevenFunctions ==
  /\ Len(Functions) = 7
  /\ AllFunctions = {"glXGetProcAddress", "glGenBuffers", "glDeleteBuffers", "glBufferData",
                     "glBindBuffer", "glMapBuffer", "glUnmapBuffer"}
<1>1. Len(Functions) = 7
  BY DEF Functions
<1>2. DOMAIN Functions = {1, 2, 3, 4, 5, 6, 7}
  BY DEF Functions
<1> QED
  BY <1>1, <1>2 DEF AllFunctions, Functions

LEMMA PboInitially ==
  ASSUME PboInit
  PROVE  PboInv
<1>1. PboTypeOK
  <2>1. reads = << >> /\ offered = 0
    BY DEF PboInit
  <2>2. reads \in Seq([id : Pbos, binding : Bindings])
    BY <2>1, EmptySeq
  <2>3. offered \in 0 .. Len(Functions)
    BY <2>1, SevenFunctions
  <2> QED
    BY <2>2, <2>3 DEF PboInit, PboTypeOK, Bindings, Programs
<1>2. FunctionsFound
  BY DEF PboInit, FunctionsFound
<1>3. Len(reads) = 0
  BY DEF PboInit
<1>4. Nested
  <2>1. 1 .. Len(reads) = {}
    BY <1>3
  <2> QED
    BY <2>1 DEF PboInit, Nested
<1> QED
  BY <1>1, <1>2, <1>4 DEF PboInv

\* What the functions looked up are called for.
LEMMA PboFound ==
  ASSUME NEW current \in BOOLEAN, PboInv, Initialize(current)
  PROVE  /\ resolved' \subseteq AllFunctions /\ pbo_init' \in BOOLEAN
         /\ pbo_init => pbo_init'
         /\ pbo_init' => resolved' = AllFunctions
<1>1. offered \in 0 .. 7 /\ DOMAIN Functions = 1 .. 7
  BY SevenFunctions DEF PboInv, PboTypeOK, Functions
<1>2. \A n \in 0 .. 7 : Resolved(n) \subseteq AllFunctions \cup resolved
  BY <1>1, SevenFunctions DEF Resolved, AllFunctions
<1>3. offered = 7 => Resolved(offered) = AllFunctions
  BY <1>1, SevenFunctions DEF Resolved, AllFunctions
<1> QED
  BY <1>1, <1>2, <1>3, SevenFunctions
  DEF Initialize, InitDone, PboInv, PboTypeOK, FunctionsFound

\* The list of the calls in progress.
LEMMA ReadsTyped ==
  ASSUME PboTypeOK
  PROVE  /\ DOMAIN reads = 1 .. Len(reads) /\ Len(reads) \in Nat
         /\ \A i \in 1 .. Len(reads) : reads[i].id \in Pbos /\ reads[i].binding \in Bindings
         /\ reads # << >> => 1 \in 1 .. Len(reads)
<1> DEFINE S == [id : Pbos, binding : Bindings]
<1>1. reads \in Seq(S)
  BY DEF PboTypeOK
<1>2. \A i \in 1 .. Len(reads) : reads[i] \in S
  BY <1>1, ElementOfSeq
<1>3. DOMAIN reads = 1 .. Len(reads) /\ Len(reads) \in Nat
  BY <1>1, LenProperties
<1>4. reads # << >> => Len(reads) \in Nat \ {0}
  BY <1>1, EmptySeq
<1> QED
  BY <1>2, <1>3, <1>4

\* A step that leaves the calls in progress alone, and what they will put back.
LEMMA NestedKept ==
  ASSUME PboTypeOK, Nested, reads' = reads, program' = program, mapped' = mapped,
         bound' = bound, \A i \in 1 .. Len(reads) : pbo'[reads[i].id] = "active"
  PROVE  Nested'
BY DEF Nested

LEMMA PboStep ==
  ASSUME PboInv, PboNext
  PROVE  PboInv'
<1> DEFINE Goes == PboInv'
<1> SUFFICES Goes
  OBVIOUS
<1>0. PboTypeOK /\ FunctionsFound /\ (~refused => Nested)
  BY DEF PboInv
<1>g. ASSUME PboTypeOK', FunctionsFound', ~refused' => Nested'
      PROVE  Goes
  BY <1>g DEF PboInv
<1>r. /\ DOMAIN reads = 1 .. Len(reads) /\ Len(reads) \in Nat
      /\ \A i \in 1 .. Len(reads) : reads[i].id \in Pbos /\ reads[i].binding \in Bindings
      /\ reads # << >> => 1 \in 1 .. Len(reads)
  BY <1>0, ReadsTyped
<1> HIDE DEF Goes
<1>1. ASSUME NEW n \in 0 .. Len(Functions), SwitchDriver(n)
      PROVE  Goes
  <2>1. PboTypeOK' /\ FunctionsFound'
    BY <1>0, <1>1 DEF SwitchDriver, PboTypeOK, FunctionsFound
  <2>2. ~refused' => Nested'
    BY <1>0, <1>1 DEF SwitchDriver, Nested
  <2> QED
    BY <2>1, <2>2, <1>g
<1>2. ASSUME NEW b \in Programs, ProgramBinds(b)
      PROVE  Goes
  <2>1. PboTypeOK' /\ FunctionsFound'
    BY <1>0, <1>2 DEF ProgramBinds, PboTypeOK, FunctionsFound, Bindings
  <2>2. reads = << >> /\ reads' = reads /\ Len(reads) = 0 /\ mapped' = mapped /\ pbo' = pbo
    BY <1>2 DEF ProgramBinds
  <2>3. bound' = program' /\ refused' = refused
    BY <1>2 DEF ProgramBinds
  <2>4. 1 .. Len(reads) = {}
    BY <2>2
  <2>5. ~refused' => Nested'
    BY <1>0, <2>2, <2>3, <2>4 DEF Nested
  <2> QED
    BY <2>1, <2>5, <1>g
<1>3. ASSUME NEW current \in BOOLEAN, PboSupported(current)
      PROVE  Goes
  <2>1. Initialize(current)
    BY <1>3 DEF PboSupported
  <2>2. /\ resolved' \subseteq AllFunctions /\ pbo_init' \in BOOLEAN
        /\ pbo_init => pbo_init'
        /\ pbo_init' => resolved' = AllFunctions
    BY <2>1, PboFound
  <2>3. PboTypeOK' /\ FunctionsFound'
    BY <1>0, <1>3, <2>2 DEF PboSupported, PboTypeOK, FunctionsFound
  <2>4. ~refused' => Nested'
    BY <1>0, <1>3 DEF PboSupported, Nested
  <2> QED
    BY <2>3, <2>4, <1>g
<1>4. ASSUME NEW current \in BOOLEAN, NEW p \in Pbos, PboCreate(p, current)
      PROVE  Goes
  <2>1. Initialize(current)
    BY <1>4 DEF PboCreate
  <2>2. /\ resolved' \subseteq AllFunctions /\ pbo_init' \in BOOLEAN
        /\ pbo_init => pbo_init'
        /\ pbo_init' => resolved' = AllFunctions
    BY <2>1, PboFound
  <2>3. PboTypeOK' /\ FunctionsFound'
    BY SevenFunctions, <1>0, <1>4, <2>2 DEF PboCreate, PboTypeOK, FunctionsFound, Calls
  <2>4. /\ reads' = reads /\ refused' = refused /\ program' = program
        /\ mapped' = mapped /\ bound' = bound
        /\ pbo' = [pbo EXCEPT ![p] = "idle"] \/ pbo' = pbo
        /\ pbo[p] = "none"
    BY <1>4 DEF PboCreate
  <2>5. ASSUME Nested
        PROVE  Nested'
    <3>1. \A i \in 1 .. Len(reads) : pbo'[reads[i].id] = "active"
      BY <1>0, <1>r, <2>4, <2>5 DEF PboTypeOK, Nested
    <3> QED
      BY <1>0, <2>4, <2>5, <3>1, NestedKept
  <2> QED
    BY <1>0, <2>3, <2>4, <2>5, <1>g
<1>5. ASSUME NEW p \in Pbos, PboDestroy(p)
      PROVE  Goes
  <2>1. PboTypeOK' /\ FunctionsFound'
    BY SevenFunctions, <1>0, <1>5
    DEF PboDestroy, PboTypeOK, FunctionsFound, Calls, Bindings, Programs
  <2>2. /\ reads' = reads /\ refused' = refused /\ program' = program
        /\ mapped' = mapped \ {p} /\ pbo' = [pbo EXCEPT ![p] = "none"]
        /\ bound' = IF bound = p THEN "no buffer" ELSE bound
        /\ \A i \in DOMAIN reads : reads[i].id # p
    BY <1>5 DEF PboDestroy
  <2>3. \A i \in 1 .. Len(reads) : reads[i].id # p
    BY <1>r, <2>2
  <2>4. ASSUME Nested
        PROVE  Nested'
    <3>1. bound # p
      BY <1>0, <1>r, <2>3, <2>4, BuffersApart DEF Nested, PboTypeOK
    <3>2. bound' = bound
      BY <2>2, <3>1
    <3>3. \A i \in 1 .. Len(reads) : pbo'[reads[i].id] = "active"
      BY <1>0, <1>r, <2>2, <2>3, <2>4 DEF PboTypeOK, Nested
    <3>4. p \notin mapped
      BY <2>3, <2>4 DEF Nested
    <3>5. mapped' = mapped
      BY <2>2, <3>4
    <3> QED
      BY <1>0, <2>2, <2>4, <3>2, <3>3, <3>5, NestedKept
  <2> QED
    BY <1>0, <2>1, <2>2, <2>4, <1>g
<1>6. ASSUME NEW p \in Pbos, PboStart(p)
      PROVE  Goes
  <2>1. PboTypeOK' /\ FunctionsFound'
    BY SevenFunctions, <1>0, <1>6 DEF PboStart, PboTypeOK, FunctionsFound, Calls
  <2>2. /\ reads' = reads /\ refused' = refused /\ program' = program
        /\ mapped' = mapped /\ bound' = bound /\ pbo' = [pbo EXCEPT ![p] = "active"]
    BY <1>6 DEF PboStart
  <2>3. ASSUME Nested
        PROVE  Nested'
    <3>1. \A i \in 1 .. Len(reads) : pbo'[reads[i].id] = "active"
      BY <1>0, <1>r, <2>2, <2>3 DEF PboTypeOK, Nested
    <3> QED
      BY <1>0, <2>2, <2>3, <3>1, NestedKept
  <2> QED
    BY <1>0, <2>1, <2>2, <2>3, <1>g
<1>7. ASSUME NEW p \in Pbos, PboResize(p)
      PROVE  Goes
  <2>1. PboTypeOK' /\ FunctionsFound'
    BY SevenFunctions, <1>0, <1>7 DEF PboResize, PboTypeOK, FunctionsFound, Calls
  <2>2. /\ reads' = reads /\ refused' = refused /\ program' = program
        /\ mapped' = mapped \ {p} /\ bound' = bound /\ pbo' = pbo /\ pbo[p] = "idle"
    BY <1>7 DEF PboResize
  <2>3. ASSUME Nested
        PROVE  Nested'
    <3>1. p \notin mapped
      BY <2>2, <2>3 DEF Nested
    <3>2. mapped' = mapped
      BY <2>2, <3>1
    <3>3. \A i \in 1 .. Len(reads) : pbo'[reads[i].id] = "active"
      BY <2>2, <2>3 DEF Nested
    <3> QED
      BY <1>0, <2>2, <2>3, <3>2, <3>3, NestedKept
  <2> QED
    BY <1>0, <2>1, <2>2, <2>3, <1>g
<1>8. ASSUME NEW p \in Pbos, PboRead(p, TRUE)
      PROVE  Goes
  <2> DEFINE S == [id : Pbos, binding : Bindings]
  <2>1. PICK e : e = [id |-> p, binding |-> bound]
    OBVIOUS
  <2>2. e \in S /\ reads \in Seq(S)
    BY <1>0, <2>1 DEF PboTypeOK
  <2>3. /\ pbo[p] = "active" /\ p \notin mapped /\ bound' = p
        /\ mapped' = mapped \cup {p} /\ reads' = <<e>> \o reads
        /\ UNCHANGED <<offered, pbo_init, resolved, pbo, program, refused>>
        /\ Calls({"glBindBuffer", "glMapBuffer"})
    BY <1>8, <2>1 DEF PboRead
  <2> HIDE DEF S
  <2>4. /\ reads' \in Seq(S) /\ Len(reads') = Len(reads) + 1 /\ reads'[1] = e
        /\ \A i \in 1 .. Len(reads) : reads'[i + 1] = reads[i]
    BY <2>2, <2>3, InFront
  <2>5. PboTypeOK'
    <3>1. bound' \in Bindings /\ mapped' \subseteq Pbos
      BY <1>0, <2>3 DEF PboTypeOK, Bindings
    <3>2. nullcall' \in BOOLEAN
      BY <2>3 DEF Calls
    <3> QED
      BY <1>0, <2>3, <2>4, <3>1, <3>2 DEF PboTypeOK, S
  <2>6. FunctionsFound'
    BY SevenFunctions, <1>0, <2>3 DEF FunctionsFound, Calls
  <2>7. ASSUME Nested
        PROVE  Nested'
    <3>1. \A i \in 1 .. Len(reads') : i = 1 \/ \E j \in 1 .. Len(reads) : i = j + 1
      <4> TAKE i \in 1 .. Len(reads')
      <4>1. i = 1 \/ i - 1 \in 1 .. Len(reads)
        BY <1>r, <2>4
      <4> QED
        BY <4>1
    <3>2. \A i \in 1 .. Len(reads) : reads[i].id # p
      BY <2>3, <2>7 DEF Nested
    <3>3. reads' # << >> /\ 1 \in 1 .. Len(reads')
      BY <1>r, <2>4, EmptySeq
    <3>4. mapped' = {reads'[i].id : i \in 1 .. Len(reads')}
      <4>1. \A i \in 1 .. Len(reads) : i + 1 \in 1 .. Len(reads')
        BY <1>r, <2>4
      <4> QED
        BY <2>1, <2>3, <2>4, <2>7, <3>1, <3>3, <4>1 DEF Nested
    <3>5. \A i \in 1 .. Len(reads') : pbo'[reads'[i].id] = "active"
      BY <2>1, <2>3, <2>4, <2>7, <3>1 DEF Nested
    <3>6. \A i, j \in 1 .. Len(reads') : reads'[i].id = reads'[j].id => i = j
      <4> TAKE i, j \in 1 .. Len(reads')
      <4>others. \A k \in 1 .. Len(reads') : k # 1 => reads'[k].id # p
        <5> SUFFICES ASSUME NEW k \in 1 .. Len(reads'), k # 1
                     PROVE  reads'[k].id # p
          OBVIOUS
        <5>1. PICK l \in 1 .. Len(reads) : k = l + 1
          BY <3>1
        <5>2. reads'[k] = reads[l]
          BY <2>4, <5>1
        <5> QED
          BY <3>2, <5>2
      <4>first. reads'[1].id = p
        BY <2>1, <2>4
      <4>1. CASE i = 1
        BY <4>others, <4>first, <4>1
      <4>2. CASE j = 1
        BY <4>others, <4>first, <4>2
      <4>3. CASE i # 1 /\ j # 1
        <5>1. PICK k \in 1 .. Len(reads), l \in 1 .. Len(reads) : i = k + 1 /\ j = l + 1
          BY <3>1, <4>3
        <5>2. reads'[i] = reads[k] /\ reads'[j] = reads[l]
          BY <2>4, <5>1
        <5> QED
          BY <2>7, <5>1, <5>2 DEF Nested
      <4> QED
        BY <4>1, <4>2, <4>3
    <3>7. bound' = reads'[1].id
      BY <2>1, <2>3, <2>4
    <3>8. ASSUME NEW i \in 1 .. Len(reads')
          PROVE  reads'[i].binding = IF i = Len(reads') THEN program' ELSE reads'[i + 1].id
      <4>1. CASE i = 1
        <5>1. reads'[i].binding = bound
          BY <2>1, <2>4, <4>1
        <5>2. CASE reads = << >>
          <6>1. Len(reads) = 0
            BY <5>2
          <6> QED
            BY <2>3, <2>4, <2>7, <4>1, <5>1, <5>2, <6>1 DEF Nested
        <5>3. CASE reads # << >>
          <6>1. 1 \in 1 .. Len(reads) /\ reads'[2] = reads[1] /\ i # Len(reads')
            BY <1>r, <2>4, <4>1, <5>3
          <6> QED
            BY <2>7, <4>1, <5>1, <5>3, <6>1 DEF Nested
        <5> QED
          BY <5>2, <5>3
      <4>2. CASE i # 1
        <5>1. PICK j \in 1 .. Len(reads) : i = j + 1
          BY <3>1, <4>2
        <5>2. reads'[i].binding = reads[j].binding
          BY <2>4, <5>1
        <5>3. PICK m \in Nat : m = Len(reads)
          BY <1>r
        <5>4. Len(reads') = m + 1 /\ j \in 1 .. m
          BY <2>4, <5>1, <5>3
        <5>5. i = Len(reads') <=> j = m
          BY <5>1, <5>4
        <5>6. j # m => j + 1 \in 1 .. m
          BY <5>4
        <5>7. j # m => reads'[i + 1] = reads[j + 1]
          BY <2>4, <5>1, <5>3, <5>6
        <5>8. reads[j].binding = IF j = m THEN program ELSE reads[j + 1].id
          BY <2>7, <5>3 DEF Nested
        <5> QED
          BY <2>3, <5>2, <5>5, <5>7, <5>8
      <4> QED
        BY <4>1, <4>2
    <3> QED
      BY <3>3, <3>4, <3>5, <3>6, <3>7, <3>8 DEF Nested
  <2> QED
    BY <1>0, <2>3, <2>5, <2>6, <2>7, <1>g
<1>9. ASSUME NEW p \in Pbos, PboRead(p, FALSE)
      PROVE  Goes
  <2>1. PboTypeOK' /\ FunctionsFound'
    BY SevenFunctions, <1>0, <1>9 DEF PboRead, PboTypeOK, FunctionsFound, Calls, Bindings
  <2>2. refused'
    BY <1>9 DEF PboRead
  <2> QED
    BY <2>1, <2>2, <1>g
<1>10. ASSUME PboReadReturns
       PROVE  Goes
  <2> DEFINE S == [id : Pbos, binding : Bindings]
  <2>1. PICK call : call = Head(reads)
    OBVIOUS
  <2>2. /\ reads # << >> /\ mapped' = mapped \ {bound}
        /\ pbo' = [pbo EXCEPT ![call.id] = "idle"] /\ bound' = call.binding
        /\ reads' = Tail(reads)
        /\ UNCHANGED <<offered, pbo_init, resolved, program, refused>>
        /\ Calls({"glUnmapBuffer", "glBindBuffer"})
    BY <1>10, <2>1 DEF PboReadReturns
  <2>3. reads \in Seq(S)
    BY <1>0 DEF PboTypeOK
  <2> HIDE DEF S
  <2>4. /\ reads' \in Seq(S) /\ Len(reads') = Len(reads) - 1 /\ call = reads[1]
        /\ \A i \in 1 .. Len(reads') : reads'[i] = reads[i + 1]
    BY <2>1, <2>2, <2>3, HeadTailProperties
  <2>5. call.id \in Pbos /\ call.binding \in Bindings
    BY <1>r, <2>2, <2>4
  <2>6. PboTypeOK'
    <3>1. mapped' \subseteq Pbos /\ nullcall' \in BOOLEAN
      BY <1>0, <2>2 DEF PboTypeOK, Calls
    <3> QED
      BY <1>0, <2>2, <2>4, <2>5, <3>1 DEF PboTypeOK, S
  <2>7. FunctionsFound'
    BY SevenFunctions, <1>0, <1>r, <2>2, <2>5 DEF FunctionsFound, Calls, PboTypeOK
  <2>8. ASSUME Nested
        PROVE  Nested'
    <3>1. /\ 1 \in 1 .. Len(reads) /\ bound = call.id
          /\ \A i \in 1 .. Len(reads') : i + 1 \in 1 .. Len(reads) /\ i + 1 # 1
      <4>1. 1 \in 1 .. Len(reads) /\ bound = call.id
        BY <1>r, <2>2, <2>4, <2>8 DEF Nested
      <4>2. PICK m \in Nat : m = Len(reads)
        BY <1>r
      <4>3. Len(reads') = m - 1
        BY <2>4, <4>2
      <4>4. \A i \in 1 .. Len(reads') : i + 1 \in 1 .. m /\ i + 1 # 1
        BY <4>3
      <4> QED
        BY <4>1, <4>2, <4>4
    <3>2. \A i \in 1 .. Len(reads') : reads'[i].id # call.id /\ reads'[i].id \in Pbos
      BY <1>r, <2>4, <2>8, <3>1 DEF Nested
    <3>3. mapped' = {reads'[i].id : i \in 1 .. Len(reads')}
      <4>1. \A i \in 1 .. Len(reads) : i = 1 \/ i - 1 \in 1 .. Len(reads')
        BY <1>r, <2>4
      <4>2. \A i \in 1 .. Len(reads) : i # 1 => reads'[i - 1] = reads[i]
        BY <2>4, <4>1
      <4>3. ASSUME NEW q \in mapped'
            PROVE  \E i \in 1 .. Len(reads') : q = reads'[i].id
        <5>1. PICK i \in 1 .. Len(reads) : q = reads[i].id
          BY <2>2, <2>8, <4>3 DEF Nested
        <5>2. i # 1
          BY <2>2, <2>4, <3>1, <4>3, <5>1
        <5> QED
          BY <4>1, <4>2, <5>1, <5>2
      <4>4. ASSUME NEW i \in 1 .. Len(reads')
            PROVE  reads'[i].id \in mapped'
        BY <2>2, <2>4, <2>8, <3>1, <3>2 DEF Nested
      <4> QED
        BY <4>3, <4>4
    <3>4. \A i \in 1 .. Len(reads') : pbo'[reads'[i].id] = "active"
      BY <1>0, <2>2, <2>4, <2>8, <3>1, <3>2 DEF Nested, PboTypeOK
    <3>5. \A i, j \in 1 .. Len(reads') : reads'[i].id = reads'[j].id => i = j
      <4> TAKE i, j \in 1 .. Len(reads')
      <4>1. reads'[i].id = reads'[j].id => i + 1 = j + 1
        BY <2>4, <2>8, <3>1 DEF Nested
      <4> QED
        BY <1>r, <2>4, <4>1
    <3>6. \A i \in 1 .. Len(reads') :
            reads'[i].binding = IF i = Len(reads') THEN program' ELSE reads'[i + 1].id
      <4> TAKE i \in 1 .. Len(reads')
      <4>1. reads'[i].binding =
              IF i + 1 = Len(reads) THEN program ELSE reads[(i + 1) + 1].id
        BY <2>4, <2>8, <3>1 DEF Nested
      <4>2. i + 1 = Len(reads) <=> i = Len(reads')
        BY <1>r, <2>4
      <4>3. i # Len(reads') => reads'[i + 1] = reads[(i + 1) + 1]
        <5>1. PICK m \in Nat : m = Len(reads)
          BY <1>r
        <5>2. Len(reads') = m - 1
          BY <2>4, <5>1
        <5>3. i # Len(reads') => i + 1 \in 1 .. Len(reads')
          BY <5>2
        <5> QED
          BY <2>4, <5>3
      <4> QED
        BY <2>2, <4>1, <4>2, <4>3
    <3>7. bound' = IF reads' = << >> THEN program' ELSE reads'[1].id
      <4>1. bound' = IF 1 = Len(reads) THEN program ELSE reads[2].id
        <5>1. reads[1].binding = IF 1 = Len(reads) THEN program ELSE reads[1 + 1].id
          BY <2>8, <3>1 DEF Nested
        <5> QED
          BY <2>2, <2>4, <5>1
      <4>2. CASE reads' = << >>
        <5>1. Len(reads') = 0
          BY <4>2
        <5> QED
          BY <1>r, <2>2, <2>4, <4>1, <4>2, <5>1
      <4>3. CASE reads' # << >>
        <5>1. Len(reads') \in Nat \ {0}
          BY <2>4, <4>3, EmptySeq
        <5>2. 1 \in 1 .. Len(reads') /\ 1 # Len(reads)
          BY <1>r, <2>4, <5>1
        <5> QED
          BY <2>4, <4>1, <4>3, <5>2
      <4> QED
        BY <4>2, <4>3
    <3> QED
      BY <3>3, <3>4, <3>5, <3>6, <3>7 DEF Nested
  <2> QED
    BY <1>0, <2>2, <2>6, <2>7, <2>8, <1>g
<1> QED
  BY PboNext, <1>1, <1>2, <1>3, <1>4, <1>5, <1>6, <1>7, <1>8, <1>9, <1>10 DEF PboNext

LEMMA PboStays ==
  ASSUME PboInv, UNCHANGED pboVars
  PROVE  PboInv'
BY DEF PboInv, pboVars, PboTypeOK, FunctionsFound, Nested

LEMMA PboTraceless ==
  ASSUME PboInv
  PROVE  PboLeavesNoTrace
<1>1. PboTypeOK /\ ~nullcall
  BY DEF PboInv, FunctionsFound
<1>2. DOMAIN reads = 1 .. Len(reads)
  BY <1>1, ReadsTyped
<1> QED
  BY <1>1, <1>2 DEF PboInv, Nested, PboLeavesNoTrace

-----------------------------------------------------------------------------
\* Hooks.

\* The names of a list are those of the elements it has.
NamesOf(s) == {Wanted[s][i] : i \in DOMAIN Wanted[s]}

\* Unless the program has ended, every hook that was registered has its real
\* function, and the sets whose turn is over are complete.
HookInv ==
  /\ HookTypeOK
  /\ stage \notin {"exited", "crashed"} =>
       \A i \in DOMAIN symbols : symbols[i].real_sym /\ symbols[i].sym_name \in real
  /\ stage \in {"opengl_init", "running"} => NamesOf("x11_init") \subseteq HookNames
  /\ stage = "running" => NamesOf("opengl_init") \subseteq HookNames

LEMMA WantedLists ==
  /\ Registering = {"x11_init", "opengl_init"}
  /\ \A s \in Registering : Len(Wanted[s]) \in Nat /\ DOMAIN Wanted[s] = 1 .. Len(Wanted[s])
  /\ Hooks = NamesOf("x11_init") \cup NamesOf("opengl_init")
<1>1. Len(X11Functions) = 14 /\ DOMAIN X11Functions = 1 .. 14
  BY DEF X11Functions
<1>2. Len(OpenGLFunctions) = 6 /\ DOMAIN OpenGLFunctions = 1 .. 6
  BY DEF OpenGLFunctions
<1>3. Registering = {"x11_init", "opengl_init"}
  BY DEF Registering, Wanted
<1>4. Wanted["x11_init"] = X11Functions /\ Wanted["opengl_init"] = OpenGLFunctions
  BY DEF Wanted
<1>5. Hooks = NamesOf("x11_init") \cup NamesOf("opengl_init")
  BY <1>3 DEF Hooks, NamesOf
<1> QED
  BY <1>1, <1>2, <1>3, <1>4, <1>5

LEMMA HooksInitially ==
  ASSUME stage = "hook_init", symbols = << >>, real = {}, exported \subseteq Hooks
  PROVE  HookInv
<1>1. symbols \in Seq(HookSymbols) /\ DOMAIN symbols = {}
  BY EmptySeq
<1> QED
  BY <1>1 DEF HookInv, HookTypeOK, Stages

\* One turn of the loop adds the name.
LEMMA HookRegistered ==
  ASSUME HookInv, RegisterHook
  PROVE  \E i \in DOMAIN Wanted[stage], name \in Hooks :
           /\ name = Wanted[stage][i] /\ stage \in Registering
           /\ \A j \in 1 .. (i - 1) : Wanted[stage][j] \in HookNames
           /\ symbols' \in Seq(HookSymbols)
           /\ HookNames' = HookNames \cup {name}
           /\ \A k \in DOMAIN symbols' :
                \/ symbols'[k].sym_name = name /\ symbols'[k].real_sym = (name \in exported)
                \/ \E l \in DOMAIN symbols : symbols'[k] = symbols[l]
           /\ real' = IF name \in exported THEN real \cup {name} ELSE real
           /\ stage' = IF name \notin exported THEN "exited"
                       ELSE IF i = Len(Wanted[stage]) THEN After(stage) ELSE stage
<1>1. stage \in Registering
  BY DEF RegisterHook
<1>2. PICK i \in DOMAIN Wanted[stage] :
        LET name == Wanted[stage][i]
        IN  /\ name \notin HookNames
            /\ \A j \in 1 .. (i - 1) : Wanted[stage][j] \in HookNames
            /\ symbols' = <<[sym_name |-> name, real_sym |-> name \in exported]>> \o symbols
            /\ real' = IF name \in exported THEN real \cup {name} ELSE real
            /\ stage' = IF ~Complete(name) THEN "exited"
                        ELSE IF i = Len(Wanted[stage]) THEN After(stage) ELSE stage
  BY DEF RegisterHook
<1>3. PICK name : name = Wanted[stage][i]
  OBVIOUS
<1>4. PICK e : e = [sym_name |-> name, real_sym |-> name \in exported]
  OBVIOUS
<1>5. name \in Hooks
  BY <1>1, <1>3 DEF Hooks
<1>6. e \in HookSymbols /\ symbols \in Seq(HookSymbols)
  BY <1>4, <1>5 DEF HookSymbols, HookInv, HookTypeOK
<1>7. symbols' = <<e>> \o symbols
  BY <1>2, <1>3, <1>4
<1>8. /\ symbols' \in Seq(HookSymbols) /\ Len(symbols') = Len(symbols) + 1
      /\ Len(symbols) \in Nat /\ symbols'[1] = e
      /\ \A k \in 1 .. Len(symbols) : symbols'[k + 1] = symbols[k]
  BY <1>6, <1>7, InFront
<1>9. DOMAIN symbols = 1 .. Len(symbols) /\ DOMAIN symbols' = 1 .. Len(symbols')
  BY <1>6, <1>8, LenProperties
<1>10. \A k \in DOMAIN symbols' : k = 1 \/ (k - 1 \in DOMAIN symbols /\ symbols'[k] = symbols[k - 1])
  <2> TAKE k \in DOMAIN symbols'
  <2>1. k = 1 \/ (k - 1 \in 1 .. Len(symbols) /\ (k - 1) + 1 = k)
    BY <1>8, <1>9
  <2> QED
    BY <1>8, <1>9, <2>1
<1>11. \A k \in DOMAIN symbols : k + 1 \in DOMAIN symbols' /\ symbols'[k + 1] = symbols[k]
  BY <1>8, <1>9
<1>12. 1 \in DOMAIN symbols'
  BY <1>8, <1>9
<1>13. HookNames' = HookNames \cup {name}
  <2>1. e.sym_name = name
    BY <1>4
  <2>2. \A n \in HookNames' : n \in HookNames \cup {name}
    BY <1>8, <1>10, <2>1 DEF HookNames
  <2>3. \A n \in HookNames \cup {name} : n \in HookNames'
    BY <1>8, <1>11, <1>12, <2>1 DEF HookNames
  <2> QED
    BY <2>2, <2>3
<1>14. e.sym_name = name /\ e.real_sym = (name \in exported)
  BY <1>4
<1>15. \A k \in DOMAIN symbols' : symbols'[k] = e \/ \E l \in DOMAIN symbols : symbols'[k] = symbols[l]
  BY <1>8, <1>10
<1> QED
  BY <1>1, <1>2, <1>3, <1>5, <1>8, <1>13, <1>14, <1>15 DEF Complete

LEMMA HookStep ==
  ASSUME HookInv, HookNext
  PROVE  HookInv'
<1>1. CASE HookInit \/ LibraryMissing
  <2>1. /\ UNCHANGED <<exported, symbols, real>>
        /\ stage' \in {"x11_init", "exited", "crashed"}
    BY <1>1 DEF HookInit, LibraryMissing
  <2>2. stage \notin {"exited", "crashed"}
    BY <1>1, WantedLists DEF HookInit, LibraryMissing
  <2> QED
    BY <2>1, <2>2, WantedLists DEF HookInv, HookTypeOK, Stages
<1>2. CASE RegisterHook
  <2>1. PICK i \in DOMAIN Wanted[stage], name \in Hooks :
          /\ name = Wanted[stage][i] /\ stage \in Registering
          /\ \A j \in 1 .. (i - 1) : Wanted[stage][j] \in HookNames
          /\ symbols' \in Seq(HookSymbols)
          /\ HookNames' = HookNames \cup {name}
          /\ \A k \in DOMAIN symbols' :
               \/ symbols'[k].sym_name = name /\ symbols'[k].real_sym = (name \in exported)
               \/ \E l \in DOMAIN symbols : symbols'[k] = symbols[l]
          /\ real' = IF name \in exported THEN real \cup {name} ELSE real
          /\ stage' = IF name \notin exported THEN "exited"
                      ELSE IF i = Len(Wanted[stage]) THEN After(stage) ELSE stage
    BY <1>2, HookRegistered
  <2>2. stage \in {"x11_init", "opengl_init"}
    BY <2>1, WantedLists
  <2>3. stage' \in {"exited", "x11_init", "opengl_init", "running"}
    BY <2>1, <2>2 DEF After
  <2>4. HookTypeOK'
    <3>1. exported' = exported
      BY <1>2 DEF RegisterHook
    <3> QED
      BY <2>1, <2>3, <3>1, WantedLists DEF HookTypeOK, HookInv, Stages
  <2>5. stage' \notin {"exited", "crashed"} =>
          \A k \in DOMAIN symbols' : symbols'[k].real_sym /\ symbols'[k].sym_name \in real'
    <3> SUFFICES ASSUME stage' \notin {"exited", "crashed"}, NEW k \in DOMAIN symbols'
                 PROVE  symbols'[k].real_sym /\ symbols'[k].sym_name \in real'
      OBVIOUS
    <3>1. name \in exported /\ real' = real \cup {name}
      BY <2>1
    <3>2. CASE symbols'[k].sym_name = name /\ symbols'[k].real_sym = (name \in exported)
      BY <3>1, <3>2
    <3>3. CASE \E l \in DOMAIN symbols : symbols'[k] = symbols[l]
      <4>1. PICK l \in DOMAIN symbols : symbols'[k] = symbols[l]
        BY <3>3
      <4>2. symbols[l].real_sym /\ symbols[l].sym_name \in real
        BY <2>2 DEF HookInv
      <4> QED
        BY <3>1, <4>1, <4>2
    <3> QED
      BY <2>1, <3>2, <3>3
  <2>6. i = Len(Wanted[stage]) => NamesOf(stage) \subseteq HookNames'
    <3> SUFFICES ASSUME i = Len(Wanted[stage]), NEW j \in DOMAIN Wanted[stage]
                 PROVE  Wanted[stage][j] \in HookNames'
      BY DEF NamesOf
    <3>1. j \in 1 .. (i - 1) \/ j = i
      BY <2>1, WantedLists
    <3> QED
      BY <2>1, <3>1
  <2>7. stage = "opengl_init" => NamesOf("x11_init") \subseteq HookNames'
    BY <2>1 DEF HookInv
  <2>8. stage' \in {"opengl_init", "running"} => NamesOf("x11_init") \subseteq HookNames'
    BY <2>1, <2>2, <2>6, <2>7 DEF After
  <2>9. stage' = "running" => NamesOf("opengl_init") \subseteq HookNames'
    BY <2>1, <2>2, <2>6 DEF After
  <2>10. NamesOf("x11_init")' = NamesOf("x11_init") /\ NamesOf("opengl_init")' = NamesOf("opengl_init")
    OBVIOUS
  <2> QED
    BY <2>4, <2>5, <2>8, <2>9 DEF HookInv
<1> QED
  BY <1>1, <1>2 DEF HookNext

LEMMA HooksStay ==
  ASSUME HookInv, UNCHANGED hookVars
  PROVE  HookInv'
BY DEF HookInv, hookVars, HookTypeOK, HookNames

LEMMA HooksReal ==
  ASSUME HookInv
  PROVE  HooksReachReal
<1> SUFFICES ASSUME stage = "running", NEW name \in Hooks
             PROVE  HookSym(name) # Null /\ HookSym(name).real_sym /\ name \in real
  BY DEF HooksReachReal
<1>1. name \in HookNames
  BY WantedLists DEF HookInv
<1>2. symbols \in Seq(HookSymbols) /\ DOMAIN symbols = 1 .. Len(symbols) /\ Len(symbols) \in Nat
  BY LenProperties DEF HookInv, HookTypeOK
<1> DEFINE Named == {i \in DOMAIN symbols : symbols[i].sym_name = name}
<1>3. Named # {} /\ Named \in SUBSET Nat
  BY <1>1, <1>2 DEF HookNames
<1>4. Min(Named) \in Named
  <2> HIDE DEF Named
  <2>1. \E i \in Named : \A j \in Named : i <= j
    BY <1>3, SmallestOf
  <2> QED
    BY <2>1 DEF Min
<1>5. HookSym(name) = symbols[Min(Named)]
  BY <1>1 DEF HookSym
<1>6. symbols[Min(Named)] \in HookSymbols
  BY <1>2, <1>4, ElementOfSeq
<1> QED
  BY <1>4, <1>5, <1>6, NullIsNoSymbol DEF HookInv

-----------------------------------------------------------------------------
\* Keys and shortcuts.

KeysTyped ==
  /\ now \in 1 .. MaxTime /\ held \subseteq Keys /\ repeating \subseteq held
  /\ \A k, l \in repeating : k = l
  /\ queue \in Seq(Event)
  /\ keys_pressed \in Seq(Keys) /\ Different(keys_pressed)
  /\ last_event_time \in 0 .. MaxTime
  /\ last_keycode \in {{}} \cup {{k} : k \in Keys}
  /\ crashed \in BOOLEAN /\ misled \in BOOLEAN

ShortcutEvents == [keys : Shortcuts, is_down : BOOLEAN, down_calls : Int]

X11Inv == KeysTyped /\ shortcut_events \in Seq(ShortcutEvents) /\ ShortcutsInTurn

\* What an event does to the keys, and for which keys shortcuts are checked.
LEMMA KeysChanged ==
  ASSUME KeysTyped, NEW event \in Event, NEW rest, X11Event(event, rest)
  PROVE  /\ keys_pressed' \in Seq(Keys) /\ Different(keys_pressed')
         /\ \/ /\ event.type = "press" /\ IgnoredPress(event)
               /\ Pressed' = Pressed /\ shortcut_events' = shortcut_events
               /\ UNCHANGED <<last_event_time, last_keycode>>
            \/ /\ event.type = "press" /\ event.key \notin Pressed
               /\ Pressed' = Pressed \cup {event.key}
               /\ shortcut_events' = Checked(event.key, Pressed')
               /\ UNCHANGED <<last_event_time, last_keycode>>
            \/ /\ event.type = "release" /\ Repeated(event, rest)
               /\ Pressed' = Pressed /\ shortcut_events' = shortcut_events
               /\ last_event_time' = event.time /\ last_keycode' = {event.key}
            \/ /\ event.type = "release" /\ ~Repeated(event, rest)
               /\ Pressed' = Pressed \ {event.key}
               /\ shortcut_events' = Checked(event.key, Pressed')
               /\ last_event_time' = event.time /\ last_keycode' = {event.key}
<1>1. event.key \in Keys
  BY DEF Event
<1>2. keys_pressed \in Seq(Keys) /\ Different(keys_pressed)
  BY DEF KeysTyped
<1>3. ToSet(keys_pressed) = Pressed /\ ToSet(keys_pressed') = Pressed'
  BY DEF Pressed
<1>4. CASE X11Press(event)
  <2>1. CASE IgnoredPress(event)
    <3>1. keys_pressed' = keys_pressed
      BY <1>4, <2>1 DEF X11Press
    <3>2. Pressed' = Pressed
      BY <1>3, <3>1
    <3> QED
      BY <1>2, <1>4, <2>1, <3>1, <3>2 DEF X11Press
  <2>2. CASE ~IgnoredPress(event)
    <3>1. keys_pressed' = <<event.key>> \o keys_pressed
      BY <1>4, <2>2 DEF X11Press
    <3>2. event.key \notin Pressed
      BY <2>2 DEF IgnoredPress
    <3>3. /\ keys_pressed' \in Seq(Keys) /\ Different(keys_pressed')
          /\ ToSet(keys_pressed') = ToSet(keys_pressed) \cup {event.key}
      BY <1>1, <1>2, <1>3, <3>1, <3>2, DifferentInFront
    <3> QED
      BY <1>3, <1>4, <2>2, <3>2, <3>3 DEF X11Press
  <2> QED
    BY <2>1, <2>2
<1>5. CASE X11Release(event, rest)
  <2>1. CASE Repeated(event, rest)
    <3>1. keys_pressed' = keys_pressed
      BY <1>5, <2>1 DEF X11Release
    <3>2. Pressed' = Pressed
      BY <1>3, <3>1
    <3> QED
      BY <1>2, <1>5, <2>1, <3>1, <3>2 DEF X11Release
  <2>2. CASE ~Repeated(event, rest)
    <3>1. keys_pressed' = RemoveFirst(keys_pressed, event.key)
      BY <1>5, <2>2 DEF X11Release
    <3>2. /\ keys_pressed' \in Seq(Keys) /\ Different(keys_pressed')
          /\ ToSet(keys_pressed') = ToSet(keys_pressed) \ {event.key}
      BY <1>2, <3>1, DifferentRemoved
    <3> QED
      BY <1>3, <1>5, <2>2, <3>2 DEF X11Release
  <2> QED
    BY <2>1, <2>2
<1> QED
  BY <1>4, <1>5 DEF X11Event

\* A list of shortcuts each of which is in turn.
InTurn(s, pressed) ==
  \A i \in DOMAIN s : /\ s[i].is_down => s[i].keys \subseteq pressed
                      /\ s[i].down_calls = IF s[i].is_down THEN 1 ELSE 0

\* A key has been added to the keys that are down or taken out of them.
LEMMA CheckedInTurn ==
  ASSUME shortcut_events \in Seq(ShortcutEvents), NEW k, NEW before, NEW pressed,
         InTurn(shortcut_events, before),
         \/ k \notin before /\ pressed = before \cup {k}
         \/ pressed = before \ {k}
  PROVE  Checked(k, pressed) \in Seq(ShortcutEvents) /\ InTurn(Checked(k, pressed), pressed)
<1>1. PICK s : s = Checked(k, pressed)
  OBVIOUS
<1>2. DOMAIN shortcut_events = 1 .. Len(shortcut_events) /\ Len(shortcut_events) \in Nat
  BY LenProperties
<1>3. DOMAIN s = 1 .. Len(shortcut_events)
  BY <1>1, <1>2 DEF Checked
<1>4. ASSUME NEW i \in 1 .. Len(shortcut_events)
      PROVE  /\ s[i] \in ShortcutEvents
             /\ s[i].is_down => s[i].keys \subseteq pressed
             /\ s[i].down_calls = IF s[i].is_down THEN 1 ELSE 0
  <2>1. PICK e \in ShortcutEvents : e = shortcut_events[i]
    BY <1>4, ElementOfSeq
  <2>2. /\ e.is_down => e.keys \subseteq before
        /\ e.down_calls = IF e.is_down THEN 1 ELSE 0
    BY <1>2, <2>1 DEF InTurn
  <2>3. s[i] = IF e.keys \subseteq pressed
               THEN IF k \in e.keys
                    THEN [e EXCEPT !.is_down = TRUE, !.down_calls = @ + 1] ELSE e
               ELSE IF e.is_down
                    THEN [e EXCEPT !.is_down = FALSE, !.down_calls = @ - 1] ELSE e
    BY <1>1, <1>2, <2>1 DEF Checked
  <2>4. CASE e.keys \subseteq pressed /\ k \in e.keys
    <3>1. ~e.is_down
      BY <2>2, <2>4
    <3>2. s[i] = [e EXCEPT !.is_down = TRUE, !.down_calls = @ + 1] /\ e.down_calls = 0
      BY <2>2, <2>3, <2>4, <3>1
    <3>3. s[i].is_down /\ s[i].keys = e.keys /\ s[i].down_calls = 1
      BY <3>2 DEF ShortcutEvents
    <3>4. e.down_calls + 1 \in Int
      BY <3>2
    <3>5. s[i] \in ShortcutEvents
      BY <3>2, <3>4 DEF ShortcutEvents
    <3> QED
      BY <2>4, <3>3, <3>5
  <2>5. CASE e.keys \subseteq pressed /\ k \notin e.keys
    BY <2>2, <2>3, <2>5
  <2>6. CASE ~(e.keys \subseteq pressed) /\ e.is_down
    <3>1. s[i] = [e EXCEPT !.is_down = FALSE, !.down_calls = @ - 1] /\ e.down_calls = 1
      BY <2>2, <2>3, <2>6
    <3>2. ~s[i].is_down /\ s[i].down_calls = 0
      BY <3>1 DEF ShortcutEvents
    <3>3. e.down_calls - 1 \in Int
      BY <3>1
    <3>4. s[i] \in ShortcutEvents
      BY <3>1, <3>3 DEF ShortcutEvents
    <3> QED
      BY <3>2, <3>4
  <2>7. CASE ~(e.keys \subseteq pressed) /\ ~e.is_down
    BY <2>2, <2>3, <2>7
  <2> QED
    BY <2>4, <2>5, <2>6, <2>7
<1>5. s \in [1 .. Len(shortcut_events) -> ShortcutEvents]
  BY <1>1, <1>2, <1>3, <1>4 DEF Checked
<1>6. s \in Seq(ShortcutEvents)
  BY <1>2, <1>5
<1>7. InTurn(s, pressed)
  BY <1>3, <1>4 DEF InTurn
<1> QED
  BY <1>1, <1>6, <1>7

LEMMA TurnAgrees == InTurn(shortcut_events, Pressed) <=> ShortcutsInTurn
BY DEF InTurn, ShortcutsInTurn

LEMMA X11Initially ==
  ASSUME X11Init
  PROVE  X11Inv
<1>1. /\ now = 1 /\ held = {} /\ queue = << >> /\ repeating = {}
      /\ keys_pressed = << >> /\ last_event_time = 0 /\ last_keycode = {}
      /\ shortcut_events = << >> /\ crashed = FALSE /\ misled = FALSE
  BY DEF X11Init
<1>2. /\ queue \in Seq(Event) /\ keys_pressed \in Seq(Keys)
      /\ shortcut_events \in Seq(ShortcutEvents)
      /\ 1 .. Len(keys_pressed) = {} /\ DOMAIN shortcut_events = {}
  BY <1>1, EmptySeq
<1>3. 1 \in 1 .. MaxTime /\ 0 \in 0 .. MaxTime
  BY TimeBound
<1>4. KeysTyped
  BY <1>1, <1>2, <1>3 DEF KeysTyped, Different
<1>5. ShortcutsInTurn
  BY <1>2 DEF ShortcutsInTurn
<1> QED
  BY <1>2, <1>4, <1>5 DEF X11Inv

\* What the X server sends is put behind the queue.
LEMMA EventSent ==
  ASSUME KeysTyped, NEW type \in {"press", "release"}, NEW k \in Keys, now' \in 1 .. MaxTime,
         Sent(type, k, now')
  PROVE  \E e \in Event : /\ e.type = type /\ e.key = k /\ e.time = now'
                          /\ queue' = Append(queue, e) /\ queue' \in Seq(Event)
                          /\ Len(queue) \in Nat /\ Len(queue') = Len(queue) + 1
                          /\ queue'[Len(queue) + 1] = e
                          /\ \A i \in 1 .. Len(queue) : queue'[i] = queue[i]
<1>1. PICK e : e = [type |-> type, key |-> k, time |-> now']
  OBVIOUS
<1>2. e \in Event /\ e.type = type /\ e.key = k /\ e.time = now'
  BY <1>1 DEF Event
<1>3. queue \in Seq(Event) /\ Len(queue) \in Nat
  BY LenProperties DEF KeysTyped
<1>4. queue' = Append(queue, e)
  BY <1>1 DEF Sent
<1>5. /\ Append(queue, e) \in Seq(Event) /\ Len(Append(queue, e)) = Len(queue) + 1
      /\ \A i \in 1 .. Len(queue) : Append(queue, e)[i] = queue[i]
      /\ Append(queue, e)[Len(queue) + 1] = e
  BY <1>2, <1>3, AppendProperties
<1> QED
  BY <1>2, <1>3, <1>4, <1>5

LEMMA ServerTyped ==
  ASSUME KeysTyped, ServerNext
  PROVE  KeysTyped' /\ UNCHANGED <<keyVars, shortcut_events>>
<1>1. PICK k \in Keys :
        \/ UserPresses(k) \/ RepeatRelease(k) \/ RepeatPress(k)
        \/ \E focused \in BOOLEAN : UserReleases(k, focused)
  BY DEF ServerNext
<1>2. UNCHANGED <<keys_pressed, last_event_time, last_keycode, shortcut_events, crashed>>
  BY <1>1 DEF UserPresses, RepeatRelease, RepeatPress, UserReleases, LocalUnchanged, keyVars
<1>3. now' \in 1 .. MaxTime
  <2>1. now' = now \/ (now < MaxTime /\ now' = now + 1)
    BY <1>1 DEF UserPresses, RepeatRelease, RepeatPress, UserReleases
  <2> QED
    BY <2>1, TimeBound DEF KeysTyped
<1>4. queue' \in Seq(Event)
  <2>1. \/ queue' = queue
        \/ \E type \in {"press", "release"} : Sent(type, k, now')
    <3>1. CASE UserPresses(k)
      BY <3>1 DEF UserPresses
    <3>2. CASE RepeatRelease(k)
      BY <3>2 DEF RepeatRelease
    <3>3. CASE RepeatPress(k)
      BY <3>3 DEF RepeatPress
    <3>4. CASE \E focused \in BOOLEAN : UserReleases(k, focused)
      BY <3>4 DEF UserReleases
    <3> QED
      BY <1>1, <3>1, <3>2, <3>3, <3>4
  <2>2. CASE queue' = queue
    BY <2>2 DEF KeysTyped
  <2>3. CASE \E type \in {"press", "release"} : Sent(type, k, now')
    BY <1>3, <2>3, EventSent
  <2> QED
    BY <2>1, <2>2, <2>3
<1>5. /\ held' \subseteq Keys /\ repeating' \subseteq held'
      /\ \A x, y \in repeating' : x = y
      /\ misled' \in BOOLEAN
  BY <1>1 DEF KeysTyped, UserPresses, RepeatRelease, RepeatPress, UserReleases
<1>6. Different(keys_pressed)' 
  BY <1>2 DEF KeysTyped, Different
<1>7. keys_pressed' \in Seq(Keys)
  BY <1>2 DEF KeysTyped
<1>8. /\ last_event_time' \in 0 .. MaxTime /\ crashed' \in BOOLEAN
      /\ last_keycode' \in {{}} \cup {{x} : x \in Keys}
  BY <1>2 DEF KeysTyped
<1> QED
  BY <1>2, <1>3, <1>4, <1>5, <1>6, <1>7, <1>8 DEF KeysTyped, keyVars

\* An event is looked at, and taken or not.
LEMMA EventTyped ==
  ASSUME X11Inv, NEW event \in Event, NEW rest, X11Event(event, rest),
         queue' \in Seq(Event), misled' \in BOOLEAN, UNCHANGED <<serverVars, crashed>>
  PROVE  X11Inv'
<1>1. KeysTyped /\ shortcut_events \in Seq(ShortcutEvents) /\ InTurn(shortcut_events, Pressed)
  BY TurnAgrees DEF X11Inv
<1>2. keys_pressed' \in Seq(Keys) /\ Different(keys_pressed')
  BY <1>1, KeysChanged
<1>3. /\ last_event_time' \in 0 .. MaxTime
      /\ last_keycode' \in {{}} \cup {{x} : x \in Keys}
  <2>1. event.time \in 1 .. MaxTime /\ event.key \in Keys
    BY DEF Event
  <2>2. \/ UNCHANGED <<last_event_time, last_keycode>>
        \/ last_event_time' = event.time /\ last_keycode' = {event.key}
    BY <1>1, KeysChanged
  <2>3. event.time \in 0 .. MaxTime
    BY <2>1, TimeBound
  <2> QED
    BY <1>1, <2>1, <2>2, <2>3 DEF KeysTyped
<1>4. KeysTyped'
  BY <1>1, <1>2, <1>3 DEF KeysTyped, serverVars, Different
<1>5. shortcut_events' \in Seq(ShortcutEvents) /\ InTurn(shortcut_events', Pressed')
  <2>1. CASE Pressed' = Pressed /\ shortcut_events' = shortcut_events
    BY <1>1, <2>1
  <2>2. CASE /\ shortcut_events' = Checked(event.key, Pressed')
             /\ \/ event.key \notin Pressed /\ Pressed' = Pressed \cup {event.key}
                \/ Pressed' = Pressed \ {event.key}
    <3>1. PICK pressed : pressed = Pressed'
      OBVIOUS
    <3>2. Checked(event.key, pressed) \in Seq(ShortcutEvents) /\ InTurn(Checked(event.key, pressed), pressed)
      BY <1>1, <2>2, <3>1, CheckedInTurn
    <3> QED
      BY <2>2, <3>1, <3>2
  <2> QED
    BY <1>1, <2>1, <2>2, KeysChanged
<1>6. ShortcutsInTurn'
  BY <1>5 DEF InTurn, ShortcutsInTurn
<1> QED
  BY <1>4, <1>5, <1>6 DEF X11Inv

LEMMA X11Step ==
  ASSUME X11Inv, X11Next
  PROVE  X11Inv'
<1>0. /\ KeysTyped /\ shortcut_events \in Seq(ShortcutEvents) /\ ShortcutsInTurn
      /\ queue \in Seq(Event) /\ DOMAIN queue = 1 .. Len(queue)
      /\ DOMAIN shortcut_events = 1 .. Len(shortcut_events)
  BY LenProperties DEF X11Inv, KeysTyped
<1>1. CASE ServerNext
  <2>1. KeysTyped' /\ UNCHANGED <<keyVars, shortcut_events>>
    BY <1>0, <1>1, ServerTyped
  <2> QED
    BY <1>0, <2>1 DEF X11Inv, ShortcutsInTurn, keyVars, Pressed
<1>2. ASSUME NEW i \in DOMAIN queue, TakeEvent(i)
      PROVE  X11Inv'
  <2>1. queue[i] \in Event /\ i \in 1 .. Len(queue)
    BY <1>0, ElementOfSeq
  <2>2. /\ queue' = RemoveAt(queue, i) /\ X11Event(queue[i], queue')
        /\ misled' \in BOOLEAN /\ UNCHANGED <<serverVars, crashed>>
    BY <1>0, <1>2 DEF TakeEvent, KeysTyped
  <2>3. queue' \in Seq(Event)
    BY <1>0, <2>1, <2>2, Shortened
  <2>4. PICK rest : rest = queue'
    OBVIOUS
  <2> QED
    BY <2>1, <2>2, <2>3, <2>4, EventTyped
<1>3. ASSUME NEW i \in DOMAIN queue, PeekEvent(i)
      PROVE  X11Inv'
  <2>1. queue[i] \in Event
    BY <1>0, ElementOfSeq
  <2>2. /\ X11Event(queue[i], queue) /\ misled' \in BOOLEAN
        /\ UNCHANGED <<serverVars, queue, crashed>>
    BY <1>0, <1>3 DEF PeekEvent, KeysTyped
  <2> QED
    BY <1>0, <2>1, <2>2, EventTyped
<1>4. ASSUME UNCHANGED <<serverVars, queue, keyVars, misled>>, crashed' \in BOOLEAN,
             shortcut_events' \in Seq(ShortcutEvents), InTurn(shortcut_events', Pressed)
      PROVE  X11Inv'
  <2>1. Pressed' = Pressed
    BY <1>4 DEF keyVars, Pressed
  <2>2. ShortcutsInTurn'
    BY <1>4, <2>1 DEF InTurn, ShortcutsInTurn
  <2>3. KeysTyped'
    BY <1>0, <1>4 DEF KeysTyped, serverVars, keyVars, Different
  <2> QED
    BY <1>4, <2>2, <2>3 DEF X11Inv
<1>5. ASSUME NEW keys \in Shortcuts, RegisterShortcut(keys)
      PROVE  X11Inv'
  <2>1. PICK e : e = [keys |-> keys, is_down |-> FALSE, down_calls |-> 0]
    OBVIOUS
  <2>2. e \in ShortcutEvents
    BY <2>1 DEF ShortcutEvents
  <2>3. PICK s : s = <<e>> \o shortcut_events
    OBVIOUS
  <2>4. /\ s \in Seq(ShortcutEvents) /\ Len(s) = Len(shortcut_events) + 1
        /\ Len(shortcut_events) \in Nat /\ s[1] = e
        /\ \A i \in 1 .. Len(shortcut_events) : s[i + 1] = shortcut_events[i]
    BY <1>0, <2>2, <2>3, InFront
  <2>5. InTurn(s, Pressed)
    <3> SUFFICES ASSUME NEW i \in DOMAIN s
                 PROVE  /\ s[i].is_down => s[i].keys \subseteq Pressed
                        /\ s[i].down_calls = IF s[i].is_down THEN 1 ELSE 0
      BY DEF InTurn
    <3>1. DOMAIN s = 1 .. Len(s)
      BY <2>4, LenProperties
    <3>2. CASE i = 1
      BY <2>1, <2>4, <3>2
    <3>3. CASE i # 1
      <4>1. i - 1 \in 1 .. Len(shortcut_events) /\ (i - 1) + 1 = i
        BY <2>4, <3>1, <3>3
      <4>2. s[i] = shortcut_events[i - 1]
        BY <2>4, <4>1
      <4> QED
        BY <1>0, <4>1, <4>2 DEF ShortcutsInTurn
    <3> QED
      BY <3>2, <3>3
  <2>6. shortcut_events' = s /\ UNCHANGED <<serverVars, queue, keyVars, crashed, misled>>
    BY <1>5, <2>1, <2>3 DEF RegisterShortcut
  <2> QED
    BY <1>0, <1>4, <2>4, <2>5, <2>6 DEF KeysTyped
<1>6. ASSUME NEW keys \in Shortcuts, UnregisterShortcut(keys)
      PROVE  X11Inv'
  <2> DEFINE found == {i \in 1 .. (Len(shortcut_events) - 1) : shortcut_events[i + 1].keys = keys}
  <2>1. /\ UNCHANGED <<serverVars, queue, keyVars, misled>>
        /\ IF found = {} THEN crashed' = TRUE /\ UNCHANGED shortcut_events
           ELSE UNCHANGED crashed /\ shortcut_events' = RemoveAt(shortcut_events, Min(found))
    BY <1>6 DEF UnregisterShortcut
  <2>2. CASE found = {}
    BY <1>0, <1>4, <2>1, <2>2, TurnAgrees
  <2>3. CASE found # {}
    <3>1. Len(shortcut_events) \in Nat /\ found \in SUBSET Nat
      BY <1>0, LenProperties
    <3>2. Min(found) \in found
      <4> HIDE DEF found
      <4>1. \E i \in found : \A j \in found : i <= j
        BY <2>3, <3>1, SmallestOf
      <4> QED
        BY <4>1 DEF Min
    <3>3. PICK p : p = Min(found)
      OBVIOUS
    <3>4. p \in 1 .. Len(shortcut_events)
      BY <3>1, <3>2, <3>3
    <3>5. PICK s : s = RemoveAt(shortcut_events, p)
      OBVIOUS
    <3>6. /\ s \in Seq(ShortcutEvents) /\ Len(s) = Len(shortcut_events) - 1
          /\ \A j \in 1 .. (Len(shortcut_events) - 1) :
               s[j] = IF j < p THEN shortcut_events[j] ELSE shortcut_events[j + 1]
      BY <1>0, <3>4, <3>5, Shortened
    <3>7. \A j \in 1 .. Len(s) : \E l \in 1 .. Len(shortcut_events) : s[j] = shortcut_events[l]
      <4> TAKE j \in 1 .. Len(s)
      <4>1. j \in 1 .. Len(shortcut_events) /\ j + 1 \in 1 .. Len(shortcut_events)
        BY <3>1, <3>6
      <4> QED
        BY <3>6, <4>1
    <3>8. DOMAIN s = 1 .. Len(s)
      BY <3>6, LenProperties
    <3>9. InTurn(s, Pressed)
      BY <1>0, <3>7, <3>8 DEF InTurn, ShortcutsInTurn
    <3> QED
      BY <1>0, <1>4, <2>1, <2>3, <3>3, <3>5, <3>6, <3>9 DEF KeysTyped
  <2> QED
    BY <2>2, <2>3
<1>7. CASE DestroyShortcut
  BY <1>0, <1>4, <1>7, TurnAgrees DEF DestroyShortcut
<1> QED
  BY X11Next, <1>1, <1>2, <1>3, <1>5, <1>6, <1>7 DEF X11Next

LEMMA X11Stays ==
  ASSUME X11Inv, UNCHANGED x11Vars
  PROVE  X11Inv'
BY DEF X11Inv, x11Vars, serverVars, keyVars, KeysTyped, Different, ShortcutsInTurn, Pressed

-----------------------------------------------------------------------------
\* The keys the user holds.  What x11.keys_pressed, p, will be is told by the events
\* that are still in the queue, q; h are the keys held, r the key a repeat was sent a
\* release for only, t the time of the server, and lt and lk are the time and the key
\* of the last release looked at.

\* Event i is a release, and the next one the press that makes them a repeat.
Following(q, i) ==
  /\ q[i].type = "release" /\ i < Len(q)
  /\ q[i + 1].type = "press" /\ q[i + 1].key = q[i].key /\ q[i + 1].time = q[i].time

\* A key about which there is nothing in the queue is as the user has it, but for one
\* whose release in a repeat has been taken before its press was sent.
NoneLeft(q, p, h, r, t, lt, lk) ==
  \A k \in Keys : (\A i \in 1 .. Len(q) : q[i].key # k) =>
    IF k \in r THEN q = << >> /\ k \notin p /\ lk = {k} /\ lt = t ELSE k \in p <=> k \in h

\* The last event about a key tells how the user has it.
LastTells(q, h, r, t) ==
  \A i \in 1 .. Len(q) : (\A j \in (i + 1) .. Len(q) : q[j].key # q[i].key) =>
    IF q[i].type = "press" THEN q[i].key \in h /\ q[i].key \notin r
    ELSE IF q[i].key \in r THEN i = Len(q) /\ q[i].time = t ELSE q[i].key \notin h

\* The press of a repeat whose release was taken is the next event, and its key down.
PressPending(q, p, lt, lk) ==
  \A i \in 1 .. Len(q) :
    q[i].type = "press" /\ q[i].time = lt /\ {q[i].key} = lk => i = 1 /\ q[i].key \in p

\* When the release of a repeat is taken its key will be down.
DownBefore(q, p, i) ==
  \/ \E j \in 1 .. (i - 1) : /\ q[j].key = q[i].key /\ q[j].type = "press"
                             /\ \A l \in (j + 1) .. (i - 1) : q[l].key # q[i].key
  \/ (\A j \in 1 .. (i - 1) : q[j].key # q[i].key) /\ q[i].key \in p

RepeatAt(q, r, i) ==
  q[i].type = "release" /\ ((i = Len(q) /\ q[i].key \in r) \/ Following(q, i))

RepeatsDown(q, p, r) == \A i \in 1 .. Len(q) : RepeatAt(q, r, i) => DownBefore(q, p, i)

\* No two events but those of a repeat have one time.
Timely(q, t, lt) ==
  /\ \A i, j \in 1 .. Len(q) :
       i < j => q[i].time < q[j].time \/ (j = i + 1 /\ Following(q, i))
  /\ \A i \in 1 .. Len(q) : q[i].time <= t
  /\ lt <= t

Tracked(q, p, h, r, t, lt, lk) ==
  /\ NoneLeft(q, p, h, r, t, lt, lk) /\ LastTells(q, h, r, t)
  /\ PressPending(q, p, lt, lk) /\ RepeatsDown(q, p, r) /\ Timely(q, t, lt)

KeysInv ==
  /\ X11Inv
  /\ ~misled => Tracked(queue, Pressed, held, repeating, now, last_event_time, last_keycode)

\* What both kinds of event do to the keys that are down and to the last release.
Pressing(e, p, p1, lt, lk, lt1, lk1) ==
  /\ e.type = "press" /\ lt1 = lt /\ lk1 = lk
  /\ \/ e.time = lt /\ {e.key} = lk /\ p1 = p
     \/ p1 = p \cup {e.key}
Releasing(e, p, p1, lt1, lk1, repeated) ==
  /\ e.type = "release" /\ lt1 = e.time /\ lk1 = {e.key}
  /\ p1 = IF repeated THEN p ELSE p \ {e.key}

\* The first event is taken.
LEMMA TakenTracked ==
  ASSUME NEW q \in Seq(Event), NEW q1 \in Seq(Event), q # << >>,
         Len(q1) = Len(q) - 1, \A i \in 1 .. Len(q1) : q1[i] = q[i + 1],
         NEW p, NEW p1, NEW h, NEW r, NEW t \in Int, NEW lt \in Int, NEW lk, NEW lt1, NEW lk1,
         Tracked(q, p, h, r, t, lt, lk),
         \/ Pressing(q[1], p, p1, lt, lk, lt1, lk1)
         \/ Releasing(q[1], p, p1, lt1, lk1, Following(q, 1))
  PROVE  Tracked(q1, p1, h, r, t, lt1, lk1)
<1>1. PICK n \in Nat : n = Len(q) /\ n >= 1 /\ Len(q1) = n - 1
  BY EmptySeq
<1>2. \A i \in 1 .. n : q[i].key \in Keys /\ q[i].time \in Int
  <2>1. \A i \in 1 .. n : q[i] \in Event
    BY <1>1, ElementOfSeq
  <2> QED
    BY <2>1, TimeBound DEF Event
<1>3. \A i \in 1 .. (n - 1) : i + 1 \in 1 .. n /\ i + 1 # 1 /\ q1[i] = q[i + 1]
  BY <1>1
<1>4. \A i \in 1 .. n : i = 1 \/ (i - 1 \in 1 .. (n - 1) /\ (i - 1) + 1 = i)
  OBVIOUS
<1>5. 1 \in 1 .. n
  BY <1>1
<1>6. ASSUME q[1].type = "press"
      PROVE  /\ lt1 = lt /\ lk1 = lk /\ q[1].key \in p1
             /\ \A k : k \in p1 <=> k \in p \/ k = q[1].key
  <2>1. Pressing(q[1], p, p1, lt, lk, lt1, lk1)
    BY <1>6 DEF Releasing
  <2>2. CASE q[1].time = lt /\ {q[1].key} = lk /\ p1 = p
    <3>1. q[1].key \in p
      BY <1>1, <1>5, <1>6, <2>2 DEF Tracked, PressPending
    <3> QED
      BY <2>1, <2>2, <3>1 DEF Pressing
  <2> QED
    BY <2>1, <2>2 DEF Pressing
<1>7. ASSUME q[1].type # "press"
      PROVE  /\ q[1].type = "release" /\ lt1 = q[1].time /\ lk1 = {q[1].key}
             /\ p1 = IF Following(q, 1) THEN p ELSE p \ {q[1].key}
  BY <1>7 DEF Pressing, Releasing
<1>8. ASSUME NEW k, k # q[1].key
      PROVE  k \in p1 <=> k \in p
  BY <1>6, <1>7, <1>8
<1>9. \A i \in 1 .. (n - 1) : Following(q1, i) <=> Following(q, i + 1)
  <2> TAKE i \in 1 .. (n - 1)
  <2>1. i < Len(q1) <=> i + 1 < n
    BY <1>1
  <2>2. i < Len(q1) => q1[i + 1] = q[(i + 1) + 1]
    BY <1>1, <1>3
  <2> QED
    BY <1>1, <1>3, <2>1, <2>2 DEF Following
<1>10. NoneLeft(q1, p1, h, r, t, lt1, lk1)
  <2> SUFFICES ASSUME NEW k \in Keys, \A i \in 1 .. (n - 1) : q1[i].key # k
               PROVE  IF k \in r THEN q1 = << >> /\ k \notin p1 /\ lk1 = {k} /\ lt1 = t
                      ELSE k \in p1 <=> k \in h
    BY <1>1 DEF NoneLeft
  <2>1. \A i \in 1 .. n : i # 1 => q[i].key # k
    <3> TAKE i \in 1 .. n
    <3>1. i # 1 => i - 1 \in 1 .. (n - 1) /\ q1[i - 1] = q[i]
      BY <1>3, <1>4
    <3> QED
      BY <3>1
  <2>2. CASE k # q[1].key
    <3>1. \A i \in 1 .. n : q[i].key # k
      BY <2>1, <2>2
    <3>2. k \notin r /\ (k \in p <=> k \in h)
      BY <1>1, <3>1 DEF Tracked, NoneLeft
    <3> QED
      BY <1>8, <2>2, <3>2
  <2>3. CASE k = q[1].key
    <3>1. IF q[1].type = "press" THEN k \in h /\ k \notin r
          ELSE IF k \in r THEN 1 = n /\ q[1].time = t ELSE k \notin h
      <4>1. \A j \in (1 + 1) .. n : q[j].key # k
        BY <2>1
      <4> QED
        BY <1>1, <1>5, <2>3, <4>1 DEF Tracked, LastTells
    <3>2. CASE q[1].type = "press"
      BY <1>6, <2>3, <3>1, <3>2
    <3>3. CASE q[1].type # "press"
      <4>1. ~Following(q, 1)
        <5> SUFFICES ASSUME Following(q, 1)
                     PROVE  FALSE
          OBVIOUS
        <5>1. 2 \in 1 .. n /\ q[2].key = k
          BY <1>1, <2>3 DEF Following
        <5> QED
          BY <2>1, <5>1
      <4>2. k \notin p1 /\ lt1 = q[1].time /\ lk1 = {k}
        BY <1>7, <2>3, <3>3, <4>1
      <4>3. 1 = n => q1 = << >>
        BY <1>1, EmptySeq
      <4> QED
        BY <3>1, <3>3, <4>2, <4>3
    <3> QED
      BY <3>2, <3>3
  <2> QED
    BY <2>2, <2>3
<1>11. LastTells(q1, h, r, t)
  <2> SUFFICES ASSUME NEW i \in 1 .. (n - 1), \A j \in (i + 1) .. (n - 1) : q1[j].key # q1[i].key
               PROVE  IF q1[i].type = "press" THEN q1[i].key \in h /\ q1[i].key \notin r
                      ELSE IF q1[i].key \in r THEN i = n - 1 /\ q1[i].time = t
                      ELSE q1[i].key \notin h
    BY <1>1 DEF LastTells
  <2>1. \A j \in ((i + 1) + 1) .. n : q[j].key # q[i + 1].key
    <3> TAKE j \in ((i + 1) + 1) .. n
    <3>1. j - 1 \in (i + 1) .. (n - 1) /\ j - 1 \in 1 .. (n - 1) /\ (j - 1) + 1 = j
      OBVIOUS
    <3>2. q1[j - 1] = q[j] /\ q1[i] = q[i + 1]
      BY <1>3, <3>1
    <3> QED
      BY <3>1, <3>2
  <2>2. IF q[i + 1].type = "press" THEN q[i + 1].key \in h /\ q[i + 1].key \notin r
        ELSE IF q[i + 1].key \in r THEN i + 1 = n /\ q[i + 1].time = t
        ELSE q[i + 1].key \notin h
    BY <1>1, <1>3, <2>1 DEF Tracked, LastTells
  <2>3. i + 1 = n => i = n - 1
    OBVIOUS
  <2> QED
    BY <1>3, <2>2, <2>3
<1>12. PressPending(q1, p1, lt1, lk1)
  <2> SUFFICES ASSUME NEW i \in 1 .. (n - 1), q1[i].type = "press", q1[i].time = lt1, {q1[i].key} = lk1
               PROVE  i = 1 /\ q1[i].key \in p1
    BY <1>1 DEF PressPending
  <2>1. q1[i] = q[i + 1] /\ i + 1 \in 1 .. n /\ 1 < i + 1
    BY <1>3
  <2>2. CASE q[1].type = "press"
    <3>1. i + 1 = 1
      BY <1>1, <1>6, <2>1, <2>2 DEF Tracked, PressPending
    <3> QED
      BY <2>1, <3>1
  <2>3. CASE q[1].type # "press"
    <3>1. q[i + 1].key = q[1].key /\ q[i + 1].time = q[1].time
      BY <1>7, <2>1, <2>3
    <3>2. q[1].time < q[i + 1].time \/ (i + 1 = 1 + 1 /\ Following(q, 1))
      BY <1>1, <1>5, <2>1 DEF Tracked, Timely
    <3>3. i = 1 /\ Following(q, 1)
      BY <1>2, <1>5, <3>1, <3>2
    <3>4. DownBefore(q, p, 1)
      BY <1>1, <1>5, <3>3 DEF Tracked, RepeatsDown, RepeatAt, Following
    <3>5. q[1].key \in p
      BY <3>4 DEF DownBefore
    <3> QED
      BY <1>7, <2>1, <2>3, <3>1, <3>3, <3>5
  <2> QED
    BY <2>2, <2>3
<1>13. RepeatsDown(q1, p1, r)
  <2> SUFFICES ASSUME NEW i \in 1 .. (n - 1), RepeatAt(q1, r, i)
               PROVE  DownBefore(q1, p1, i)
    BY <1>1 DEF RepeatsDown
  <2> DEFINE k == q1[i].key
  <2>1. q1[i] = q[i + 1] /\ i + 1 \in 1 .. n
    BY <1>3
  <2>2. RepeatAt(q, r, i + 1)
    BY <1>1, <1>9, <2>1 DEF RepeatAt
  <2>3. DownBefore(q, p, i + 1)
    BY <1>1, <2>1, <2>2 DEF Tracked, RepeatsDown
  <2>4. CASE \E j \in 1 .. ((i + 1) - 1) :
               /\ q[j].key = q[i + 1].key /\ q[j].type = "press"
               /\ \A l \in (j + 1) .. ((i + 1) - 1) : q[l].key # q[i + 1].key
    <3>1. PICK j \in 1 .. i :
               /\ q[j].key = k /\ q[j].type = "press"
               /\ \A l \in (j + 1) .. i : q[l].key # k
      BY <2>1, <2>4
    <3>2. \A l \in 1 .. (i - 1) : l + 1 \in 1 .. i /\ q1[l] = q[l + 1]
      BY <1>3
    <3>3. CASE j = 1
      <4>1. k \in p1
        BY <1>6, <3>1, <3>3
      <4>2. \A l \in 1 .. (i - 1) : q1[l].key # k
        BY <3>1, <3>2, <3>3
      <4> QED
        BY <4>1, <4>2 DEF DownBefore
    <3>4. CASE j # 1
      <4>1. j - 1 \in 1 .. (i - 1) /\ (j - 1) + 1 = j
        BY <3>4
      <4>2. q1[j - 1] = q[j]
        BY <3>2, <4>1
      <4>3. \A l \in ((j - 1) + 1) .. (i - 1) : q1[l].key # k
        <5> TAKE l \in ((j - 1) + 1) .. (i - 1)
        <5>1. l \in 1 .. (i - 1) /\ l + 1 \in (j + 1) .. i
          BY <3>4
        <5> QED
          BY <3>1, <3>2, <5>1
      <4> QED
        BY <3>1, <4>1, <4>2, <4>3 DEF DownBefore
    <3> QED
      BY <3>3, <3>4
  <2>5. CASE (\A j \in 1 .. ((i + 1) - 1) : q[j].key # q[i + 1].key) /\ q[i + 1].key \in p
    <3>1. \A j \in 1 .. i : q[j].key # k
      BY <2>1, <2>5
    <3>2. k # q[1].key /\ k \in p
      BY <2>1, <2>5, <3>1
    <3>3. k \in p1
      BY <1>8, <3>2
    <3>4. \A l \in 1 .. (i - 1) : q1[l].key # k
      <4> TAKE l \in 1 .. (i - 1)
      <4>1. l + 1 \in 1 .. i /\ q1[l] = q[l + 1]
        BY <1>3
      <4> QED
        BY <3>1, <4>1
    <3> QED
      BY <3>3, <3>4 DEF DownBefore
  <2> QED
    BY <2>3, <2>4, <2>5 DEF DownBefore
<1>14. Timely(q1, t, lt1)
  <2>1. \A i, j \in 1 .. (n - 1) :
          i < j => q1[i].time < q1[j].time \/ (j = i + 1 /\ Following(q1, i))
    <3> SUFFICES ASSUME NEW i \in 1 .. (n - 1), NEW j \in 1 .. (n - 1), i < j
                 PROVE  q1[i].time < q1[j].time \/ (j = i + 1 /\ Following(q1, i))
      OBVIOUS
    <3>1. q[i + 1].time < q[j + 1].time \/ (j + 1 = (i + 1) + 1 /\ Following(q, i + 1))
      BY <1>1, <1>3 DEF Tracked, Timely
    <3> QED
      BY <1>3, <1>9, <3>1
  <2>2. \A i \in 1 .. n : q[i].time <= t
    BY <1>1 DEF Tracked, Timely
  <2>3. \A i \in 1 .. (n - 1) : q1[i].time <= t
    BY <1>3, <2>2
  <2>4. lt1 <= t
    BY <1>5, <1>6, <1>7, <2>2 DEF Tracked, Timely
  <2> QED
    BY <1>1, <2>1, <2>3, <2>4 DEF Timely
<1> QED
  BY <1>10, <1>11, <1>12, <1>13, <1>14 DEF Tracked

\* The first event is looked at and left in the queue.
LEMMA PeekedTracked ==
  ASSUME NEW q \in Seq(Event), q # << >>,
         NEW p, NEW p1, NEW h, NEW r, NEW t \in Int, NEW lt \in Int, NEW lk, NEW lt1, NEW lk1,
         Tracked(q, p, h, r, t, lt, lk), q[1].type = "release" => q[1].key \notin r,
         ~Following(q, 1),
         \/ Pressing(q[1], p, p1, lt, lk, lt1, lk1)
         \/ Releasing(q[1], p, p1, lt1, lk1, FALSE)
  PROVE  Tracked(q, p1, h, r, t, lt1, lk1)
<1>1. PICK n \in Nat : n = Len(q) /\ n >= 1
  BY EmptySeq
<1>2. \A i \in 1 .. n : q[i].key \in Keys /\ q[i].time \in Int
  <2>1. \A i \in 1 .. n : q[i] \in Event
    BY <1>1, ElementOfSeq
  <2> QED
    BY <2>1, TimeBound DEF Event
<1>5. 1 \in 1 .. n
  BY <1>1
<1>6. ASSUME q[1].type = "press"
      PROVE  /\ lt1 = lt /\ lk1 = lk /\ q[1].key \in p1
             /\ \A k : k \in p1 <=> k \in p \/ k = q[1].key
  <2>1. Pressing(q[1], p, p1, lt, lk, lt1, lk1)
    BY <1>6 DEF Releasing
  <2>2. CASE q[1].time = lt /\ {q[1].key} = lk /\ p1 = p
    <3>1. q[1].key \in p
      BY <1>1, <1>5, <1>6, <2>2 DEF Tracked, PressPending
    <3> QED
      BY <2>1, <2>2, <3>1 DEF Pressing
  <2> QED
    BY <2>1, <2>2 DEF Pressing
<1>7. ASSUME q[1].type # "press"
      PROVE  /\ q[1].type = "release" /\ lt1 = q[1].time /\ lk1 = {q[1].key}
             /\ p1 = p \ {q[1].key}
  BY <1>7 DEF Pressing, Releasing
<1>8. ASSUME NEW k, k # q[1].key
      PROVE  k \in p1 <=> k \in p
  BY <1>6, <1>7, <1>8
<1>9. NoneLeft(q, p1, h, r, t, lt1, lk1)
  <2> SUFFICES ASSUME NEW k \in Keys, \A i \in 1 .. n : q[i].key # k
               PROVE  k \notin r /\ (k \in p1 <=> k \in h)
    BY <1>1 DEF NoneLeft
  <2>1. k \notin r /\ (k \in p <=> k \in h)
    BY <1>1 DEF Tracked, NoneLeft
  <2> QED
    BY <1>5, <1>8, <2>1
<1>10. LastTells(q, h, r, t)
  BY DEF Tracked
<1>11. PressPending(q, p1, lt1, lk1)
  <2> SUFFICES ASSUME NEW i \in 1 .. n, q[i].type = "press", q[i].time = lt1, {q[i].key} = lk1
               PROVE  i = 1 /\ q[i].key \in p1
    BY <1>1 DEF PressPending
  <2>1. CASE q[1].type = "press"
    BY <1>1, <1>6, <2>1 DEF Tracked, PressPending
  <2>2. CASE q[1].type # "press"
    <3>1. 1 < i /\ q[i].time = q[1].time
      BY <1>7, <2>2
    <3>2. q[1].time < q[i].time
      BY <1>1, <1>5, <3>1 DEF Tracked, Timely
    <3> QED
      BY <1>2, <1>5, <3>1, <3>2
  <2> QED
    BY <2>1, <2>2
<1>12. RepeatsDown(q, p1, r)
  <2> SUFFICES ASSUME NEW i \in 1 .. n, RepeatAt(q, r, i)
               PROVE  DownBefore(q, p1, i)
    BY <1>1 DEF RepeatsDown
  <2>1. DownBefore(q, p, i)
    BY <1>1 DEF Tracked, RepeatsDown
  <2>2. i # 1
    BY DEF RepeatAt
  <2>3. 1 \in 1 .. (i - 1)
    BY <2>2
  <2>4. CASE (\A j \in 1 .. (i - 1) : q[j].key # q[i].key) /\ q[i].key \in p
    <3>1. q[i].key # q[1].key
      BY <2>3, <2>4
    <3>2. q[i].key \in p1
      BY <1>8, <2>4, <3>1
    <3> QED
      BY <2>4, <3>2 DEF DownBefore
  <2> QED
    BY <2>1, <2>4 DEF DownBefore
<1>13. Timely(q, t, lt1)
  BY <1>1, <1>5, <1>6, <1>7 DEF Tracked, Timely
<1> QED
  BY <1>9, <1>10, <1>11, <1>12, <1>13 DEF Tracked

\* If there are events about a key there is a last one.
Tells(q, n, k) == \E i \in 1 .. n : q[i].key = k
TellsLast(q, n, k) == \E i \in 1 .. n : q[i].key = k /\ \A j \in (i + 1) .. n : q[j].key # k

LEMMA LastAbout ==
  ASSUME NEW q, NEW n \in Nat, NEW k, Tells(q, n, k)
  PROVE  TellsLast(q, n, k)
<1> DEFINE S == {m \in 0 .. n : m < n /\ q[n - m].key = k}
<1>1. PICK j \in 1 .. n : q[j].key = k
  BY DEF Tells
<1>2. n - j \in 0 .. n /\ n - j < n /\ n - (n - j) = j
  OBVIOUS
<1>3. n - j \in S
  BY <1>1, <1>2
<1>4. PICK m \in S : \A l \in S : m <= l
  <2>1. S # {}
    BY <1>3
  <2>2. S \in SUBSET Nat
    OBVIOUS
  <2> HIDE DEF S
  <2> QED
    BY <2>1, <2>2, SmallestOf
<1>5. m \in 0 .. n /\ m < n /\ q[n - m].key = k
  OBVIOUS
<1>6. n - m \in 1 .. n
  BY <1>5
<1>7. \A l \in ((n - m) + 1) .. n : q[l].key # k
  <2> SUFFICES ASSUME NEW l \in ((n - m) + 1) .. n, q[l].key = k
               PROVE  FALSE
    OBVIOUS
  <2>1. n - l \in 0 .. n /\ n - l < n /\ n - (n - l) = l /\ ~(m <= n - l)
    BY <1>5
  <2>2. n - l \in S
    BY <2>1
  <2> QED
    BY <1>4, <2>1, <2>2
<1> QED
  BY <1>5, <1>6, <1>7 DEF TellsLast

\* The server sends an event.  r1 and h1 are what is repeating and held then, t1 is
\* the time; the press of a repeat has the time of its release.
Sending(e, q, h, r, t, lt, lk, h1, r1, t1) ==
  \/ /\ e.type = "press" /\ r = {} /\ r1 = {} /\ e.key \notin h /\ h1 = h \cup {e.key} /\ t1 = t + 1
  \/ /\ e.type = "release" /\ r = {} /\ r1 = {} /\ e.key \in h /\ h1 = h \ {e.key} /\ t1 = t + 1
  \/ /\ e.type = "release" /\ r = {} /\ r1 = {e.key} /\ e.key \in h /\ h1 = h /\ t1 = t + 1
  \/ /\ e.type = "press" /\ r = {e.key} /\ r1 = {} /\ e.key \in h /\ h1 = h /\ t1 = t
     /\ ~(lk = {e.key} /\ lt = t)

LEMMA SentTracked ==
  ASSUME NEW q \in Seq(Event), NEW q1 \in Seq(Event), NEW e \in Event,
         Len(q1) = Len(q) + 1, q1[Len(q) + 1] = e, \A i \in 1 .. Len(q) : q1[i] = q[i],
         NEW p, NEW h, NEW r, NEW h1, NEW r1, NEW t \in Int, NEW t1 \in Int,
         NEW lt \in Int, NEW lk, e.time = t1,
         Tracked(q, p, h, r, t, lt, lk),
         Sending(e, q, h, r, t, lt, lk, h1, r1, t1)
  PROVE  Tracked(q1, p, h1, r1, t1, lt, lk)
<1>1. PICK n \in Nat : n = Len(q) /\ Len(q1) = n + 1 /\ q1[n + 1] = e
  BY LenProperties
<1>2. /\ \A i \in 1 .. n : q[i].key \in Keys /\ q[i].time \in Int
      /\ e.key \in Keys
  <2>1. \A i \in 1 .. n : q[i] \in Event
    BY <1>1, ElementOfSeq
  <2> QED
    BY <2>1, TimeBound DEF Event
<1>3. \A i \in 1 .. n : i \in 1 .. (n + 1) /\ q1[i] = q[i]
  BY <1>1
<1>4. \A i \in 1 .. (n + 1) : i \in 1 .. n \/ i = n + 1
  OBVIOUS
<1>5. n + 1 \in 1 .. (n + 1)
  OBVIOUS
\* The event in front of the press of a repeat is its release.
<1>6. ASSUME e.type = "press", r = {e.key}
      PROVE  /\ n \in 1 .. n /\ q[n].type = "release" /\ q[n].key = e.key /\ q[n].time = t
             /\ ~(lk = {e.key} /\ lt = t)
  <2>1. ~(lk = {e.key} /\ lt = t)
    BY <1>6 DEF Sending
  <2>2. \E i \in 1 .. n : q[i].key = e.key
    BY <1>1, <1>2, <1>6, <2>1 DEF Tracked, NoneLeft
  <2>3. PICK i \in 1 .. n : q[i].key = e.key /\ \A j \in (i + 1) .. n : q[j].key # e.key
    <3>1. TellsLast(q, n, e.key)
      BY <2>2, LastAbout DEF Tells
    <3> QED
      BY <3>1 DEF TellsLast
  <2>4. /\ q[i].type = "press" => q[i].key \notin r
        /\ q[i].type # "press" /\ q[i].key \in r => i = n /\ q[i].time = t
    BY <1>1, <2>3 DEF Tracked, LastTells
  <2>5. i = n /\ q[i].time = t /\ q[i].type # "press"
    BY <1>6, <2>3, <2>4
  <2>6. q[n].type = "release"
    <3>1. q[n] \in Event
      BY <1>1, <2>3, <2>5, ElementOfSeq
    <3> QED
      BY <2>5, <3>1 DEF Event
  <2> QED
    BY <2>1, <2>3, <2>5, <2>6
<1>7. /\ r \subseteq {e.key} /\ r1 \subseteq {e.key}
      /\ \A k : k # e.key => (k \in h <=> k \in h1)
      /\ e.type = "press" => r1 = {} /\ e.key \in h1
      /\ e.type = "release" => r = {} /\ e.key \in h /\ (r1 = {e.key} \/ (r1 = {} /\ e.key \notin h1))
      /\ t1 = t + 1 \/ (t1 = t /\ e.type = "press" /\ r = {e.key})
      /\ e.type \in {"press", "release"}
  BY DEF Sending
<1>8. NoneLeft(q1, p, h1, r1, t1, lt, lk)
  <2> SUFFICES ASSUME NEW k \in Keys, \A i \in 1 .. (n + 1) : q1[i].key # k
               PROVE  k \notin r1 /\ (k \in p <=> k \in h1)
    BY <1>1 DEF NoneLeft
  <2>1. k # e.key /\ \A i \in 1 .. n : q[i].key # k
    BY <1>1, <1>3, <1>5
  <2>2. k \notin r /\ k \notin r1
    BY <1>7, <2>1
  <2>3. k \in p <=> k \in h
    BY <1>1, <2>1, <2>2 DEF Tracked, NoneLeft
  <2> QED
    BY <1>7, <2>1, <2>2, <2>3
<1>9. LastTells(q1, h1, r1, t1)
  <2> SUFFICES ASSUME NEW i \in 1 .. (n + 1), \A j \in (i + 1) .. (n + 1) : q1[j].key # q1[i].key
               PROVE  IF q1[i].type = "press" THEN q1[i].key \in h1 /\ q1[i].key \notin r1
                      ELSE IF q1[i].key \in r1 THEN i = n + 1 /\ q1[i].time = t1
                      ELSE q1[i].key \notin h1
    BY <1>1 DEF LastTells
  <2>1. CASE i = n + 1
    BY <1>1, <1>7, <2>1
  <2>2. CASE i \in 1 .. n
    <3>1. q1[i] = q[i] /\ q[i].key # e.key
      <4>1. n + 1 \in (i + 1) .. (n + 1)
        BY <2>2
      <4> QED
        BY <1>1, <1>3, <2>2, <4>1
    <3>2. \A j \in (i + 1) .. n : q[j].key # q[i].key
      <4> TAKE j \in (i + 1) .. n
      <4>1. j \in 1 .. n /\ j \in (i + 1) .. (n + 1)
        OBVIOUS
      <4> QED
        BY <1>3, <3>1, <4>1
    <3>3. IF q[i].type = "press" THEN q[i].key \in h /\ q[i].key \notin r
          ELSE IF q[i].key \in r THEN i = n /\ q[i].time = t ELSE q[i].key \notin h
      BY <1>1, <2>2, <3>2 DEF Tracked, LastTells
    <3>4. q[i].key \notin r /\ q[i].key \notin r1
      BY <1>7, <3>1
    <3> QED
      BY <1>7, <3>1, <3>3, <3>4
  <2> QED
    BY <1>4, <2>1, <2>2
<1>10. PressPending(q1, p, lt, lk)
  <2> SUFFICES ASSUME NEW i \in 1 .. (n + 1), q1[i].type = "press", q1[i].time = lt, {q1[i].key} = lk
               PROVE  i = 1 /\ q1[i].key \in p
    BY <1>1 DEF PressPending
  <2>1. CASE i = n + 1
    <3>1. e.type = "press" /\ t1 = lt /\ {e.key} = lk /\ lt <= t
      BY <1>1, <2>1 DEF Tracked, Timely
    <3>2. t1 = t /\ r = {e.key}
      BY <1>7, <3>1
    <3> QED
      BY <1>6, <3>1, <3>2
  <2>2. CASE i \in 1 .. n
    BY <1>1, <1>3, <2>2 DEF Tracked, PressPending
  <2> QED
    BY <1>4, <2>1, <2>2
<1>11. RepeatsDown(q1, p, r1)
  <2> SUFFICES ASSUME NEW i \in 1 .. (n + 1), RepeatAt(q1, r1, i)
               PROVE  DownBefore(q1, p, i)
    BY <1>1 DEF RepeatsDown
  <2>1. CASE i = n + 1
    <3>1. e.type = "release" /\ e.key \in r1 /\ r = {} /\ e.key \in h
      BY <1>1, <1>7, <2>1 DEF RepeatAt, Following
    <3>2. CASE \A j \in 1 .. n : q[j].key # e.key
      <4>1. e.key \in p
        BY <1>1, <1>2, <3>1, <3>2 DEF Tracked, NoneLeft
      <4>2. \A j \in 1 .. (i - 1) : j \in 1 .. n
        BY <2>1
      <4> QED
        BY <1>1, <1>3, <2>1, <3>2, <4>1, <4>2 DEF DownBefore
    <3>3. CASE \E j \in 1 .. n : q[j].key = e.key
      <4>1. PICK j \in 1 .. n : q[j].key = e.key /\ \A l \in (j + 1) .. n : q[l].key # e.key
        <5>1. TellsLast(q, n, e.key)
          BY <3>3, LastAbout DEF Tells
        <5> QED
          BY <5>1 DEF TellsLast
      <4>2. q[j].type = "press"
        BY <1>1, <3>1, <4>1 DEF Tracked, LastTells
      <4>3. j \in 1 .. (i - 1) /\ i - 1 = n
        BY <2>1
      <4>4. \A l \in (j + 1) .. (i - 1) : q1[l].key # e.key
        <5> TAKE l \in (j + 1) .. (i - 1)
        <5>1. l \in (j + 1) .. n /\ l \in 1 .. n
          BY <4>3
        <5> QED
          BY <1>3, <4>1, <5>1
      <4> QED
        BY <1>1, <1>3, <2>1, <4>1, <4>2, <4>3, <4>4 DEF DownBefore
    <3> QED
      BY <3>2, <3>3
  <2>2. CASE i \in 1 .. n
    <3>1. Following(q1, i) /\ q1[i] = q[i]
      BY <1>1, <1>3, <2>2 DEF RepeatAt
    <3>2. RepeatAt(q, r, i)
      <4>1. CASE i = n
        <5>1. e.type = "press" /\ e.key = q[n].key /\ t1 = q[n].time /\ q[n].type = "release"
          BY <1>1, <3>1, <4>1 DEF Following
        <5>2. q[n].time <= t
          BY <1>1, <2>2, <4>1 DEF Tracked, Timely
        <5>3. r = {e.key}
          BY <1>7, <5>1, <5>2
        <5> QED
          BY <1>1, <4>1, <5>1, <5>3 DEF RepeatAt
      <4>2. CASE i # n
        <5>1. i + 1 \in 1 .. n
          BY <2>2, <4>2
        <5> QED
          BY <1>1, <1>3, <3>1, <5>1 DEF Following, RepeatAt
      <4> QED
        BY <4>1, <4>2
    <3>3. DownBefore(q, p, i)
      BY <1>1, <2>2, <3>2 DEF Tracked, RepeatsDown
    <3>4. \A j \in 1 .. (i - 1) : j \in 1 .. n /\ q1[j] = q[j]
      BY <1>3, <2>2
    <3>5. CASE (\A j \in 1 .. (i - 1) : q[j].key # q[i].key) /\ q[i].key \in p
      BY <3>1, <3>4, <3>5 DEF DownBefore
    <3>6. CASE \E j \in 1 .. (i - 1) : /\ q[j].key = q[i].key /\ q[j].type = "press"
                                       /\ \A l \in (j + 1) .. (i - 1) : q[l].key # q[i].key
      <4>1. PICK j \in 1 .. (i - 1) : /\ q[j].key = q[i].key /\ q[j].type = "press"
                                      /\ \A l \in (j + 1) .. (i - 1) : q[l].key # q[i].key
        BY <3>6
      <4>2. \A l \in (j + 1) .. (i - 1) : q1[l].key # q1[i].key
        <5> TAKE l \in (j + 1) .. (i - 1)
        <5>1. l \in 1 .. (i - 1)
          OBVIOUS
        <5> QED
          BY <3>1, <3>4, <4>1, <5>1
      <4> QED
        BY <3>1, <3>4, <4>1, <4>2 DEF DownBefore
    <3> QED
      BY <3>3, <3>5, <3>6 DEF DownBefore
  <2> QED
    BY <1>4, <2>1, <2>2
<1>12. Timely(q1, t1, lt)
  <2>1. lt <= t1 /\ t <= t1
    BY <1>7 DEF Tracked, Timely
  <2>2. \A i \in 1 .. (n + 1) : q1[i].time <= t1
    <3> TAKE i \in 1 .. (n + 1)
    <3>1. CASE i = n + 1
      BY <1>1, <3>1
    <3>2. CASE i \in 1 .. n
      <4>1. q1[i] = q[i] /\ q[i].time <= t /\ q[i].time \in Int
        BY <1>1, <1>2, <1>3, <3>2 DEF Tracked, Timely
      <4> QED
        BY <2>1, <4>1
    <3> QED
      BY <1>4, <3>1, <3>2
  <2>3. ASSUME NEW i \in 1 .. (n + 1), NEW j \in 1 .. (n + 1), i < j
        PROVE  q1[i].time < q1[j].time \/ (j = i + 1 /\ Following(q1, i))
    <3>0. i \in 1 .. n /\ q1[i] = q[i] /\ q[i].time <= t /\ q[i].time \in Int
      <4>1. i \in 1 .. n
        BY <2>3
      <4> QED
        BY <1>1, <1>2, <1>3, <4>1 DEF Tracked, Timely
    <3>1. CASE j \in 1 .. n
      <4>1. q[i].time < q[j].time \/ (j = i + 1 /\ Following(q, i))
        BY <1>1, <2>3, <3>0, <3>1 DEF Tracked, Timely
      <4>2. j = i + 1 /\ Following(q, i) => Following(q1, i)
        BY <1>1, <1>3, <3>0, <3>1 DEF Following
      <4> QED
        BY <1>3, <3>0, <3>1, <4>1, <4>2
    <3>2. CASE j = n + 1 /\ t1 = t + 1
      BY <1>1, <3>0, <3>2
    <3>3. CASE j = n + 1 /\ t1 = t /\ e.type = "press" /\ r = {e.key}
      <4>1. n \in 1 .. n /\ q[n].type = "release" /\ q[n].key = e.key /\ q[n].time = t
        BY <1>6, <3>3
      <4>2. CASE i = n
        BY <1>1, <1>3, <3>0, <3>3, <4>1, <4>2 DEF Following
      <4>3. CASE i # n
        <5>1. i < n
          BY <3>0, <4>3
        <5>2. q[i].time < q[n].time \/ (n = i + 1 /\ Following(q, i))
          BY <1>1, <3>0, <4>1, <5>1 DEF Tracked, Timely
        <5>3. ~(n = i + 1 /\ Following(q, i))
          BY <4>1 DEF Following
        <5> QED
          BY <1>1, <3>0, <3>3, <4>1, <5>2, <5>3
      <4> QED
        BY <4>2, <4>3
    <3> QED
      BY <1>4, <1>7, <3>1, <3>2, <3>3
  <2> QED
    BY <1>1, <2>1, <2>2, <2>3 DEF Timely
<1> QED
  BY <1>8, <1>9, <1>10, <1>11, <1>12 DEF Tracked

\* The press of a repeat behind its release.
LEMMA RepeatedFollows ==
  ASSUME NEW q \in Seq(Event), q # << >>, q[1].type = "release",
         NEW rest \in Seq(Event), Len(rest) = Len(q) - 1,
         \A i \in 1 .. Len(rest) : rest[i] = q[i + 1]
  PROVE  Repeated(q[1], rest) <=> Following(q, 1)
<1>1. PICK n \in Nat : n = Len(q) /\ n >= 1
  BY EmptySeq
<1>2. CASE rest = << >>
  <2>1. Len(rest) = 0
    BY <1>2
  <2> QED
    BY <1>1, <1>2, <2>1 DEF Repeated, Following
<1>3. CASE rest # << >>
  <2>1. Len(rest) \in Nat \ {0}
    BY <1>3, EmptySeq
  <2>2. 2 \in 1 .. n /\ 1 < n /\ rest[1] = q[2] /\ 1 \in 1 .. n
    BY <1>1, <2>1
  <2>3. Head(rest) = rest[1]
    BY <1>3, HeadTailProperties
  <2>4. q[1] \in Event /\ q[2] \in Event
    BY <1>1, <2>2, ElementOfSeq
  <2>5. q[2] = [q[1] EXCEPT !.type = "press"] <=>
          q[2].type = "press" /\ q[2].key = q[1].key /\ q[2].time = q[1].time
    BY <2>4 DEF Event
  <2> QED
    BY <1>1, <1>3, <2>2, <2>3, <2>5 DEF Repeated, Following
<1> QED
  BY <1>2, <1>3

\* What looking at the first event does to the keys.
LEMMA EventChanges ==
  ASSUME KeysTyped, NEW e \in Event, NEW rest, X11Event(e, rest)
  PROVE  \/ Pressing(e, Pressed, Pressed', last_event_time, last_keycode,
                     last_event_time', last_keycode')
         \/ Releasing(e, Pressed, Pressed', last_event_time', last_keycode', Repeated(e, rest))
<1>1. CASE e.type = "press" /\ IgnoredPress(e) /\ Pressed' = Pressed
           /\ UNCHANGED <<last_event_time, last_keycode>>
  <2>1. e.key \in Pressed => Pressed' = Pressed \cup {e.key}
    BY <1>1
  <2> QED
    BY <1>1, <2>1 DEF IgnoredPress, Pressing
<1> QED
  BY <1>1, KeysChanged DEF Pressing, Releasing

LEMMA KeysInitially ==
  ASSUME X11Init
  PROVE  KeysInv
<1>1. /\ queue = << >> /\ Len(queue) = 0 /\ held = {} /\ repeating = {}
      /\ now = 1 /\ last_event_time = 0
  BY DEF X11Init
<1>2. Pressed = {}
  BY DEF X11Init, Pressed, ToSet
<1>3. 1 .. Len(queue) = {}
  BY <1>1
<1>4. /\ NoneLeft(queue, Pressed, held, repeating, now, last_event_time, last_keycode)
      /\ LastTells(queue, held, repeating, now)
      /\ PressPending(queue, Pressed, last_event_time, last_keycode)
      /\ RepeatsDown(queue, Pressed, repeating)
  BY <1>1, <1>2, <1>3 DEF NoneLeft, LastTells, PressPending, RepeatsDown
<1>5. Timely(queue, now, last_event_time)
  BY <1>1, <1>3 DEF Timely
<1> QED
  BY <1>4, <1>5, X11Initially DEF KeysInv, Tracked

LEMMA KeysStep ==
  ASSUME KeysInv, X11Next
  PROVE  KeysInv'
<1>0. X11Inv' /\ X11Inv /\ KeysTyped
  BY X11Step DEF KeysInv, X11Inv
<1> DEFINE Goes == Tracked(queue, Pressed, held, repeating, now, last_event_time, last_keycode)'
<1> SUFFICES ASSUME ~misled'
             PROVE  Goes
  BY <1>0 DEF KeysInv
<1>a. ASSUME ~misled
      PROVE  Tracked(queue, Pressed, held, repeating, now, last_event_time, last_keycode)
  BY <1>a DEF KeysInv
<1>b. /\ queue \in Seq(Event) /\ queue' \in Seq(Event) /\ now \in Int /\ now' \in Int
      /\ last_event_time \in Int /\ DOMAIN queue = 1 .. Len(queue) /\ Len(queue) \in Nat
      /\ now' \in 1 .. MaxTime
  BY <1>0, TimeBound, LenProperties DEF KeysTyped, X11Inv
<1>1. ASSUME NEW k \in Keys,
             UserPresses(k) \/ RepeatRelease(k) \/ RepeatPress(k)
             \/ \E focused \in BOOLEAN : UserReleases(k, focused)
      PROVE  Goes
  <2>1. /\ ~misled
        /\ \E type \in {"press", "release"} :
             /\ Sent(type, k, now')
             /\ \/ /\ type = "press" /\ repeating = {} /\ repeating' = {} /\ k \notin held
                   /\ held' = held \cup {k} /\ now' = now + 1
                \/ /\ type = "release" /\ repeating = {} /\ repeating' = {} /\ k \in held
                   /\ held' = held \ {k} /\ now' = now + 1
                \/ /\ type = "release" /\ repeating = {} /\ repeating' = {k} /\ k \in held
                   /\ held' = held /\ now' = now + 1
                \/ /\ type = "press" /\ repeating = {k} /\ repeating' = {} /\ k \in held
                   /\ held' = held /\ now' = now
                   /\ ~(last_keycode = {k} /\ last_event_time = now)
    <3>1. CASE UserPresses(k)
      BY <3>1 DEF UserPresses
    <3>2. CASE RepeatRelease(k)
      BY <3>2 DEF RepeatRelease
    <3>3. CASE RepeatPress(k)
      <4>1. repeating = {k} /\ k \in held
        BY <1>0, <3>3 DEF RepeatPress, KeysTyped
      <4>2. Sent("press", k, now')
        BY <3>3 DEF RepeatPress
      <4> QED
        BY <3>3, <4>1, <4>2 DEF RepeatPress
    <3>4. CASE \E focused \in BOOLEAN : UserReleases(k, focused)
      BY <3>4 DEF UserReleases
    <3> QED
      BY <1>1, <3>1, <3>2, <3>3, <3>4
  <2>2. PICK type \in {"press", "release"} :
             /\ Sent(type, k, now')
             /\ \/ /\ type = "press" /\ repeating = {} /\ repeating' = {} /\ k \notin held
                   /\ held' = held \cup {k} /\ now' = now + 1
                \/ /\ type = "release" /\ repeating = {} /\ repeating' = {} /\ k \in held
                   /\ held' = held \ {k} /\ now' = now + 1
                \/ /\ type = "release" /\ repeating = {} /\ repeating' = {k} /\ k \in held
                   /\ held' = held /\ now' = now + 1
                \/ /\ type = "press" /\ repeating = {k} /\ repeating' = {} /\ k \in held
                   /\ held' = held /\ now' = now
                   /\ ~(last_keycode = {k} /\ last_event_time = now)
    BY <2>1
  <2>3. PICK e \in Event : /\ e.type = type /\ e.key = k /\ e.time = now'
                           /\ Len(queue') = Len(queue) + 1 /\ queue'[Len(queue) + 1] = e
                           /\ \A i \in 1 .. Len(queue) : queue'[i] = queue[i]
    BY <1>0, <1>b, <2>2, EventSent
  <2>4. Sending(e, queue, held, repeating, now, last_event_time, last_keycode,
                held', repeating', now')
    BY <2>2, <2>3 DEF Sending
  <2>5. UNCHANGED <<keys_pressed, last_event_time, last_keycode>>
    BY <1>1 DEF UserPresses, RepeatRelease, RepeatPress, UserReleases, LocalUnchanged, keyVars
  <2>6. Pressed' = Pressed
    BY <2>5 DEF Pressed
  <2>7. Tracked(queue', Pressed, held', repeating', now', last_event_time, last_keycode)
    BY <1>a, <1>b, <2>1, <2>3, <2>4, SentTracked
  <2> QED
    BY <2>5, <2>6, <2>7
<1>2. ASSUME NEW i \in DOMAIN queue, TakeEvent(i)
      PROVE  Goes
  <2>1. ~misled /\ i = 1
    <3>1. ~misled /\ ~(i > 1)
      BY <1>2 DEF TakeEvent
    <3> QED
      BY <1>b, <3>1
  <2>2. queue # << >> /\ queue[1] \in Event /\ 1 \in 1 .. Len(queue)
    BY <1>b, <2>1, ElementOfSeq, EmptySeq
  <2>3. /\ queue' = RemoveAt(queue, 1) /\ X11Event(queue[1], queue')
        /\ UNCHANGED serverVars
    BY <1>2, <2>1 DEF TakeEvent
  <2>4. /\ Len(queue') = Len(queue) - 1
        /\ \A j \in 1 .. (Len(queue) - 1) : queue'[j] = IF j < 1 THEN queue[j] ELSE queue[j + 1]
    BY <1>b, <2>2, <2>3, Shortened
  <2>5. \A j \in 1 .. Len(queue') : queue'[j] = queue[j + 1]
    BY <2>4
  <2>6. PICK rest : rest = queue'
    OBVIOUS
  <2>7. \/ Pressing(queue[1], Pressed, Pressed', last_event_time, last_keycode,
                    last_event_time', last_keycode')
        \/ Releasing(queue[1], Pressed, Pressed', last_event_time', last_keycode',
                     Repeated(queue[1], rest))
    BY <1>0, <2>2, <2>3, <2>6, EventChanges
  <2>8. queue[1].type = "release" => (Repeated(queue[1], rest) <=> Following(queue, 1))
    BY <1>b, <2>2, <2>4, <2>5, <2>6, RepeatedFollows
  <2>9. \/ Pressing(queue[1], Pressed, Pressed', last_event_time, last_keycode,
                    last_event_time', last_keycode')
        \/ Releasing(queue[1], Pressed, Pressed', last_event_time', last_keycode',
                     Following(queue, 1))
    BY <2>7, <2>8 DEF Releasing
  <2>10. Tracked(queue', Pressed', held, repeating, now, last_event_time', last_keycode')
    BY <1>a, <1>b, <2>1, <2>2, <2>4, <2>5, <2>9, TakenTracked
  <2> QED
    BY <2>3, <2>10 DEF serverVars
<1>3. ASSUME NEW i \in DOMAIN queue, PeekEvent(i)
      PROVE  Goes
  <2>1. ~misled /\ i = 1
    <3>1. ~misled /\ ~(i > 1)
      BY <1>3 DEF PeekEvent
    <3> QED
      BY <1>b, <3>1
  <2>2. queue # << >> /\ queue[1] \in Event
    BY <1>b, <2>1, ElementOfSeq, EmptySeq
  <2>3. /\ X11Event(queue[1], queue) /\ UNCHANGED <<serverVars, queue>>
        /\ queue[1].type = "release" =>
             ~Repeated(queue[1], Tail(queue)) /\ queue[1].key \notin repeating
    BY <1>3, <2>1 DEF PeekEvent
  <2>4. ~Repeated(queue[1], queue) \/ queue[1].type = "press"
    <3>1. Head(queue) = queue[1]
      BY <1>b, <2>2, HeadTailProperties
    <3> QED
      BY <2>2, <3>1 DEF Repeated, Event
  <2>5. ~Following(queue, 1)
    <3>1. /\ Tail(queue) \in Seq(Event) /\ Len(Tail(queue)) = Len(queue) - 1
          /\ \A j \in 1 .. Len(Tail(queue)) : Tail(queue)[j] = queue[j + 1]
      BY <1>b, <2>2, HeadTailProperties
    <3>2. queue[1].type = "release" => (Repeated(queue[1], Tail(queue)) <=> Following(queue, 1))
      BY <1>b, <2>2, <3>1, RepeatedFollows
    <3> QED
      BY <2>3, <3>2 DEF Following
  <2>6. \/ Pressing(queue[1], Pressed, Pressed', last_event_time, last_keycode,
                    last_event_time', last_keycode')
        \/ Releasing(queue[1], Pressed, Pressed', last_event_time', last_keycode',
                     Repeated(queue[1], queue))
    BY <1>0, <2>2, <2>3, EventChanges
  <2>7. \/ Pressing(queue[1], Pressed, Pressed', last_event_time, last_keycode,
                    last_event_time', last_keycode')
        \/ Releasing(queue[1], Pressed, Pressed', last_event_time', last_keycode', FALSE)
    BY <2>4, <2>6 DEF Releasing
  <2>8. Tracked(queue, Pressed', held, repeating, now, last_event_time', last_keycode')
    BY <1>a, <1>b, <2>1, <2>2, <2>3, <2>5, <2>7, PeekedTracked
  <2> QED
    BY <2>3, <2>8 DEF serverVars
<1>4. ASSUME UNCHANGED <<serverVars, queue, keyVars, misled>>
      PROVE  Goes
  <2>1. Pressed' = Pressed
    BY <1>4 DEF keyVars, Pressed
  <2> QED
    BY <1>4, <1>a, <2>1 DEF serverVars, keyVars
<1> HIDE DEF Goes
<1>5. ASSUME \E keys \in Shortcuts : RegisterShortcut(keys) \/ UnregisterShortcut(keys)
      PROVE  Goes
  BY <1>4, <1>5 DEF RegisterShortcut, UnregisterShortcut
<1>6. CASE DestroyShortcut
  BY <1>4, <1>6 DEF DestroyShortcut
<1> QED
  BY X11Next, <1>1, <1>2, <1>3, <1>5, <1>6 DEF X11Next, ServerNext

LEMMA KeysStay ==
  ASSUME KeysInv, UNCHANGED x11Vars
  PROVE  KeysInv'
<1>1. X11Inv'
  BY X11Stays DEF KeysInv
<1>2. Pressed' = Pressed
  BY DEF x11Vars, keyVars, Pressed
<1> QED
  BY <1>1, <1>2 DEF KeysInv, x11Vars, serverVars, keyVars

\* With nothing left in the queue nothing else is to be told of a key.
LEMMA KeysToldAll ==
  ASSUME KeysInv
  PROVE  KeysTracked
<1> SUFFICES ASSUME ~misled, queue = << >>, repeating = {}
             PROVE  Pressed = held
  BY DEF KeysTracked
<1>1. 1 .. Len(queue) = {}
  OBVIOUS
<1>2. \A k \in Keys : k \in Pressed <=> k \in held
  BY <1>1 DEF KeysInv, Tracked, NoneLeft
<1>3. held \subseteq Keys /\ keys_pressed \in Seq(Keys)
  BY DEF KeysInv, X11Inv, KeysTyped
<1>4. Pressed \subseteq Keys
  BY <1>3, LenProperties, ElementOfSeq DEF Pressed, ToSet
<1> QED
  BY <1>2, <1>3, <1>4


-----------------------------------------------------------------------------
\* OpenGL contexts.  The list of contexts as a sequence l, when first is f, the memory
\* of the contexts m, the threads are h and the drawables the listeners know k.

\* The context behind the first i of the list, and the one before these end.
LinkOf(l, i) == IF i < Len(l) THEN l[i + 1] ELSE NoCtx
PrevOf(l, i) == IF i = 0 THEN NoCtx ELSE l[i]

\* The list is linked from first to NULL and has one context of a drawable.
Linked(l, f, m) ==
  /\ l \in Seq(Cells) /\ Different(l)
  /\ f = LinkOf(l, 0)
  /\ \A i \in 1 .. Len(l) : m[l[i]].next = LinkOf(l, i)
  /\ \A i, j \in 1 .. Len(l) : m[l[i]].id = m[l[j]].id => i = j

\* What thread x holds.
Searching(l, m, x) ==
  \E i \in 0 .. Len(l) :
    /\ x.prev = PrevOf(l, i) /\ x.at = LinkOf(l, i)
    /\ \A j \in 1 .. i : m[l[j]].id # x.drawable
Adding(l, m, x) ==
  /\ x.at \notin ToSet(l) /\ m[x.at].id = x.drawable
  /\ \A j \in 1 .. Len(l) : m[l[j]].id # x.drawable
Using(l, m, x) == \E i \in 1 .. Len(l) : x.at = l[i] /\ m[l[i]].id = x.drawable
Removing(l, m, x) ==
  /\ x.call = "destroy"
  /\ \E i \in 1 .. Len(l) : x.prev = PrevOf(l, i - 1) /\ x.at = l[i] /\ m[l[i]].id = x.drawable

Placed(l, f, m, x) ==
  /\ x.pc = "find" => Searching(l, m, x)
  /\ x.pc \in {"link", "publish"} => Adding(l, m, x)
  /\ x.pc = "publish" => m[x.at].next = f
  /\ x.pc \in {"create", "before", "after"} => Using(l, m, x)
  /\ x.pc \in {"announce", "unlink"} => Removing(l, m, x)
  /\ x.pc = "free" => x.at \notin ToSet(l)

\* Contexts that are allocated and not in the list, and drawables the listeners have
\* been told about already.
Unlisted(h) == {h[t].at : t \in {u \in Renderers : h[u].pc \in {"link", "publish", "free"}}}
Announced(h) == {h[t].drawable : t \in {u \in Renderers : h[u].pc = "unlink"}}

Good(l, f, m, h, k) ==
  /\ Linked(l, f, m)
  /\ \A t \in Renderers : Placed(l, f, m, h[t])
  /\ {c \in Cells : m[c].live} = ToSet(l) \cup Unlisted(h)
  /\ k = {m[l[i]].id : i \in 1 .. Len(l)} \ Announced(h)

\* No two calls meet.
Apart(h) ==
  \A t, u \in Renderers : t # u =>
    /\ ~(h[t].pc \in Listing /\ h[u].pc \in Listing)
    /\ ~(h[t].pc # "idle" /\ h[u].call = "destroy" /\ h[t].drawable = h[u].drawable)

Memory == [id : Drawables \cup {NoCtx}, next : Cells \cup {NoCtx}, live : BOOLEAN]

GlTyped ==
  /\ GlTypeOK
  /\ \A t \in Renderers :
       /\ th[t].pc # "idle" => th[t].drawable \in Drawables
       /\ th[t].pc \notin {"idle", "find"} => th[t].at \in Cells

\* glc_start can be called as long as it is in the list.
StartsOnce ==
  /\ ctx_create \in Seq(ToSet(Listeners)) /\ Different(ctx_create)
  /\ starts \in {0, 1}
  /\ starts = 1 => GlcStart \notin ToSet(ctx_create)

GlInv ==
  /\ GlTyped /\ StartsOnce
  /\ ~raced => /\ Apart(th) /\ ended # "freed context"
               /\ \E l \in Seq(Cells) : Good(l, first, ctx, th, known)

\* No thread but t is where only one may be.
Alone(h, t) == \A u \in Renderers : u # t => h[u].pc \notin Listing

LEMMA ApartAlone ==
  ASSUME NEW h, Apart(h), NEW t \in Renderers, h[t].pc \in Listing
  PROVE  Alone(h, t)
BY DEF Apart, Alone

\* What is not in the list is what this thread holds.
LEMMA AloneHolds ==
  ASSUME NEW h, NEW t \in Renderers, Alone(h, t)
  PROVE  /\ Unlisted(h) = IF h[t].pc \in {"link", "publish", "free"} THEN {h[t].at} ELSE {}
         /\ Announced(h) = IF h[t].pc = "unlink" THEN {h[t].drawable} ELSE {}
<1>1. \A u \in Renderers : h[u].pc \in {"link", "publish", "free", "unlink"} => u = t
  BY DEF Alone, Listing
<1> QED
  BY <1>1 DEF Unlisted, Announced

LEMMA LinkTyped ==
  ASSUME NEW l \in Seq(Cells), NEW i \in 0 .. Len(l)
  PROVE  /\ Len(l) \in Nat /\ LinkOf(l, i) \in Cells \cup {NoCtx}
         /\ LinkOf(l, i) = NoCtx <=> i = Len(l)
         /\ i < Len(l) => i + 1 \in 1 .. Len(l) /\ LinkOf(l, i) = l[i + 1]
         /\ PrevOf(l, i) \in Cells \cup {NoCtx}
         /\ i # 0 => i \in 1 .. Len(l) /\ PrevOf(l, i) = l[i] /\ PrevOf(l, i) # NoCtx
         /\ i = 0 => PrevOf(l, i) = NoCtx
<1>1. PICK n \in Nat : n = Len(l)
  BY LenProperties
<1>2. i \in 0 .. n /\ (i < n => i + 1 \in 1 .. n) /\ (i # 0 => i \in 1 .. n)
  BY <1>1
<1>3. \A j \in 1 .. n : l[j] \in Cells /\ l[j] # NoCtx
  BY <1>1, ElementOfSeq, NoCell
<1> QED
  BY <1>1, <1>2, <1>3 DEF LinkOf, PrevOf

LEMMA ListedCells ==
  ASSUME NEW l \in Seq(Cells)
  PROVE  /\ Len(l) \in Nat /\ ToSet(l) = {l[i] : i \in 1 .. Len(l)}
         /\ \A i \in 1 .. Len(l) : l[i] \in Cells /\ l[i] \in ToSet(l)
<1>1. DOMAIN l = 1 .. Len(l) /\ Len(l) \in Nat
  BY LenProperties
<1>2. \A i \in 1 .. Len(l) : l[i] \in Cells
  BY ElementOfSeq
<1> QED
  BY <1>1, <1>2 DEF ToSet

\* What a thread that is not at the list holds stays what it is when the memory of the
\* contexts in the list does.
LEMMA UsingKept ==
  ASSUME NEW l \in Seq(Cells), NEW m, NEW m1, NEW x, NEW f, NEW f1,
         \A i \in 1 .. Len(l) : m1[l[i]].id = m[l[i]].id,
         x.pc \notin Listing, Placed(l, f, m, x)
  PROVE  Placed(l, f1, m1, x)
<1>1. x.pc \in {"before", "after"} => Using(l, m, x)
  BY DEF Placed
<1>2. x.pc \in {"before", "after"} => Using(l, m1, x)
  BY <1>1 DEF Using
<1> QED
  BY <1>2 DEF Placed, Listing

\* The steps of thread t, which is in h before and in h1 after.
Other(h, h1, t) == \A u \in Renderers : u # t => h1[u] = h[u]

\* It looks on, or calls a listener.
LEMMA MovedGood ==
  ASSUME NEW l, NEW f, NEW m, NEW h, NEW h1, NEW k, NEW k1, NEW t \in Renderers,
         Good(l, f, m, h, k), Other(h, h1, t), Placed(l, f, m, h1[t]),
         h[t].pc \notin {"link", "publish", "free", "unlink"},
         h1[t].pc \notin {"link", "publish", "free"},
         k1 = IF h1[t].pc = "unlink" THEN k \ {h1[t].drawable} ELSE k
  PROVE  Good(l, f, m, h1, k1)
<1>1. \A u \in Renderers : Placed(l, f, m, h1[u])
  <2> SUFFICES ASSUME NEW u \in Renderers
               PROVE  Placed(l, f, m, h1[u])
    OBVIOUS
  <2>1. CASE u = t
    BY <2>1
  <2>2. CASE u # t
    <3>1. h1[u] = h[u] /\ Placed(l, f, m, h[u])
      BY <2>2 DEF Other, Good
    <3> QED
      BY <3>1
  <2> QED
    BY <2>1, <2>2
<1>2. Unlisted(h1) = Unlisted(h)
  BY DEF Unlisted, Other
<1>3. Announced(h1) = Announced(h) \cup (IF h1[t].pc = "unlink" THEN {h1[t].drawable} ELSE {})
  BY DEF Announced, Other
<1>4. k = {m[l[i]].id : i \in 1 .. Len(l)} \ Announced(h)
  BY DEF Good
<1>5. k1 = {m[l[i]].id : i \in 1 .. Len(l)} \ Announced(h1)
  BY <1>3, <1>4
<1> QED
  BY <1>1, <1>2, <1>5 DEF Good

\* What the threads elsewhere hold, what is allocated, and what a thread holds that is
\* not in the list.
OthersUse(l, m, h, t) ==
  \A u \in Renderers : u # t /\ h[u].pc \in {"before", "after"} => Using(l, m, h[u])
Live(m) == {c \in Cells : m[c].live}
Ids(l, m) == {m[l[i]].id : i \in 1 .. Len(l)}
Loose(x) == IF x.pc \in {"link", "publish", "free"} THEN {x.at} ELSE {}

\* It is alone and changes the list or the memory.
LEMMA ChangedGood ==
  ASSUME NEW h, NEW l1, NEW f1, NEW m1, NEW h1, NEW k1, NEW t \in Renderers,
         Other(h, h1, t), Alone(h, t),
         Linked(l1, f1, m1), Placed(l1, f1, m1, h1[t]),
         OthersUse(l1, m1, h, t), Live(m1) = ToSet(l1) \cup Loose(h1[t]),
         h1[t].pc # "unlink",
         k1 = Ids(l1, m1)
  PROVE  Good(l1, f1, m1, h1, k1)
<1>1. Alone(h1, t)
  BY DEF Alone, Other
<1>2. /\ Unlisted(h1) = IF h1[t].pc \in {"link", "publish", "free"} THEN {h1[t].at} ELSE {}
      /\ Announced(h1) = {}
  BY <1>1, AloneHolds
<1>3. \A u \in Renderers : Placed(l1, f1, m1, h1[u])
  <2> SUFFICES ASSUME NEW u \in Renderers, u # t
               PROVE  Placed(l1, f1, m1, h1[u])
    OBVIOUS
  <2>1. h1[u] = h[u] /\ h[u].pc \notin Listing
    BY DEF Other, Alone
  <2>2. h[u].pc \in {"before", "after"} => Using(l1, m1, h[u])
    BY DEF OthersUse
  <2>3. Placed(l1, f1, m1, h[u])
    BY <2>1, <2>2 DEF Placed, Listing
  <2> QED
    BY <2>1, <2>3
<1> QED
  BY <1>2, <1>3 DEF Good, Live, Loose, Ids

\* A context is allocated for a drawable that is not in the list.
LEMMA CreatedGood ==
  ASSUME NEW l, NEW f, NEW m, NEW h, NEW k, NEW m1, NEW h1, NEW t \in Renderers, NEW c \in Cells,
         m \in [Cells -> Memory],
         Good(l, f, m, h, k), Other(h, h1, t), Alone(h, t),
         h[t].pc = "find", h[t].at = NoCtx, ~m[c].live,
         m1 = [m EXCEPT ![c] = [id |-> h[t].drawable, next |-> NoCtx, live |-> TRUE]],
         h1[t].pc = "link", h1[t].at = c, h1[t].drawable = h[t].drawable
  PROVE  Good(l, f, m1, h1, k)
<1>1. l \in Seq(Cells) /\ Len(l) \in Nat /\ Searching(l, m, h[t]) /\ Linked(l, f, m)
  BY ListedCells DEF Good, Linked, Placed
<1>2. \A j \in 1 .. Len(l) : m[l[j]].id # h[t].drawable
  BY <1>1, LinkTyped DEF Searching
<1>3. Unlisted(h) = {} /\ Announced(h) = {}
  BY AloneHolds
<1>4. {d \in Cells : m[d].live} = ToSet(l)
  BY <1>3 DEF Good
<1>5. c \notin ToSet(l)
  BY <1>4
<1>6. \A i \in 1 .. Len(l) : l[i] \in Cells /\ m1[l[i]] = m[l[i]]
  BY <1>1, <1>5, ListedCells
<1>7. m1[c].id = h[t].drawable /\ m1[c].live = TRUE
  OBVIOUS
<1>8. Linked(l, f, m1)
  BY <1>1, <1>6 DEF Linked
<1>9. Adding(l, m1, h1[t])
  BY <1>2, <1>5, <1>6, <1>7 DEF Adding
<1>10. Placed(l, f, m1, h1[t])
  BY <1>9 DEF Placed
<1>11. \A u \in Renderers : u # t /\ h[u].pc \in {"before", "after"} => Using(l, m1, h[u])
  <2> SUFFICES ASSUME NEW u \in Renderers, u # t, h[u].pc \in {"before", "after"}
               PROVE  Using(l, m1, h[u])
    OBVIOUS
  <2>1. Using(l, m, h[u])
    BY DEF Good, Placed
  <2> QED
    BY <1>6, <2>1 DEF Using
<1>12. {d \in Cells : m1[d].live} = ToSet(l) \cup {h1[t].at}
  <2>1. \A d \in Cells : d # c => m1[d] = m[d]
    OBVIOUS
  <2> QED
    BY <1>1, <1>4, <1>7, <2>1, ListedCells
<1>13. k = Ids(l, m1)
  <2>1. k = {m[l[i]].id : i \in 1 .. Len(l)}
    BY <1>3 DEF Good
  <2> QED
    BY <1>6, <2>1 DEF Ids
<1>14. OthersUse(l, m1, h, t)
  BY <1>11 DEF OthersUse
<1>15. Live(m1) = ToSet(l) \cup Loose(h1[t])
  BY <1>12 DEF Live, Loose
<1> QED
  BY <1>8, <1>10, <1>13, <1>14, <1>15, ChangedGood

\* It is linked to the first of the list.
LEMMA LinkedGood ==
  ASSUME NEW l, NEW f, NEW m, NEW h, NEW k, NEW m1, NEW h1, NEW t \in Renderers,
         m \in [Cells -> Memory], h[t].at \in Cells,
         Good(l, f, m, h, k), Other(h, h1, t), Alone(h, t),
         h[t].pc = "link", m1 = [m EXCEPT ![h[t].at].next = f],
         h1[t].pc = "publish", h1[t].at = h[t].at, h1[t].drawable = h[t].drawable
  PROVE  Good(l, f, m1, h1, k)
<1>1. l \in Seq(Cells) /\ Len(l) \in Nat /\ Adding(l, m, h[t]) /\ Linked(l, f, m)
  BY ListedCells DEF Good, Linked, Placed
<1>2. PICK c \in Cells : c = h[t].at
  OBVIOUS
<1>3. Unlisted(h) = {c} /\ Announced(h) = {}
  BY <1>2, AloneHolds
<1>4. {d \in Cells : m[d].live} = ToSet(l) \cup {c}
  BY <1>3 DEF Good
<1>5. c \notin ToSet(l)
  BY <1>1, <1>2 DEF Adding
<1>6. \A i \in 1 .. Len(l) : l[i] \in Cells /\ m1[l[i]] = m[l[i]]
  BY <1>1, <1>2, <1>5, ListedCells
<1>7. m1[c].id = m[c].id /\ m1[c].live = m[c].live /\ m1[c].next = f
  BY <1>2 DEF Memory
<1>8. Linked(l, f, m1)
  BY <1>1, <1>6 DEF Linked
<1>9. Adding(l, m1, h1[t])
  BY <1>1, <1>2, <1>5, <1>6, <1>7 DEF Adding
<1>10. Placed(l, f, m1, h1[t])
  BY <1>2, <1>7, <1>9 DEF Placed
<1>11. \A u \in Renderers : u # t /\ h[u].pc \in {"before", "after"} => Using(l, m1, h[u])
  <2> SUFFICES ASSUME NEW u \in Renderers, u # t, h[u].pc \in {"before", "after"}
               PROVE  Using(l, m1, h[u])
    OBVIOUS
  <2>1. Using(l, m, h[u])
    BY DEF Good, Placed
  <2> QED
    BY <1>6, <2>1 DEF Using
<1>12. {d \in Cells : m1[d].live} = ToSet(l) \cup {h1[t].at}
  <2>1. \A d \in Cells : d # c => m1[d] = m[d]
    BY <1>2
  <2>2. \A d \in Cells : m1[d].live = m[d].live
    BY <1>7, <2>1
  <2> QED
    BY <1>2, <1>4, <2>2
<1>13. k = Ids(l, m1)
  <2>1. k = {m[l[i]].id : i \in 1 .. Len(l)}
    BY <1>3 DEF Good
  <2> QED
    BY <1>6, <2>1 DEF Ids
<1>14. OthersUse(l, m1, h, t)
  BY <1>11 DEF OthersUse
<1>15. Live(m1) = ToSet(l) \cup Loose(h1[t])
  BY <1>12 DEF Live, Loose
<1> QED
  BY <1>8, <1>10, <1>13, <1>14, <1>15, ChangedGood

\* It becomes the first of the list.
LEMMA PublishedGood ==
  ASSUME NEW l, NEW f, NEW m, NEW h, NEW k, NEW h1, NEW t \in Renderers,
         h[t].at \in Cells,
         Good(l, f, m, h, k), Other(h, h1, t), Alone(h, t),
         h[t].pc = "publish",
         h1[t].pc = "create", h1[t].at = h[t].at, h1[t].drawable = h[t].drawable
  PROVE  /\ <<h[t].at>> \o l \in Seq(Cells)
         /\ Good(<<h[t].at>> \o l, h[t].at, m, h1, k \cup {h[t].drawable})
<1>1. l \in Seq(Cells) /\ Adding(l, m, h[t]) /\ m[h[t].at].next = f /\ Linked(l, f, m)
  BY DEF Good, Linked, Placed
<1>2. PICK c \in Cells : c = h[t].at
  OBVIOUS
<1>3. PICK n \in Nat : n = Len(l)
  BY <1>1, LenProperties
<1>4. PICK l1 : l1 = <<c>> \o l
  OBVIOUS
<1>5. Unlisted(h) = {c} /\ Announced(h) = {}
  BY <1>2, AloneHolds
<1>6. c \notin ToSet(l) /\ m[c].next = f /\ m[c].id = h[t].drawable
  BY <1>1, <1>2 DEF Adding
<1>7. /\ l1 \in Seq(Cells) /\ Different(l1) /\ ToSet(l1) = ToSet(l) \cup {c}
  BY <1>1, <1>4, <1>6, DifferentInFront DEF Linked
<1>8. Len(l1) = n + 1 /\ l1[1] = c /\ \A i \in 1 .. n : l1[i + 1] = l[i]
  BY <1>1, <1>3, <1>4, InFront
<1>9. \A i \in 1 .. (n + 1) : i = 1 \/ (i - 1 \in 1 .. n /\ l1[i] = l[i - 1])
  <2>1. \A i \in 1 .. (n + 1) : i = 1 \/ (i - 1 \in 1 .. n /\ (i - 1) + 1 = i)
    OBVIOUS
  <2> QED
    BY <1>8, <2>1
<1>10. LinkOf(l1, 0) = c /\ LinkOf(l1, 1) = f
  <2>1. LinkOf(l1, 0) = c
    BY <1>8 DEF LinkOf
  <2>2. LinkOf(l1, 1) = LinkOf(l, 0)
    BY <1>3, <1>8 DEF LinkOf
  <2> QED
    BY <1>1, <2>1, <2>2 DEF Linked
<1>11. \A i \in 1 .. (n + 1) : m[l1[i]].next = LinkOf(l1, i)
  <2> SUFFICES ASSUME NEW i \in 1 .. (n + 1)
               PROVE  m[l1[i]].next = LinkOf(l1, i)
    OBVIOUS
  <2>1. CASE i = 1
    BY <1>6, <1>8, <1>10, <2>1
  <2>2. CASE i # 1
    <3>1. i - 1 \in 1 .. n /\ l1[i] = l[i - 1]
      BY <1>9, <2>2
    <3>2. m[l[i - 1]].next = LinkOf(l, i - 1)
      BY <1>1, <1>3, <3>1 DEF Linked
    <3>3. LinkOf(l, i - 1) = LinkOf(l1, i)
      <4>1. CASE i = n + 1
        BY <1>3, <1>8, <4>1 DEF LinkOf
      <4>2. CASE i # n + 1
        <5>1. i \in 1 .. n /\ (i - 1) + 1 = i /\ i - 1 < n /\ i < n + 1
          BY <4>2
        <5>2. LinkOf(l, i - 1) = l[i]
          BY <1>3, <5>1 DEF LinkOf
        <5>3. LinkOf(l1, i) = l1[i + 1]
          BY <1>8, <5>1 DEF LinkOf
        <5> QED
          BY <1>8, <5>1, <5>2, <5>3
      <4> QED
        BY <4>1, <4>2
    <3> QED
      BY <3>1, <3>2, <3>3
  <2> QED
    BY <2>1, <2>2
<1>12. \A i \in 1 .. n : m[l[i]].id # h[t].drawable
  BY <1>1, <1>3 DEF Adding
<1>13. \A i, j \in 1 .. (n + 1) : m[l1[i]].id = m[l1[j]].id => i = j
  <2> SUFFICES ASSUME NEW i \in 1 .. (n + 1), NEW j \in 1 .. (n + 1), m[l1[i]].id = m[l1[j]].id
               PROVE  i = j
    OBVIOUS
  <2>1. CASE i = 1 \/ j = 1
    BY <1>6, <1>8, <1>9, <1>12, <2>1
  <2>2. CASE i # 1 /\ j # 1
    <3>1. /\ i - 1 \in 1 .. n /\ j - 1 \in 1 .. n
          /\ m[l[i - 1]].id = m[l[j - 1]].id
      BY <1>9, <2>2
    <3>2. i - 1 = j - 1
      BY <1>1, <1>3, <3>1 DEF Linked
    <3> QED
      BY <3>2
  <2> QED
    BY <2>1, <2>2
<1>14. Linked(l1, c, m)
  BY <1>7, <1>8, <1>10, <1>11, <1>13 DEF Linked
<1>15. Placed(l1, c, m, h1[t])
  <2>1. 1 \in 1 .. (n + 1)
    OBVIOUS
  <2>2. Using(l1, m, h1[t])
    BY <1>2, <1>6, <1>8, <2>1 DEF Using
  <2> QED
    BY <2>2 DEF Placed
<1>16. \A u \in Renderers : u # t /\ h[u].pc \in {"before", "after"} => Using(l1, m, h[u])
  <2> SUFFICES ASSUME NEW u \in Renderers, u # t, h[u].pc \in {"before", "after"}
               PROVE  Using(l1, m, h[u])
    OBVIOUS
  <2>1. PICK i \in 1 .. n : h[u].at = l[i] /\ m[l[i]].id = h[u].drawable
    BY <1>3 DEF Good, Placed, Using
  <2>2. i + 1 \in 1 .. (n + 1) /\ l1[i + 1] = l[i]
    BY <1>8
  <2> QED
    BY <1>8, <2>1, <2>2 DEF Using
<1>17. {d \in Cells : m[d].live} = ToSet(l1)
  BY <1>5, <1>7 DEF Good
<1>18. k \cup {h[t].drawable} = Ids(l1, m)
  <2>1. k = {m[l[i]].id : i \in 1 .. n}
    BY <1>3, <1>5 DEF Good
  <2>2. \A i \in 1 .. n : i + 1 \in 1 .. (n + 1) /\ m[l1[i + 1]].id = m[l[i]].id
    BY <1>8
  <2>3. \A i \in 1 .. (n + 1) : m[l1[i]].id = h[t].drawable \/ m[l1[i]].id \in k
    BY <1>6, <1>8, <1>9, <2>1
  <2>4. 1 \in 1 .. (n + 1) /\ m[l1[1]].id = h[t].drawable
    BY <1>6, <1>8
  <2> QED
    BY <1>8, <2>1, <2>2, <2>3, <2>4 DEF Ids
<1>19. OthersUse(l1, m, h, t)
  BY <1>16 DEF OthersUse
<1>20. Live(m) = ToSet(l1) \cup Loose(h1[t])
  BY <1>17 DEF Live, Loose
<1>21. Good(l1, c, m, h1, k \cup {h[t].drawable})
  BY <1>14, <1>15, <1>18, <1>19, <1>20, ChangedGood
<1> QED
  BY <1>2, <1>4, <1>7, <1>21

\* What was taken out of the list is freed.
LEMMA FreedGood ==
  ASSUME NEW l, NEW f, NEW m, NEW h, NEW k, NEW m1, NEW h1, NEW t \in Renderers,
         m \in [Cells -> Memory], h[t].at \in Cells,
         Good(l, f, m, h, k), Other(h, h1, t), Alone(h, t),
         h[t].pc = "free", m1 = [m EXCEPT ![h[t].at].live = FALSE], h1[t].pc = "idle"
  PROVE  Good(l, f, m1, h1, k)
<1>1. l \in Seq(Cells) /\ Len(l) \in Nat /\ Linked(l, f, m)
  BY ListedCells DEF Good, Linked
<1>2. PICK c \in Cells : c = h[t].at
  OBVIOUS
<1>3. Unlisted(h) = {c} /\ Announced(h) = {}
  BY <1>2, AloneHolds
<1>4. {d \in Cells : m[d].live} = ToSet(l) \cup {c}
  BY <1>3 DEF Good
<1>5. c \notin ToSet(l)
  BY <1>2 DEF Good, Placed
<1>6. \A i \in 1 .. Len(l) : l[i] \in Cells /\ m1[l[i]] = m[l[i]]
  BY <1>1, <1>2, <1>5, ListedCells
<1>7. m1[c].live = FALSE
  BY <1>2 DEF Memory
<1>8. Linked(l, f, m1)
  BY <1>1, <1>6 DEF Linked
<1>9. Placed(l, f, m1, h1[t])
  BY DEF Placed
<1>10. \A u \in Renderers : u # t /\ h[u].pc \in {"before", "after"} => Using(l, m1, h[u])
  <2> SUFFICES ASSUME NEW u \in Renderers, u # t, h[u].pc \in {"before", "after"}
               PROVE  Using(l, m1, h[u])
    OBVIOUS
  <2>1. Using(l, m, h[u])
    BY DEF Good, Placed
  <2> QED
    BY <1>6, <2>1 DEF Using
<1>11. {d \in Cells : m1[d].live} = ToSet(l)
  <2>1. \A d \in Cells : d # c => m1[d] = m[d]
    BY <1>2
  <2> QED
    BY <1>1, <1>4, <1>5, <1>7, <2>1, ListedCells
<1>12. k = Ids(l, m1)
  <2>1. k = {m[l[i]].id : i \in 1 .. Len(l)}
    BY <1>3 DEF Good
  <2> QED
    BY <1>6, <2>1 DEF Ids
<1>13. OthersUse(l, m1, h, t)
  BY <1>10 DEF OthersUse
<1>14. Live(m1) = ToSet(l) \cup Loose(h1[t])
  BY <1>11 DEF Live, Loose
<1> QED
  BY <1>8, <1>9, <1>12, <1>13, <1>14, ChangedGood

\* The context behind is linked to the one before.
LEMMA LinksWithout ==
  ASSUME NEW l \in Seq(Cells), NEW i \in 1 .. Len(l), NEW l1, l1 = RemoveAt(l, i),
         NEW j \in 0 .. (Len(l) - 1)
  PROVE  LinkOf(l1, j) = IF j < i - 1 THEN LinkOf(l, j) ELSE LinkOf(l, j + 1)
<1>1. PICK n \in Nat : n = Len(l)
  BY LenProperties
<1>2. /\ i \in 1 .. n /\ j \in 0 .. (n - 1) /\ Len(l1) = n - 1
      /\ \A e \in 1 .. (n - 1) : l1[e] = IF e < i THEN l[e] ELSE l[e + 1]
  BY <1>1, Shortened
<1>3. CASE j = n - 1
  BY <1>1, <1>2, <1>3 DEF LinkOf
<1>4. CASE j # n - 1
  <2>1. j + 1 \in 1 .. (n - 1) /\ j < n - 1 /\ j < n /\ j + 1 < n
    BY <1>2, <1>4
  <2>2. LinkOf(l1, j) = IF j + 1 < i THEN l[j + 1] ELSE l[(j + 1) + 1]
    BY <1>2, <2>1 DEF LinkOf
  <2>3. LinkOf(l, j) = l[j + 1] /\ LinkOf(l, j + 1) = l[(j + 1) + 1]
    BY <1>1, <2>1 DEF LinkOf
  <2> QED
    BY <1>2, <2>2, <2>3
<1> QED
  BY <1>3, <1>4

\* What is written to first or to the context before.
Cut(f, m, x, f1, m1) ==
  IF x.prev = NoCtx
  THEN f1 = m[x.at].next /\ m1 = m
  ELSE m1 = [m EXCEPT ![x.prev].next = m[x.at].next] /\ f1 = f

\* It is taken out of the list.
LEMMA UnlinkedGood ==
  ASSUME NEW l, NEW f, NEW m, NEW h, NEW k, NEW f1, NEW m1, NEW h1, NEW t \in Renderers,
         m \in [Cells -> Memory],
         Good(l, f, m, h, k), Other(h, h1, t), Alone(h, t), Apart(h),
         h[t].pc = "unlink", Cut(f, m, h[t], f1, m1), h1[t].pc = "free", h1[t].at = h[t].at
  PROVE  \E l1 \in Seq(Cells) : Good(l1, f1, m1, h1, k)
<1>1. l \in Seq(Cells) /\ Linked(l, f, m) /\ Removing(l, m, h[t])
  BY DEF Good, Linked, Placed
<1>2. PICK n \in Nat : n = Len(l)
  BY <1>1, LenProperties
<1>3. PICK i \in 1 .. n : /\ h[t].prev = PrevOf(l, i - 1) /\ h[t].at = l[i]
                          /\ m[l[i]].id = h[t].drawable
  BY <1>1, <1>2 DEF Removing
<1>4. PICK l1 : l1 = RemoveAt(l, i)
  OBVIOUS
<1>5. /\ l1 \in Seq(Cells) /\ Len(l1) = n - 1
      /\ \A j \in 1 .. (n - 1) : l1[j] = IF j < i THEN l[j] ELSE l[j + 1]
  BY <1>1, <1>2, <1>4, Shortened
<1>6. \A j \in 0 .. (n - 1) :
        LinkOf(l1, j) = IF j < i - 1 THEN LinkOf(l, j) ELSE LinkOf(l, j + 1)
  BY <1>1, <1>2, <1>4, LinksWithout
<1>7. \A j \in 1 .. n : l[j] \in Cells /\ l[j] # NoCtx /\ m[l[j]].next = LinkOf(l, j)
  BY <1>1, <1>2, ListedCells, NoCell DEF Linked
<1>8. \A j, e \in 1 .. n : l[j] = l[e] => j = e
  BY <1>1, <1>2 DEF Linked, Different
<1>9. /\ i = 1 => f1 = LinkOf(l, 1) /\ m1 = m
      /\ i # 1 => i - 1 \in 1 .. n /\ f1 = f /\ m1 = [m EXCEPT ![l[i - 1]].next = LinkOf(l, i)]
  <2>1. i = 1 => PrevOf(l, i - 1) = NoCtx
    BY DEF PrevOf
  <2>2. i # 1 => i - 1 \in 1 .. n /\ PrevOf(l, i - 1) = l[i - 1]
    BY DEF PrevOf
  <2>3. m[h[t].at].next = LinkOf(l, i)
    BY <1>3, <1>7
  <2> QED
    BY <1>3, <1>7, <2>1, <2>2, <2>3 DEF Cut
<1>10. \A c \in Cells : m1[c].id = m[c].id /\ m1[c].live = m[c].live
  BY <1>7, <1>9 DEF Memory
<1>11. \A j \in 1 .. n : m1[l[j]].next = IF j = i - 1 THEN LinkOf(l, i) ELSE LinkOf(l, j)
  <2> SUFFICES ASSUME NEW j \in 1 .. n
               PROVE  m1[l[j]].next = IF j = i - 1 THEN LinkOf(l, i) ELSE LinkOf(l, j)
    OBVIOUS
  <2>1. CASE i = 1
    BY <1>7, <1>9, <2>1
  <2>2. CASE i # 1 /\ j = i - 1
    <3>1. m1[l[j]].next = LinkOf(l, i)
      BY <1>7, <1>9, <2>2 DEF Memory
    <3> QED
      BY <2>2, <3>1
  <2>3. CASE i # 1 /\ j # i - 1
    <3>1. l[j] # l[i - 1]
      BY <1>8, <1>9, <2>3
    <3>2. m1[l[j]] = m[l[j]]
      BY <1>7, <1>9, <2>3, <3>1
    <3> QED
      BY <1>7, <2>3, <3>2
  <2> QED
    BY <2>1, <2>2, <2>3
<1>12. \A j \in 1 .. (n - 1) : \E e \in 1 .. n : e # i /\ l1[j] = l[e] /\ e = IF j < i THEN j ELSE j + 1
  <2> SUFFICES ASSUME NEW j \in 1 .. (n - 1)
               PROVE  \E e \in 1 .. n : e # i /\ l1[j] = l[e] /\ e = IF j < i THEN j ELSE j + 1
    OBVIOUS
  <2>1. CASE j < i
    BY <1>5, <2>1
  <2>2. CASE j >= i
    <3>1. j + 1 \in 1 .. n /\ j + 1 # i /\ l1[j] = l[j + 1] /\ ~(j < i)
      BY <1>5, <2>2
    <3> QED
      BY <3>1
  <2> QED
    BY <2>1, <2>2
<1>13. \A e \in 1 .. n : e # i => \E j \in 1 .. (n - 1) : l1[j] = l[e]
  <2> SUFFICES ASSUME NEW e \in 1 .. n, e # i
               PROVE  \E j \in 1 .. (n - 1) : l1[j] = l[e]
    OBVIOUS
  <2>1. CASE e < i
    BY <1>5, <2>1
  <2>2. CASE e > i
    <3>1. e - 1 \in 1 .. (n - 1) /\ ~(e - 1 < i) /\ (e - 1) + 1 = e
      BY <2>2
    <3> QED
      BY <1>5, <3>1
  <2> QED
    BY <2>1, <2>2
<1>14. ToSet(l1) = ToSet(l) \ {l[i]}
  <2>1. ToSet(l) = {l[j] : j \in 1 .. n} /\ ToSet(l1) = {l1[j] : j \in 1 .. (n - 1)}
    BY <1>1, <1>2, <1>5, ListedCells
  <2> QED
    BY <1>8, <1>12, <1>13, <2>1
<1>15. \A j, e \in 1 .. (n - 1) :
         (l1[j] = l1[e] \/ m1[l1[j]].id = m1[l1[e]].id) => j = e
  <2> SUFFICES ASSUME NEW j \in 1 .. (n - 1), NEW e \in 1 .. (n - 1),
                      l1[j] = l1[e] \/ m1[l1[j]].id = m1[l1[e]].id
               PROVE  j = e
    OBVIOUS
  <2>1. PICK a \in 1 .. n : l1[j] = l[a] /\ a = IF j < i THEN j ELSE j + 1
    BY <1>12
  <2>2. PICK b \in 1 .. n : l1[e] = l[b] /\ b = IF e < i THEN e ELSE e + 1
    BY <1>12
  <2>3. m[l[a]].id = m[l[b]].id
    BY <1>7, <1>10, <2>1, <2>2
  <2>4. a = b
    BY <1>1, <1>2, <2>3 DEF Linked
  <2> QED
    BY <2>1, <2>2, <2>4
<1>16. Linked(l1, f1, m1)
  <2>1. f1 = LinkOf(l1, 0)
    <3>1. CASE i = 1
      BY <1>6, <1>9, <3>1
    <3>2. CASE i # 1
      <4>1. 0 \in 0 .. (n - 1) /\ 0 < i - 1
        BY <3>2
      <4> QED
        BY <1>1, <1>6, <1>9, <3>2, <4>1 DEF Linked
    <3> QED
      BY <3>1, <3>2
  <2>2. ASSUME NEW j \in 1 .. (n - 1)
        PROVE  m1[l1[j]].next = LinkOf(l1, j)
    <3>1. PICK e \in 1 .. n : l1[j] = l[e] /\ e = IF j < i THEN j ELSE j + 1
      BY <1>12
    <3>2. LinkOf(l1, j) = IF j < i - 1 THEN LinkOf(l, j) ELSE LinkOf(l, j + 1)
      BY <1>6
    <3>3. m1[l1[j]].next = IF e = i - 1 THEN LinkOf(l, i) ELSE LinkOf(l, e)
      BY <1>11, <3>1
    <3>4. CASE j < i - 1
      BY <3>1, <3>2, <3>3, <3>4
    <3>5. CASE j = i - 1
      <4>1. e = i - 1 /\ j + 1 = i /\ ~(j < i - 1)
        BY <3>1, <3>5
      <4> QED
        BY <3>2, <3>3, <4>1
    <3>6. CASE j >= i
      <4>1. e = j + 1 /\ e # i - 1 /\ ~(j < i - 1)
        BY <3>1, <3>6
      <4> QED
        BY <3>2, <3>3, <4>1
    <3> QED
      BY <3>4, <3>5, <3>6
  <2> QED
    BY <1>5, <1>15, <2>1, <2>2 DEF Linked, Different
<1>17. Placed(l1, f1, m1, h1[t])
  BY <1>3, <1>14 DEF Placed
<1>18. \A u \in Renderers : u # t /\ h[u].pc \in {"before", "after"} => Using(l1, m1, h[u])
  <2> SUFFICES ASSUME NEW u \in Renderers, u # t, h[u].pc \in {"before", "after"}
               PROVE  Using(l1, m1, h[u])
    OBVIOUS
  <2>1. PICK e \in 1 .. n : h[u].at = l[e] /\ m[l[e]].id = h[u].drawable
    BY <1>2 DEF Good, Placed, Using
  <2>2. h[u].drawable # h[t].drawable
    BY <1>1 DEF Apart, Removing
  <2>3. e # i
    BY <1>3, <2>1, <2>2
  <2>4. PICK j \in 1 .. (n - 1) : l1[j] = l[e]
    BY <1>13, <2>3
  <2>5. m1[l1[j]].id = h[u].drawable /\ h[u].at = l1[j]
    BY <1>7, <1>10, <2>1, <2>4
  <2> QED
    BY <1>5, <2>5 DEF Using
<1>19. Unlisted(h) = {} /\ Announced(h) = {h[t].drawable}
  BY AloneHolds
<1>20. {c \in Cells : m1[c].live} = ToSet(l1) \cup {h1[t].at}
  <2>1. {c \in Cells : m[c].live} = ToSet(l)
    BY <1>19 DEF Good
  <2>2. l[i] \in ToSet(l)
    BY <1>1, <1>2, ListedCells
  <2> QED
    BY <1>3, <1>10, <1>14, <2>1, <2>2
<1>21. k = Ids(l1, m1)
  <2>1. k = {m[l[j]].id : j \in 1 .. n} \ {h[t].drawable}
    BY <1>2, <1>19 DEF Good
  <2>2. \A e \in 1 .. n : e # i => m[l[e]].id # h[t].drawable
    BY <1>1, <1>2, <1>3 DEF Linked
  <2>3. \A e \in 1 .. n : m1[l[e]].id = m[l[e]].id
    BY <1>7, <1>10
  <2>4. \A j \in 1 .. (n - 1) : \E e \in 1 .. n : e # i /\ m1[l1[j]].id = m[l[e]].id
    BY <1>12, <2>3
  <2>5. \A e \in 1 .. n : e # i => \E j \in 1 .. (n - 1) : m1[l1[j]].id = m[l[e]].id
    BY <1>13, <2>3
  <2>6. k = {m1[l1[j]].id : j \in 1 .. (n - 1)}
    BY <1>3, <2>1, <2>2, <2>4, <2>5
  <2> QED
    BY <1>5, <2>6 DEF Ids
<1>22. OthersUse(l1, m1, h, t)
  BY <1>18 DEF OthersUse
<1>23. Live(m1) = ToSet(l1) \cup Loose(h1[t])
  BY <1>20 DEF Live, Loose
<1>24. Good(l1, f1, m1, h1, k)
  BY <1>16, <1>17, <1>21, <1>22, <1>23, ChangedGood
<1> QED
  BY <1>5, <1>24

\* Where a thread is and what it holds.
Thread == [pc : Listing \cup {"idle", "before", "after"}, call : {"none", "render", "destroy"},
           drawable : Drawables \cup {NoCtx}, at : Cells \cup {NoCtx}, prev : Cells \cup {NoCtx},
           fired : 0 .. Len(Listeners)]

ThreadTyped(x) ==
  /\ x \in Thread
  /\ x.pc # "idle" => x.drawable \in Drawables
  /\ x.pc \notin {"idle", "find"} => x.at \in Cells

\* The callback that is called next.
LEMMA NextFired ==
  ASSUME NEW t \in Renderers, Remaining(t) # {}
  PROVE  Least(Remaining(t)) \in Remaining(t) /\ Least(Remaining(t)) \in 1 .. Len(Listeners)
<1>1. DOMAIN Listeners = 1 .. Len(Listeners) /\ Len(Listeners) \in Nat
  BY ListenersDiffer, LenProperties
<1>2. PICK R : R = Remaining(t)
  OBVIOUS
<1>3. R \in SUBSET Nat /\ R # {} /\ R \subseteq 1 .. Len(Listeners)
  BY <1>1, <1>2 DEF Remaining
<1>4. \E i \in R : \A j \in R : i <= j
  BY <1>3, SmallestOf
<1>5. Least(R) \in R
  BY <1>4 DEF Least
<1> QED
  BY <1>2, <1>3, <1>5

\* A step changes one thread, and these are the threads it may leave behind.
LEMMA ThreadSteps ==
  ASSUME GlTyped, NEW t \in Renderers,
         GlStep(t) \/ \E call \in {"render", "destroy"}, d \in Drawables : Call(t, call, d)
  PROVE  \E x : /\ th' = [th EXCEPT ![t] = x] /\ ThreadTyped(x)
                /\ ThreadTyped(th[t])
<1>1. /\ th \in [Renderers -> Thread] /\ \A u \in Renderers : ThreadTyped(th[u])
      /\ first \in Cells \cup {NoCtx} /\ ctx \in [Cells -> Memory]
  BY DEF GlTyped, GlTypeOK, ThreadTyped, Thread, Memory
<1>2. PICK y \in Thread : y = th[t]
  BY <1>1
<1>3. ThreadTyped(y)
  BY <1>1, <1>2
<1>4. ThreadTyped(Idle)
  <2>1. 0 \in 0 .. Len(Listeners)
    BY ListenersDiffer, LenProperties
  <2> QED
    BY <2>1 DEF ThreadTyped, Thread, Idle
<1> DEFINE Goes(x) == th' = [th EXCEPT ![t] = x] /\ ThreadTyped(x)
<1> SUFFICES \E x : Goes(x)
  BY <1>1
<1>5. CASE \E call \in {"render", "destroy"}, d \in Drawables : Call(t, call, d)
  <2>1. PICK call \in {"render", "destroy"}, d \in Drawables : Call(t, call, d)
    BY <1>5
  <2>2. PICK x : x = [Idle EXCEPT !.pc = "find", !.call = call, !.drawable = d, !.at = first]
    OBVIOUS
  <2>3. ThreadTyped(x)
    BY <1>1, <1>4, <2>2 DEF ThreadTyped, Thread, Idle, Listing
  <2> QED
    BY <2>1, <2>2, <2>3 DEF Call
<1>6. ASSUME NEW pc \in Listing \cup {"idle", "before", "after"}, th' = [th EXCEPT ![t].pc = pc],
             y.pc # "idle", pc \notin {"idle", "find"} => y.at \in Cells
      PROVE  \E x : Goes(x)
  <2>1. PICK x : x = [y EXCEPT !.pc = pc]
    OBVIOUS
  <2>2. th' = [th EXCEPT ![t] = x]
    BY <1>1, <1>2, <1>6, <2>1
  <2>3. ThreadTyped(x)
    BY <1>3, <1>6, <2>1 DEF ThreadTyped, Thread
  <2> QED
    BY <2>2, <2>3
<1>7. CASE th' = th
  <2>1. th' = [th EXCEPT ![t] = y]
    BY <1>1, <1>2, <1>7
  <2> QED
    BY <1>3, <2>1
<1>8. CASE th' = [th EXCEPT ![t] = Idle]
  BY <1>4, <1>8
<1>9. CASE Find(t)
  <2>1. y.pc = "find" /\ y.at \in Cells
    BY <1>2, <1>9 DEF Find, At, Thread
  <2>2. CASE ~Readable(At(t))
    BY <1>7, <1>9, <2>2 DEF Find
  <2>3. CASE Readable(At(t)) /\ ctx[At(t)].id = th[t].drawable
    <3>1. PICK pc \in {"announce", "before"} : th' = [th EXCEPT ![t].pc = pc]
      BY <1>9, <2>3 DEF Find, Go
    <3> QED
      BY <1>6, <2>1, <3>1 DEF Listing
  <2>4. CASE Readable(At(t)) /\ ctx[At(t)].id # th[t].drawable
    <3>1. PICK x : x = [y EXCEPT !.prev = y.at, !.at = ctx[y.at].next]
      OBVIOUS
    <3>2. th' = [th EXCEPT ![t] = x]
      BY <1>1, <1>2, <1>9, <2>4, <3>1 DEF Find, At
    <3>3. ThreadTyped(x)
      BY <1>1, <1>3, <2>1, <3>1 DEF ThreadTyped, Thread, Memory
    <3> QED
      BY <3>2, <3>3
  <2> QED
    BY <2>2, <2>3, <2>4
<1>10. CASE CreateContext(t)
  <2>1. PICK c \in Cells : th' = [th EXCEPT ![t].pc = "link", ![t].at = c]
    BY <1>10 DEF CreateContext
  <2>2. PICK x : x = [y EXCEPT !.pc = "link", !.at = c]
    OBVIOUS
  <2>3. th' = [th EXCEPT ![t] = x]
    BY <1>1, <1>2, <2>1, <2>2
  <2>4. y.pc = "find"
    BY <1>2, <1>10 DEF CreateContext
  <2>5. ThreadTyped(x)
    BY <1>3, <2>2, <2>4 DEF ThreadTyped, Thread, Listing
  <2> QED
    BY <2>3, <2>5
<1>11. CASE FireListener(t) \/ FireGlcStart(t)
  <2>1. PICK i \in 1 .. Len(Listeners) : th' = [th EXCEPT ![t].fired = i]
    BY <1>11, NextFired DEF FireListener, FireGlcStart
  <2>2. PICK x : x = [y EXCEPT !.fired = i]
    OBVIOUS
  <2>3. th' = [th EXCEPT ![t] = x]
    BY <1>1, <1>2, <2>1, <2>2
  <2>4. ThreadTyped(x)
    BY <1>3, <2>2 DEF ThreadTyped, Thread
  <2> QED
    BY <2>3, <2>4
<1>12. CASE LinkContext(t) \/ PublishContext(t) \/ FireEnd(t) \/ Announce(t)
  <2>1. PICK pc \in {"publish", "create", "before", "unlink"} : th' = [th EXCEPT ![t].pc = pc]
    BY <1>12 DEF LinkContext, PublishContext, FireEnd, Announce, Go
  <2>2. y.pc \notin {"idle", "find"}
    BY <1>2, <1>12 DEF LinkContext, PublishContext, FireEnd, Announce
  <2> QED
    BY <1>3, <1>6, <2>1, <2>2 DEF Listing, ThreadTyped
<1>13. CASE Before(t) \/ Unlink(t)
  <2>1. \/ th' = th \/ \E pc \in {"after", "free"} : th' = [th EXCEPT ![t].pc = pc]
    BY <1>13 DEF Before, Unlink, Go
  <2>2. y.pc \notin {"idle", "find"}
    BY <1>2, <1>13 DEF Before, Unlink
  <2> QED
    BY <1>3, <1>6, <1>7, <2>1, <2>2 DEF Listing, ThreadTyped
<1>14. CASE DestroyUnknown(t) \/ AfterSwap(t) \/ FreeContext(t)
  BY <1>7, <1>8, <1>14 DEF DestroyUnknown, AfterSwap, FreeContext
<1> QED
  BY <1>5, <1>9, <1>10, <1>11, <1>12, <1>13, <1>14 DEF GlStep

LEMMA GlTypeStep ==
  ASSUME GlTyped, GlNext
  PROVE  GlTyped'
<1>0. PICK t \in Renderers :
        GlStep(t) \/ \E call \in {"render", "destroy"}, d \in Drawables : Call(t, call, d)
  BY DEF GlNext
<1>1. /\ th \in [Renderers -> Thread] /\ \A u \in Renderers : ThreadTyped(th[u])
      /\ first \in Cells \cup {NoCtx} /\ ctx \in [Cells -> Memory] /\ known \subseteq Drawables
      /\ starts \in Nat /\ raced \in BOOLEAN /\ ended \in Endings
  BY DEF GlTyped, GlTypeOK, ThreadTyped, Thread, Memory
<1>2. PICK x : th' = [th EXCEPT ![t] = x] /\ ThreadTyped(x)
  BY <1>0, ThreadSteps
<1>3. th' \in [Renderers -> Thread] /\ \A u \in Renderers : ThreadTyped(th'[u])
  <2>1. x \in Thread
    BY <1>2 DEF ThreadTyped
  <2>2. \A u \in Renderers : th'[u] = IF u = t THEN x ELSE th[u]
    BY <1>1, <1>2
  <2> QED
    BY <1>1, <1>2, <2>1, <2>2
<1>4. raced' \in BOOLEAN
  BY Zenon DEF GlNext
<1> DEFINE Goes == /\ first' \in Cells \cup {NoCtx} /\ ctx' \in [Cells -> Memory]
                   /\ known' \subseteq Drawables /\ starts' \in Nat /\ ended' \in Endings
<1>5. Goes
  <2>1. CASE CreateContext(t)
    <3>1. PICK c \in Cells :
            ctx' = [ctx EXCEPT ![c] = [id |-> th[t].drawable, next |-> NoCtx, live |-> TRUE]]
      BY <2>1 DEF CreateContext
    <3>2. th[t].drawable \in Drawables
      BY <1>1, <2>1 DEF CreateContext, ThreadTyped
    <3>3. [id |-> th[t].drawable, next |-> NoCtx, live |-> TRUE] \in Memory
      BY <3>2 DEF Memory
    <3> QED
      BY <1>1, <2>1, <3>1, <3>3 DEF CreateContext
  <2>2. CASE LinkContext(t)
    <3>1. At(t) \in Cells
      BY <1>1, <2>2 DEF LinkContext, ThreadTyped, At
    <3>2. [ctx[At(t)] EXCEPT !.next = first] \in Memory
      BY <1>1, <3>1 DEF Memory
    <3>3. ctx' = [ctx EXCEPT ![At(t)] = [ctx[At(t)] EXCEPT !.next = first]]
      BY <2>2 DEF LinkContext
    <3> QED
      BY <1>1, <2>2, <3>2, <3>3 DEF LinkContext
  <2>3. CASE PublishContext(t)
    BY <1>1, <2>3 DEF PublishContext, ThreadTyped, At
  <2>4. CASE Unlink(t)
    <3>1. At(t) \in Cells
      BY <1>1, <2>4 DEF Unlink, ThreadTyped, At
    <3>2. NextOf(At(t)) \in Cells \cup {NoCtx}
      BY <1>1, <3>1 DEF NextOf, Memory
    <3>3. ended' \in Endings
      BY <1>1, <2>4 DEF Unlink, UsesFreed, Endings
    <3>4. CASE th[t].prev = NoCtx
      BY <1>1, <2>4, <3>2, <3>3, <3>4 DEF Unlink
    <3>5. CASE th[t].prev # NoCtx
      <4>1. th[t].prev \in Cells
        BY <1>1, <3>5 DEF ThreadTyped, Thread
      <4>2. [ctx[th[t].prev] EXCEPT !.next = NextOf(At(t))] \in Memory
        BY <1>1, <3>2, <4>1 DEF Memory
      <4>3. ctx' = [ctx EXCEPT ![th[t].prev] = [ctx[th[t].prev] EXCEPT !.next = NextOf(At(t))]]
        BY <2>4, <3>5 DEF Unlink
      <4> QED
        BY <1>1, <2>4, <3>3, <3>5, <4>2, <4>3 DEF Unlink
    <3> QED
      BY <3>4, <3>5
  <2>5. CASE FreeContext(t)
    <3>1. At(t) \in Cells
      BY <1>1, <2>5 DEF FreeContext, ThreadTyped, At
    <3>2. [ctx[At(t)] EXCEPT !.live = FALSE] \in Memory
      BY <1>1, <3>1 DEF Memory
    <3>3. ctx' = [ctx EXCEPT ![At(t)] = [ctx[At(t)] EXCEPT !.live = FALSE]]
      BY <2>5 DEF FreeContext
    <3> QED
      BY <1>1, <2>5, <3>2, <3>3 DEF FreeContext
  <2>6. CASE Announce(t)
    BY <1>1, <2>6 DEF Announce
  <2>8. CASE FireGlcStart(t)
    <3>1. UNCHANGED <<first, ctx, known>> /\ starts' = starts + 1 /\ ended' \in Endings
      BY <2>8 DEF FireGlcStart, Endings
    <3> QED
      BY <1>1, <3>1
  <2>7. CASE \/ \E call \in {"render", "destroy"}, d \in Drawables : Call(t, call, d)
             \/ Find(t) \/ DestroyUnknown(t) \/ FireListener(t) \/ FireEnd(t)
             \/ Before(t) \/ AfterSwap(t)
    <3>1. UNCHANGED <<first, ctx, known, starts>>
      BY <2>7 DEF Call, Find, DestroyUnknown, FireListener, FireEnd, Before, AfterSwap
    <3>2. ended' = ended \/ ended' = "freed context"
      BY <2>7 DEF Call, Find, DestroyUnknown, FireListener, FireEnd, Before, AfterSwap, UsesFreed
    <3> QED
      BY <1>1, <3>1, <3>2 DEF Endings
  <2> QED
    BY <1>0, <2>1, <2>2, <2>3, <2>4, <2>5, <2>6, <2>7, <2>8 DEF GlStep
<1>6. GlTypeOK'
  BY <1>3, <1>4, <1>5 DEF GlTypeOK, Thread, Memory
<1> QED
  BY <1>3, <1>6 DEF GlTyped, ThreadTyped

\* glc_start is taken out of the list by the one call there is.
LEMMA GlStartsStep ==
  ASSUME StartsOnce, GlNext
  PROVE  StartsOnce'
<1>0. PICK t \in Renderers :
        GlStep(t) \/ \E call \in {"render", "destroy"}, d \in Drawables : Call(t, call, d)
  BY DEF GlNext
<1>1. CASE FireGlcStart(t)
  <2>1. /\ Remaining(t) # {} /\ Listeners[Least(Remaining(t))] = GlcStart
        /\ ctx_create' = RemoveFirst(ctx_create, GlcStart) /\ starts' = starts + 1
    BY <1>1 DEF FireGlcStart, Unregistered
  <2>2. GlcStart \in ToSet(ctx_create)
    BY <2>1, NextFired DEF Remaining, Registered, ToSet
  <2>3. /\ ctx_create' \in Seq(ToSet(Listeners)) /\ Different(ctx_create')
        /\ ToSet(ctx_create') = ToSet(ctx_create) \ {GlcStart}
    BY <2>1, DifferentRemoved DEF StartsOnce
  <2>4. starts' = 1
    BY <2>1, <2>2 DEF StartsOnce
  <2> QED
    BY <2>3, <2>4 DEF StartsOnce, Different
<1>2. CASE ~FireGlcStart(t)
  <2>1. UNCHANGED <<ctx_create, starts>>
    BY <1>0, <1>2 DEF GlStep, Call, Find, DestroyUnknown, CreateContext, LinkContext, PublishContext,
       FireListener, FireEnd, Before, AfterSwap, Announce, Unlink, FreeContext
  <2> QED
    BY <2>1 DEF StartsOnce, Different
<1> QED
  BY <1>1, <1>2

LEMMA GlInitially ==
  ASSUME GlInit
  PROVE  GlInv
<1>1. /\ first = NoCtx /\ ctx = [c \in Cells |-> [id |-> NoCtx, next |-> NoCtx, live |-> FALSE]]
      /\ ctx_create = Listeners /\ th = [u \in Renderers |-> Idle]
      /\ known = {} /\ starts = 0 /\ raced = FALSE /\ ended = "not"
  BY DEF GlInit
<1>2. ThreadTyped(Idle) /\ Idle.pc = "idle" /\ Idle.call = "none"
  <2>1. 0 \in 0 .. Len(Listeners)
    BY ListenersDiffer, LenProperties
  <2> QED
    BY <2>1 DEF ThreadTyped, Thread, Idle
<1>3. GlTyped
  <2>1. [id |-> NoCtx, next |-> NoCtx, live |-> FALSE] \in Memory
    BY DEF Memory
  <2>2. ctx \in [Cells -> Memory]
    BY <1>1, <2>1
  <2>3. Idle \in Thread
    BY <1>2 DEF ThreadTyped
  <2>4. th \in [Renderers -> Thread] /\ \A u \in Renderers : th[u].pc = "idle"
    BY <1>1, <1>2, <2>3
  <2>5. GlTypeOK
    BY <1>1, <2>2, <2>4 DEF GlTypeOK, Thread, Memory, Endings
  <2> QED
    BY <2>4, <2>5 DEF GlTyped
<1>4. StartsOnce
  <2>1. DOMAIN Listeners = 1 .. Len(Listeners)
    BY ListenersDiffer, LenProperties
  <2> QED
    BY <1>1, <2>1, ListenersDiffer DEF StartsOnce, Different
<1>5. \A u \in Renderers : th[u].pc = "idle" /\ th[u].call = "none"
  BY <1>1, <1>2
<1>6. Apart(th)
  BY <1>5 DEF Apart, Listing
<1>7. Good(<< >>, first, ctx, th, known)
  <2>1. << >> \in Seq(Cells) /\ Len(<< >>) = 0 /\ 1 .. Len(<< >>) = {}
    OBVIOUS
  <2>2. ToSet(<< >>) = {}
    BY DEF ToSet
  <2>3. Unlisted(th) = {} /\ Announced(th) = {}
    BY <1>5 DEF Unlisted, Announced
  <2>4. \A u \in Renderers : Placed(<< >>, first, ctx, th[u])
    BY <1>5 DEF Placed
  <2>5. {c \in Cells : ctx[c].live} = {}
    BY <1>1
  <2>6. Linked(<< >>, first, ctx)
    BY <1>1, <2>1 DEF Linked, Different, LinkOf
  <2>7. known = {ctx[<< >>[i]].id : i \in 1 .. Len(<< >>)} \ Announced(th)
    BY <1>1, <2>1
  <2> QED
    BY <2>2, <2>3, <2>4, <2>5, <2>6, <2>7 DEF Good
<1>8. << >> \in Seq(Cells)
  OBVIOUS
<1> QED
  BY <1>1, <1>3, <1>4, <1>6, <1>7, <1>8 DEF GlInv

\* What a thread reads is in the list.
LEMMA ReadableListed ==
  ASSUME NEW l, NEW f, NEW m, NEW h, NEW k, Good(l, f, m, h, k), NEW i \in 1 .. Len(l)
  PROVE  l[i] \in Cells /\ m[l[i]].live
<1>1. l \in Seq(Cells)
  BY DEF Good, Linked
<1>2. l[i] \in Cells /\ l[i] \in ToSet(l)
  BY <1>1, ListedCells
<1> QED
  BY <1>2 DEF Good

\* As long as no calls meet, nothing that is freed is used and the list stays linked.
LEMMA GlApartStep ==
  ASSUME GlInv, GlTyped', GlNext, ~raced'
  PROVE  /\ Apart(th)' /\ ended' # "freed context"
         /\ \E l1 \in Seq(Cells) : Good(l1, first', ctx', th', known')
<1>1. PICK t \in Renderers :
        GlStep(t) \/ \E call \in {"render", "destroy"}, d \in Drawables : Call(t, call, d)
  BY DEF GlNext
<1>2. ~raced /\ ended = "not" /\ ~\E u, v \in Renderers : u # v /\ Meeting(u, v)'
  BY Zenon DEF GlNext
<1>3. PICK l \in Seq(Cells) : Good(l, first, ctx, th, known)
  BY <1>2 DEF GlInv
<1>4. Apart(th) /\ GlTyped
  BY <1>2 DEF GlInv
<1>5. PICK f, m, h, k : f = first /\ m = ctx /\ h = th /\ k = known
  OBVIOUS
<1>6. PICK f1, m1, h1, k1 : f1 = first' /\ m1 = ctx' /\ h1 = th' /\ k1 = known'
  OBVIOUS
<1>7. Apart(h1)
  BY <1>2, <1>6 DEF Apart, Meeting
<1>8. /\ h \in [Renderers -> Thread] /\ \A u \in Renderers : ThreadTyped(h[u])
      /\ f \in Cells \cup {NoCtx} /\ m \in [Cells -> Memory]
  BY <1>4, <1>5 DEF GlTyped, GlTypeOK, ThreadTyped, Thread, Memory
<1>9. Good(l, f, m, h, k) /\ Apart(h)
  BY <1>3, <1>4, <1>5
<1>10. PICK x : h1 = [h EXCEPT ![t] = x] /\ ThreadTyped(x)
  BY <1>1, <1>4, <1>5, <1>6, ThreadSteps
<1>11. Other(h, h1, t) /\ h1[t] = x
  BY <1>8, <1>10 DEF Other
<1>12. h1[t].pc \in Listing => Alone(h, t)
  BY <1>7, <1>11, ApartAlone DEF Alone, Other
<1>13. h[t].pc \in Listing => Alone(h, t)
  BY <1>9, ApartAlone
<1>14. Linked(l, f, m) /\ Placed(l, f, m, h[t]) /\ Len(l) \in Nat
  BY <1>9, ListedCells DEF Good
<1> DEFINE Goes == ended' # "freed context" /\ \E l1 \in Seq(Cells) : Good(l1, f1, m1, h1, k1)
<1> SUFFICES Goes
  BY <1>6, <1>7
<1>15. ASSUME m1 = m, f1 = f, Placed(l, f, m, h1[t]), ended' # "freed context",
              h[t].pc \notin {"link", "publish", "free", "unlink"},
              h1[t].pc \notin {"link", "publish", "free"},
              k1 = IF h1[t].pc = "unlink" THEN k \ {h1[t].drawable} ELSE k
       PROVE  Goes
  <2>1. Good(l, f, m, h1, k1)
    BY <1>9, <1>11, <1>15, MovedGood
  <2> QED
    BY <1>15, <2>1
<1>16. CASE \E call \in {"render", "destroy"}, d \in Drawables : Call(t, call, d)
  <2>1. PICK call \in {"render", "destroy"}, d \in Drawables : Call(t, call, d)
    BY <1>16
  <2>2. /\ h[t].pc = "idle" /\ f1 = f /\ m1 = m /\ k1 = k /\ ended' = ended
        /\ h1[t] = [Idle EXCEPT !.pc = "find", !.call = call, !.drawable = d, !.at = f]
    BY <1>5, <1>6, <1>8, <2>1 DEF Call
  <2>3. h1[t].pc = "find" /\ h1[t].prev = NoCtx /\ h1[t].at = f
    BY <2>2 DEF Idle
  <2>4. Searching(l, m, h1[t])
    <3>1. 0 \in 0 .. Len(l) /\ PrevOf(l, 0) = NoCtx /\ LinkOf(l, 0) = f
      BY <1>14 DEF PrevOf, Linked
    <3>2. \A j \in 1 .. 0 : m[l[j]].id # h1[t].drawable
      OBVIOUS
    <3> QED
      BY <2>3, <3>1, <3>2 DEF Searching
  <2>5. Placed(l, f, m, h1[t])
    BY <2>3, <2>4 DEF Placed
  <2> QED
    BY <1>2, <1>15, <2>2, <2>3, <2>5
<1>17. CASE Find(t)
  <2>1. /\ h[t].pc = "find" /\ h[t].at # NoCtx /\ f1 = f /\ m1 = m /\ k1 = k
    BY <1>5, <1>6, <1>17 DEF Find, At
  <2>2. PICK i \in 0 .. Len(l) :
          /\ h[t].prev = PrevOf(l, i) /\ h[t].at = LinkOf(l, i)
          /\ \A j \in 1 .. i : m[l[j]].id # h[t].drawable
    BY <1>14, <2>1 DEF Placed, Searching
  <2>3. i + 1 \in 1 .. Len(l) /\ h[t].at = l[i + 1]
    BY <2>1, <2>2, LinkTyped
  <2>4. m[h[t].at].live /\ h[t].at \in Cells
    BY <1>9, <2>3, ReadableListed
  <2>5. Readable(At(t))
    BY <1>5, <2>4 DEF Readable, At
  <2>6. ended' = ended
    BY <1>17, <2>5 DEF Find
  <2>7. CASE m[h[t].at].id = h[t].drawable
    <3>1. h1 = [h EXCEPT ![t].pc = IF h[t].call = "destroy" THEN "announce" ELSE "before"]
      BY <1>5, <1>6, <1>17, <2>5, <2>7 DEF Find, Go, At
    <3>2. /\ h1[t].pc = IF h[t].call = "destroy" THEN "announce" ELSE "before"
          /\ h1[t].at = h[t].at /\ h1[t].prev = h[t].prev /\ h1[t].call = h[t].call
          /\ h1[t].drawable = h[t].drawable
      BY <1>8, <3>1 DEF Thread
    <3>3. h1[t].pc = "before" => Using(l, m, h1[t])
      BY <2>3, <2>7, <3>2 DEF Using
    <3>4. h1[t].pc = "announce" => Removing(l, m, h1[t])
      <4>1. (i + 1) - 1 = i
        OBVIOUS
      <4> QED
        BY <2>2, <2>3, <2>7, <3>2, <4>1 DEF Removing
    <3>5. Placed(l, f, m, h1[t])
      BY <3>2, <3>3, <3>4 DEF Placed
    <3> QED
      BY <1>2, <1>15, <2>1, <2>6, <3>2, <3>5
  <2>8. CASE m[h[t].at].id # h[t].drawable
    <3>1. h1 = [h EXCEPT ![t].prev = h[t].at, ![t].at = m[h[t].at].next]
      BY <1>5, <1>6, <1>17, <2>5, <2>8 DEF Find, At
    <3>2. /\ h1[t].pc = "find" /\ h1[t].at = m[h[t].at].next /\ h1[t].prev = h[t].at
          /\ h1[t].drawable = h[t].drawable
      BY <1>8, <2>1, <3>1 DEF Thread
    <3>3. i + 1 \in 0 .. Len(l) /\ PrevOf(l, i + 1) = l[i + 1] /\ m[l[i + 1]].next = LinkOf(l, i + 1)
      BY <1>14, <2>3 DEF PrevOf, Linked
    <3>4. \A j \in 1 .. (i + 1) : m[l[j]].id # h1[t].drawable
      <4>1. \A j \in 1 .. (i + 1) : j \in 1 .. i \/ j = i + 1
        OBVIOUS
      <4> QED
        BY <2>2, <2>3, <2>8, <3>2, <4>1
    <3>5. Searching(l, m, h1[t])
      BY <2>3, <3>2, <3>3, <3>4 DEF Searching
    <3>6. Placed(l, f, m, h1[t])
      BY <3>2, <3>5 DEF Placed
    <3> QED
      BY <1>2, <1>15, <2>1, <2>6, <3>2, <3>6
  <2> QED
    BY <2>7, <2>8
<1>18. CASE DestroyUnknown(t)
  <2>1. /\ h[t].pc = "find" /\ f1 = f /\ m1 = m /\ k1 = k /\ ended' = ended /\ h1[t] = Idle
    BY <1>5, <1>6, <1>8, <1>18 DEF DestroyUnknown
  <2>2. h1[t].pc = "idle" /\ Placed(l, f, m, h1[t])
    BY <2>1 DEF Idle, Placed
  <2> QED
    BY <1>2, <1>15, <2>1, <2>2
<1>19. CASE CreateContext(t)
  <2>1. PICK c \in Cells :
          /\ ~m[c].live
          /\ m1 = [m EXCEPT ![c] = [id |-> h[t].drawable, next |-> NoCtx, live |-> TRUE]]
          /\ h1 = [h EXCEPT ![t].pc = "link", ![t].at = c]
    BY <1>5, <1>6, <1>19 DEF CreateContext
  <2>2. h[t].pc = "find" /\ h[t].at = NoCtx /\ f1 = f /\ k1 = k /\ ended' = ended
    BY <1>5, <1>6, <1>19 DEF CreateContext, At
  <2>3. h1[t].pc = "link" /\ h1[t].at = c /\ h1[t].drawable = h[t].drawable
    BY <1>8, <2>1 DEF Thread
  <2>4. Alone(h, t)
    BY <1>13, <2>2 DEF Listing
  <2>5. Good(l, f, m1, h1, k)
    BY <1>8, <1>9, <1>11, <2>1, <2>2, <2>3, <2>4, CreatedGood
  <2> QED
    BY <1>2, <2>2, <2>5
<1>20. CASE LinkContext(t)
  <2>1. /\ h[t].pc = "link" /\ f1 = f /\ k1 = k /\ ended' = ended
        /\ m1 = [m EXCEPT ![h[t].at].next = f] /\ h1 = [h EXCEPT ![t].pc = "publish"]
    BY <1>5, <1>6, <1>20 DEF LinkContext, At, Go
  <2>2. h1[t].pc = "publish" /\ h1[t].at = h[t].at /\ h1[t].drawable = h[t].drawable
    BY <1>8, <2>1 DEF Thread
  <2>3. Alone(h, t) /\ h[t].at \in Cells
    BY <1>8, <1>13, <2>1 DEF Listing, ThreadTyped
  <2>4. Good(l, f, m1, h1, k)
    BY <1>8, <1>9, <1>11, <2>1, <2>2, <2>3, LinkedGood
  <2> QED
    BY <1>2, <2>1, <2>4
<1>21. CASE PublishContext(t)
  <2>1. /\ h[t].pc = "publish" /\ f1 = h[t].at /\ m1 = m /\ k1 = k \cup {h[t].drawable}
        /\ ended' = ended /\ h1 = [h EXCEPT ![t].pc = "create"]
    BY <1>5, <1>6, <1>21 DEF PublishContext, At, Go
  <2>2. h1[t].pc = "create" /\ h1[t].at = h[t].at /\ h1[t].drawable = h[t].drawable
    BY <1>8, <2>1 DEF Thread
  <2>3. Alone(h, t) /\ h[t].at \in Cells
    BY <1>8, <1>13, <2>1 DEF Listing, ThreadTyped
  <2>4. /\ <<h[t].at>> \o l \in Seq(Cells)
        /\ Good(<<h[t].at>> \o l, h[t].at, m, h1, k \cup {h[t].drawable})
    BY <1>9, <1>11, <2>1, <2>2, <2>3, PublishedGood
  <2> QED
    BY <1>2, <2>1, <2>4
<1>22. CASE FireListener(t) \/ FireGlcStart(t)
  <2>1. PICK i : h1 = [h EXCEPT ![t].fired = i]
    BY <1>5, <1>6, <1>22 DEF FireListener, FireGlcStart
  <2>2. /\ h[t].pc = "create" /\ f1 = f /\ m1 = m /\ k1 = k
        /\ ended' \in {ended, "not", "exit", "freed callback"}
    BY <1>5, <1>6, <1>22 DEF FireListener, FireGlcStart
  <2>3. h1[t].pc = "create" /\ h1[t].at = h[t].at /\ h1[t].drawable = h[t].drawable
    BY <1>8, <2>1, <2>2 DEF Thread
  <2>4. Placed(l, f, m, h1[t])
    BY <1>14, <2>2, <2>3 DEF Placed, Using
  <2> QED
    BY <1>2, <1>15, <2>2, <2>3, <2>4
<1>23. CASE FireEnd(t)
  <2>1. /\ h[t].pc = "create" /\ f1 = f /\ m1 = m /\ k1 = k /\ ended' = ended
        /\ h1 = [h EXCEPT ![t].pc = "before"]
    BY <1>5, <1>6, <1>23 DEF FireEnd, Go
  <2>2. h1[t].pc = "before" /\ h1[t].at = h[t].at /\ h1[t].drawable = h[t].drawable
    BY <1>8, <2>1 DEF Thread
  <2>3. Placed(l, f, m, h1[t])
    BY <1>14, <2>1, <2>2 DEF Placed, Using
  <2> QED
    BY <1>2, <1>15, <2>1, <2>2, <2>3
<1>24. CASE Before(t) \/ AfterSwap(t)
  <2>1. h[t].pc \in {"before", "after"} /\ f1 = f /\ m1 = m /\ k1 = k
    BY <1>5, <1>6, <1>24 DEF Before, AfterSwap
  <2>2. PICK i \in 1 .. Len(l) : h[t].at = l[i] /\ m[l[i]].id = h[t].drawable
    BY <1>14, <2>1 DEF Placed, Using
  <2>3. Readable(At(t))
    BY <1>5, <1>9, <2>2, ReadableListed DEF Readable, At
  <2>4. ended' = ended /\ (h1 = [h EXCEPT ![t].pc = "after"] \/ h1 = [h EXCEPT ![t] = Idle])
    BY <1>5, <1>6, <1>24, <2>3 DEF Before, AfterSwap, Go
  <2>5. \/ h1[t].pc = "after" /\ h1[t].at = h[t].at /\ h1[t].drawable = h[t].drawable
        \/ h1[t].pc = "idle"
    BY <1>8, <2>4 DEF Thread, Idle
  <2>6. Placed(l, f, m, h1[t])
    BY <2>2, <2>5 DEF Placed, Using
  <2> QED
    BY <1>2, <1>15, <2>1, <2>4, <2>5, <2>6
<1>25. CASE Announce(t)
  <2>1. /\ h[t].pc = "announce" /\ f1 = f /\ m1 = m /\ k1 = k \ {h[t].drawable}
        /\ ended' = ended /\ h1 = [h EXCEPT ![t].pc = "unlink"]
    BY <1>5, <1>6, <1>25 DEF Announce, Go
  <2>2. /\ h1[t].pc = "unlink" /\ h1[t].at = h[t].at /\ h1[t].prev = h[t].prev
        /\ h1[t].drawable = h[t].drawable /\ h1[t].call = h[t].call
    BY <1>8, <2>1 DEF Thread
  <2>3. Placed(l, f, m, h1[t])
    BY <1>14, <2>1, <2>2 DEF Placed, Removing
  <2> QED
    BY <1>2, <1>15, <2>1, <2>2, <2>3
<1>26. CASE Unlink(t)
  <2>1. h[t].pc = "unlink" /\ k1 = k /\ Cut(f, m, h[t], f1, m1)
    BY <1>5, <1>6, <1>26 DEF Unlink, At, NextOf, Cut
  <2>2. PICK i \in 1 .. Len(l) : h[t].prev = PrevOf(l, i - 1) /\ h[t].at = l[i]
    BY <1>14, <2>1 DEF Placed, Removing
  <2>3. m[h[t].at].live
    BY <1>9, <2>2, ReadableListed
  <2>4. h[t].prev # NoCtx => m[h[t].prev].live
    <3>1. i - 1 \in 0 .. Len(l) /\ (i - 1 = 0 => PrevOf(l, i - 1) = NoCtx)
      BY DEF PrevOf
    <3>2. i - 1 # 0 => i - 1 \in 1 .. Len(l) /\ PrevOf(l, i - 1) = l[i - 1]
      BY <3>1 DEF PrevOf
    <3> QED
      BY <1>9, <2>2, <3>1, <3>2, ReadableListed
  <2>5. Readable(At(t)) /\ (th[t].prev # NoCtx => Readable(th[t].prev))
    BY <1>5, <2>3, <2>4 DEF Readable, At
  <2>6. ended' = ended /\ h1 = [h EXCEPT ![t].pc = "free"]
    BY <1>5, <1>6, <1>26, <2>5 DEF Unlink, Go
  <2>7. h1[t].pc = "free" /\ h1[t].at = h[t].at
    BY <1>8, <2>6 DEF Thread
  <2>8. Alone(h, t)
    BY <1>13, <2>1 DEF Listing
  <2>9. \E l1 \in Seq(Cells) : Good(l1, f1, m1, h1, k)
    BY <1>8, <1>9, <1>11, <2>1, <2>7, <2>8, UnlinkedGood
  <2> QED
    BY <1>2, <2>1, <2>6, <2>9
<1>27. CASE FreeContext(t)
  <2>1. /\ h[t].pc = "free" /\ f1 = f /\ k1 = k /\ ended' = ended
        /\ m1 = [m EXCEPT ![h[t].at].live = FALSE] /\ h1 = [h EXCEPT ![t] = Idle]
    BY <1>5, <1>6, <1>27 DEF FreeContext, At
  <2>2. h1[t].pc = "idle"
    BY <1>8, <2>1 DEF Idle
  <2>3. Alone(h, t) /\ h[t].at \in Cells
    BY <1>8, <1>13, <2>1 DEF Listing, ThreadTyped
  <2>4. Good(l, f, m1, h1, k)
    BY <1>8, <1>9, <1>11, <2>1, <2>2, <2>3, FreedGood
  <2> QED
    BY <1>2, <2>1, <2>4
<1> HIDE DEF Goes
<1> QED
  BY <1>1, <1>16, <1>17, <1>18, <1>19, <1>20, <1>21, <1>22, <1>23, <1>24, <1>25, <1>26, <1>27
     DEF GlStep

LEMMA GlStepKept ==
  ASSUME GlInv, GlNext
  PROVE  GlInv'
<1>1. GlTyped' /\ StartsOnce'
  BY GlTypeStep, GlStartsStep DEF GlInv
<1> QED
  BY <1>1, GlApartStep DEF GlInv

LEMMA GlStays ==
  ASSUME GlInv, UNCHANGED glVars
  PROVE  GlInv'
BY DEF GlInv, glVars, GlTyped, GlTypeOK, StartsOnce, Different

LEMMA GlSafe ==
  ASSUME GlInv
  PROVE  ApartIsSafe
<1>1. starts <= 1
  <2>1. starts \in {0, 1}
    BY DEF GlInv, StartsOnce
  <2> QED
    BY <2>1
<1>2. ~raced => ended # "freed context"
  BY DEF GlInv
<1> QED
  BY <1>1, <1>2 DEF ApartIsSafe

\* The recursion that defines Nth has a solution.
Solvable(N, f0, m) ==
  \E f : f = [i \in 0 .. N |-> IF i = 0 THEN f0
                               ELSE IF f[i - 1] = NoCtx THEN NoCtx ELSE m[f[i - 1]].next]

LEMMA NthIs ==
  ASSUME NEW N \in Nat, NEW f0 \in Cells \cup {NoCtx}, NEW m,
         \A c \in Cells : m[c].next \in Cells \cup {NoCtx}
  PROVE  Solvable(N, f0, m)
<1>1. PICK H : H = Cells \cup {NoCtx}
  OBVIOUS
<1>2. PICK g : g = [c \in H |-> IF c = NoCtx THEN NoCtx ELSE m[c].next]
  OBVIOUS
<1>3. g \in [H -> H]
  BY <1>1, <1>2
<1>4. PICK a \in H : a = f0
  BY <1>1
<1>5. \E f : f = [k \in 0 .. N |-> IF k = 0 THEN a ELSE g[f[k - 1]]]
  BY <1>3, IterationTo
<1>6. PICK f : f = [k \in 0 .. N |-> IF k = 0 THEN a ELSE g[f[k - 1]]]
  BY <1>5
<1> DEFINE T == {i \in 0 .. N : f[i] \in H}
<1>7. 0 \in T
  BY <1>6
<1>8. \A i \in 1 .. N : i - 1 \in T => i \in T
  <2> SUFFICES ASSUME NEW i \in 1 .. N, f[i - 1] \in H
               PROVE  f[i] \in H
    OBVIOUS
  <2>1. f[i] = g[f[i - 1]]
    BY <1>6
  <2> QED
    BY <1>3, <2>1
<1>9. \A i \in 0 .. N : f[i] \in H
  <2> HIDE DEF T
  <2>1. \A i \in 0 .. N : i \in T
    BY <1>7, <1>8, InductionTo
  <2> QED
    BY <2>1 DEF T
<1>10. f = [i \in 0 .. N |-> IF i = 0 THEN f0
                             ELSE IF f[i - 1] = NoCtx THEN NoCtx ELSE m[f[i - 1]].next]
  <2>1. \A i \in 0 .. N : i # 0 => i - 1 \in 0 .. N
    OBVIOUS
  <2>2. \A i \in 0 .. N :
          i # 0 => g[f[i - 1]] = IF f[i - 1] = NoCtx THEN NoCtx ELSE m[f[i - 1]].next
    BY <1>2, <1>9, <2>1
  <2> QED
    BY <1>4, <1>6, <2>2
<1> QED
  BY <1>10 DEF Solvable

\* The n-th context is the n-th of the sequence.
LEMMA NthLinked ==
  ASSUME GlTyped, NEW l \in Seq(Cells), Linked(l, first, ctx)
  PROVE  Listed = ToSet(l)
<1>1. PICK n \in Nat : n = Len(l)
  BY LenProperties
<1>2. PICK N \in Nat : N = Cardinality(Cells)
  BY NoCell, FS_CardinalityType
<1>3. n <= N
  <2>1. \A i \in 1 .. n : l[i] \in Cells
    BY <1>1, ListedCells
  <2>2. PICK g : g = [i \in 1 .. n |-> l[i]]
    OBVIOUS
  <2>3. g \in Injection(1 .. n, Cells)
    BY <1>1, <2>1, <2>2 DEF Injection, IsInjective, Linked, Different
  <2>4. Cardinality(1 .. n) <= Cardinality(Cells)
    BY <2>3, NoCell, FS_Injection
  <2>5. Cardinality(1 .. n) = n
    <3>1. 1 \in Int /\ n \in Int
      BY <1>1
    <3>2. Cardinality(1 .. n) = IF 1 > n THEN 0 ELSE n - 1 + 1
      BY <3>1, FS_Interval
    <3> QED
      BY <1>1, <3>2
  <2> QED
    BY <1>2, <2>4, <2>5
<1>4. first \in Cells \cup {NoCtx} /\ ctx \in [Cells -> Memory]
  BY DEF GlTyped, GlTypeOK, Memory
<1>9. \E f : f = [i \in 0 .. N |-> IF i = 0 THEN first
                                  ELSE IF f[i - 1] = NoCtx THEN NoCtx ELSE ctx[f[i - 1]].next]
  <2>1. PICK f0, m : f0 = first /\ m = ctx
    OBVIOUS
  <2>2. f0 \in Cells \cup {NoCtx} /\ \A c \in Cells : m[c].next \in Cells \cup {NoCtx}
    BY <1>4, <2>1 DEF Memory
  <2>3. Solvable(N, f0, m)
    BY <2>2, NthIs
  <2> QED
    BY <2>1, <2>3 DEF Solvable
<1>10. Nth = [i \in 0 .. N |-> IF i = 0 THEN first
                               ELSE IF Nth[i - 1] = NoCtx THEN NoCtx ELSE ctx[Nth[i - 1]].next]
  BY <1>2, <1>9 DEF Nth
<1>11. PICK e : e = Nth
  OBVIOUS
<1>12. \A i \in 0 .. N : e[i] = IF i <= n THEN LinkOf(l, i) ELSE NoCtx
  <2> DEFINE T == {i \in 0 .. N : e[i] = IF i <= n THEN LinkOf(l, i) ELSE NoCtx}
  <2>0. \A i \in 0 .. N : e[i] = IF i = 0 THEN first
                                 ELSE IF e[i - 1] = NoCtx THEN NoCtx ELSE ctx[e[i - 1]].next
    BY <1>10, <1>11
  <2>1. 0 \in T
    <3>1. 0 \in 0 .. N /\ 0 <= n
      BY <1>1, <1>2
    <3> QED
      BY <2>0, <3>1 DEF Linked
  <2>2. \A i \in 1 .. N : i - 1 \in T => i \in T
    <3> SUFFICES ASSUME NEW i \in 1 .. N, e[i - 1] = IF i - 1 <= n THEN LinkOf(l, i - 1) ELSE NoCtx
                 PROVE  e[i] = IF i <= n THEN LinkOf(l, i) ELSE NoCtx
      OBVIOUS
    <3>1. e[i] = IF e[i - 1] = NoCtx THEN NoCtx ELSE ctx[e[i - 1]].next
      BY <1>2, <2>0
    <3>2. CASE i <= n
      <4>1. i \in 1 .. n /\ i - 1 \in 0 .. Len(l) /\ i - 1 < Len(l) /\ (i - 1) + 1 = i /\ i - 1 <= n
        BY <1>1, <1>2, <3>2
      <4>2. LinkOf(l, i - 1) = l[i] /\ l[i] # NoCtx
        BY <1>1, <4>1, ListedCells, NoCell DEF LinkOf
      <4>3. ctx[l[i]].next = LinkOf(l, i)
        BY <1>1, <4>1 DEF Linked
      <4> QED
        BY <3>1, <3>2, <4>1, <4>2, <4>3
    <3>3. CASE i > n
      <4>1. LinkOf(l, n) = NoCtx
        BY <1>1 DEF LinkOf
      <4>2. e[i - 1] = NoCtx
        <5>1. i - 1 <= n => i - 1 = n
          BY <1>1, <1>2, <3>3
        <5> QED
          BY <4>1, <5>1
      <4> QED
        BY <1>1, <1>2, <3>1, <3>3, <4>2
    <3> QED
      BY <1>1, <1>2, <3>2, <3>3
  <2> HIDE DEF T
  <2>3. \A i \in 0 .. N : i \in T
    BY <1>2, <2>1, <2>2, InductionTo
  <2> QED
    BY <2>3 DEF T
<1>13. Listed = {e[i] : i \in 0 .. N} \ {NoCtx}
  BY <1>2, <1>11 DEF Listed
<1>14. \A i \in 0 .. N : e[i] # NoCtx => \E j \in 1 .. n : e[i] = l[j]
  <2> SUFFICES ASSUME NEW i \in 0 .. N, e[i] # NoCtx
               PROVE  \E j \in 1 .. n : e[i] = l[j]
    OBVIOUS
  <2>1. i < n /\ e[i] = l[i + 1]
    BY <1>1, <1>2, <1>12 DEF LinkOf
  <2>2. i + 1 \in 1 .. n
    BY <1>1, <1>2, <2>1
  <2> QED
    BY <2>1, <2>2
<1>15. \A j \in 1 .. n : l[j] # NoCtx /\ \E i \in 0 .. N : e[i] = l[j]
  <2> SUFFICES ASSUME NEW j \in 1 .. n
               PROVE  l[j] # NoCtx /\ \E i \in 0 .. N : e[i] = l[j]
    OBVIOUS
  <2>1. j - 1 \in 0 .. N /\ j - 1 < n /\ j - 1 <= n /\ (j - 1) + 1 = j
    BY <1>1, <1>2, <1>3
  <2>2. e[j - 1] = l[j]
    BY <1>1, <1>12, <2>1 DEF LinkOf
  <2> QED
    BY <1>1, <2>1, <2>2, ListedCells, NoCell
<1>16. ToSet(l) = {l[j] : j \in 1 .. n}
  BY <1>1, ListedCells
<1> QED
  BY <1>13, <1>14, <1>15, <1>16

LEMMA GlExact ==
  ASSUME GlInv
  PROVE  ContextsExact
<1> SUFFICES ASSUME ~raced, \A t \in Renderers : th[t].pc \notin Listing
             PROVE  /\ Listed = {c \in Cells : ctx[c].live}
                    /\ {ctx[c].id : c \in Listed} = known
                    /\ Cardinality(Listed) = Cardinality(known)
  BY DEF ContextsExact
<1>1. PICK l \in Seq(Cells) : Good(l, first, ctx, th, known)
  BY DEF GlInv
<1>2. Unlisted(th) = {} /\ Announced(th) = {}
  BY DEF Unlisted, Announced, Listing
<1>3. Linked(l, first, ctx) /\ GlTyped
  BY <1>1 DEF Good, GlInv
<1>4. PICK L : L = Listed
  OBVIOUS
<1>5. L = ToSet(l) /\ ToSet(l) = {l[i] : i \in 1 .. Len(l)} /\ \A i \in 1 .. Len(l) : l[i] \in Cells
  BY <1>3, <1>4, NthLinked, ListedCells
<1>6. L = {c \in Cells : ctx[c].live}
  BY <1>1, <1>2, <1>5 DEF Good
<1>7. known = {ctx[l[i]].id : i \in 1 .. Len(l)}
  BY <1>1, <1>2 DEF Good
<1>8. {ctx[c].id : c \in L} = known
  BY <1>5, <1>7
<1>9. Cardinality(L) = Cardinality(known)
  <2>1. PICK g : g = [c \in L |-> ctx[c].id]
    OBVIOUS
  <2>2. g \in [L -> known] /\ \A d \in known : \E c \in L : g[c] = d
    BY <1>8, <2>1
  <2>3. \A b, c \in L : g[b] = g[c] => b = c
    <3> SUFFICES ASSUME NEW b \in L, NEW c \in L, g[b] = g[c]
                 PROVE  b = c
      OBVIOUS
    <3>1. PICK i \in 1 .. Len(l), j \in 1 .. Len(l) : b = l[i] /\ c = l[j]
      BY <1>5
    <3>2. ctx[l[i]].id = ctx[l[j]].id
      BY <2>1, <3>1
    <3> QED
      BY <1>3, <3>1, <3>2 DEF Linked
  <2>4. g \in Bijection(L, known)
    BY <2>2, <2>3 DEF Bijection, Injection, Surjection, IsInjective
  <2>5. ExistsBijection(L, known)
    BY <2>4 DEF ExistsBijection
  <2>6. IsFiniteSet(L)
    BY <1>6, NoCell, FS_Subset
  <2> QED
    BY <2>5, <2>6, FS_Bijection
<1> QED
  BY <1>4, <1>6, <1>8, <1>9

-----------------------------------------------------------------------------
\* The search for an object.

\* What is known after the first i objects: s is the state of the search, and M the
\* indices of the objects that match the pattern.
Searched(map, pattern, M, i, s) ==
  \/ /\ \A j \in M : j > i
     /\ s = [match |-> pattern, at |-> 0]
  \/ \E m \in M : /\ m <= i /\ \A j \in M : m <= j
                  /\ s.at \in 1 .. i /\ map[s.at].name = map[m].name
                  /\ s.match = IF pattern = Null THEN {} ELSE {map[m].name}

\* The objects that match.
Matching(map, pattern) == {i \in DOMAIN map : Matches(pattern, map[i].name)}

\* One turn of the search.
LEMMA TurnSearched ==
  ASSUME NEW n \in Nat, NEW map, DOMAIN map = 1 .. n, NEW pattern, NEW i \in 1 .. n,
         Null # {}, \A j \in 1 .. n : {map[j].name} # Null,
         NEW s, NEW M, M = Matching(map, pattern), Searched(map, pattern, M, i - 1, s)
  PROVE  Searched(map, pattern, M, i, FindCallback(s, i, map[i].name))
<1>1. M \subseteq 1 .. n /\ \A j \in 1 .. n : j \in M <=> Matches(pattern, map[j].name)
  BY DEF Matching
<1>2. CASE (\A j \in M : j > i - 1) /\ s = [match |-> pattern, at |-> 0]
  <2>1. s.match = pattern
    BY <1>2
  <2>2. CASE i \in M
    <3>1. FindCallback(s, i, map[i].name) = [match |-> Narrowed(pattern, map[i].name), at |-> i]
      BY <1>1, <2>1, <2>2 DEF FindCallback
    <3>2. \A j \in M : i <= j
      BY <1>1, <1>2
    <3>3. PICK u : u = [match |-> Narrowed(pattern, map[i].name), at |-> i]
      OBVIOUS
    <3>4. /\ u.at \in 1 .. i /\ map[u.at].name = map[i].name
          /\ u.match = IF pattern = Null THEN {} ELSE {map[i].name}
      BY <3>3 DEF Narrowed
    <3>5. i <= i
      OBVIOUS
    <3>6. Searched(map, pattern, M, i, u)
      BY <2>2, <3>2, <3>4, <3>5 DEF Searched
    <3> QED
      BY <3>1, <3>3, <3>6
  <2>3. CASE i \notin M
    <3>1. FindCallback(s, i, map[i].name) = s
      BY <1>1, <2>1, <2>3 DEF FindCallback
    <3>2. \A j \in M : j > i
      BY <1>1, <1>2, <2>3
    <3> QED
      BY <1>2, <3>1, <3>2 DEF Searched
  <2> QED
    BY <2>2, <2>3
<1>3. CASE \E m \in M : /\ m <= i - 1 /\ \A j \in M : m <= j
                        /\ s.at \in 1 .. (i - 1) /\ map[s.at].name = map[m].name
                        /\ s.match = IF pattern = Null THEN {} ELSE {map[m].name}
  <2>1. PICK m \in M : /\ m <= i - 1 /\ \A j \in M : m <= j
                       /\ s.at \in 1 .. (i - 1) /\ map[s.at].name = map[m].name
                       /\ s.match = IF pattern = Null THEN {} ELSE {map[m].name}
    BY <1>3
  <2>2. m \in 1 .. n /\ {map[m].name} # Null /\ m <= i
    BY <1>1, <2>1
  <2>3. s.match # Null
    BY <2>1, <2>2
  <2>4. CASE Matches(s.match, map[i].name)
    <3>1. pattern # Null /\ map[i].name = map[m].name
      BY <2>1, <2>3, <2>4 DEF Matches
    <3>2. FindCallback(s, i, map[i].name) = [match |-> {map[i].name}, at |-> i]
      BY <2>3, <2>4 DEF FindCallback, Narrowed
    <3>3. PICK u : u = [match |-> {map[i].name}, at |-> i]
      OBVIOUS
    <3>4. /\ u.at \in 1 .. i /\ map[u.at].name = map[m].name
          /\ u.match = IF pattern = Null THEN {} ELSE {map[m].name}
      BY <3>1, <3>3
    <3>5. Searched(map, pattern, M, i, u)
      BY <2>1, <2>2, <3>4 DEF Searched
    <3> QED
      BY <3>2, <3>3, <3>5
  <2>5. CASE ~Matches(s.match, map[i].name)
    <3>1. FindCallback(s, i, map[i].name) = s
      BY <2>5 DEF FindCallback
    <3>2. s.at \in 1 .. i
      BY <2>1
    <3>3. Searched(map, pattern, M, i, s)
      BY <2>1, <2>2, <3>2 DEF Searched
    <3> QED
      BY <3>1, <3>3
  <2> QED
    BY <2>4, <2>5
<1> QED
  BY <1>2, <1>3 DEF Searched

\* The recursion that defines FindObj has a solution.
SolvesFind(after, map, n, pattern) ==
  after = [i \in 0 .. n |-> IF i = 0 THEN [match |-> pattern, at |-> 0]
                            ELSE FindCallback(after[i - 1], i, map[i].name)]

LEMMA FindSolvable ==
  ASSUME NEW n \in Nat, NEW map, NEW pattern
  PROVE  \E after : SolvesFind(after, map, n, pattern)
<1> DEFINE P == {pattern, {}} \cup {{map[i].name} : i \in 1 .. n}
<1>1. PICK S : S = [match : P, at : 0 .. n]
  OBVIOUS
<1>0. pattern \in P /\ 0 \in 0 .. n
  OBVIOUS
<1>2. PICK a \in S : a = [match |-> pattern, at |-> 0]
  <2> HIDE DEF P
  <2>1. [match |-> pattern, at |-> 0] \in S
    BY <1>0, <1>1
  <2> QED
    BY <2>1
<1>3. PICK step : step = [i \in 1 .. n |-> [s \in S |-> FindCallback(s, i, map[i].name)]]
  OBVIOUS
<1>4. \A i \in 1 .. n : \A s \in S : step[i][s] \in S
  <2> SUFFICES ASSUME NEW i \in 1 .. n, NEW s \in S
               PROVE  step[i][s] \in S
    OBVIOUS
  <2>1. step[i][s] = FindCallback(s, i, map[i].name)
    BY <1>3
  <2>2. Narrowed(s.match, map[i].name) \in P
    BY DEF Narrowed
  <2>3. FindCallback(s, i, map[i].name) \in S
    <3> HIDE DEF P
    <3> QED
      BY <1>1, <2>2 DEF FindCallback
  <2> QED
    BY <2>1, <2>3
<1>5. PICK f : Follows(f, n, a, step)
  BY <1>4, RecursionTo
<1>6. f = [k \in 0 .. n |-> IF k = 0 THEN a ELSE step[k][f[k - 1]]]
  BY <1>5 DEF Follows
<1>7. \A i \in 0 .. n : f[i] \in S
  <2> DEFINE T == {i \in 0 .. n : f[i] \in S}
  <2>1. 0 \in T
    BY <1>6
  <2>2. \A i \in 1 .. n : i - 1 \in T => i \in T
    BY <1>4, <1>6
  <2>3. \A i \in 0 .. n : i \in T
    <3> HIDE DEF T
    <3> QED
      BY <2>1, <2>2, InductionTo
  <2> QED
    BY <2>3
<1>8. \A k \in 0 .. n : k # 0 => step[k][f[k - 1]] = FindCallback(f[k - 1], k, map[k].name)
  <2> SUFFICES ASSUME NEW k \in 0 .. n, k # 0
               PROVE  step[k][f[k - 1]] = FindCallback(f[k - 1], k, map[k].name)
    OBVIOUS
  <2>1. k \in 1 .. n /\ f[k - 1] \in S
    BY <1>7
  <2> QED
    BY <1>3, <2>1
<1>9. SolvesFind(f, map, n, pattern)
  BY <1>2, <1>6, <1>8 DEF SolvesFind
<1> QED
  BY <1>9

\* The object that is found has the name of the first that matches, if there is one.
LEMMA FindObjIs ==
  ASSUME NEW n \in Nat, NEW map, DOMAIN map = 1 .. n, Len(map) = n, NEW pattern,
         Null # {}, \A j \in 1 .. n : {map[j].name} # Null
  PROVE  LET M == Matching(map, pattern)
             i == FindObj(map, pattern)
         IN  /\ i \in 0 .. n
             /\ M = {} => i = 0
             /\ M # {} => i # 0 /\ map[i].name = map[Min(M)].name
<1>1. PICK g : g = CHOOSE after : SolvesFind(after, map, n, pattern)
  OBVIOUS
<1>2. SolvesFind(g, map, n, pattern)
  BY <1>1, FindSolvable
<1>3. FindObj(map, pattern) = g[n].at
  BY <1>1 DEF FindObj, SolvesFind
<1>4. PICK M : M = Matching(map, pattern)
  OBVIOUS
<1>5. \A i \in 0 .. n : Searched(map, pattern, M, i, g[i])
  <2> DEFINE T == {i \in 0 .. n : Searched(map, pattern, M, i, g[i])}
  <2>1. 0 \in T
    <3>1. g[0] = [match |-> pattern, at |-> 0]
      BY <1>2 DEF SolvesFind
    <3>2. \A j \in M : j > 0
      BY <1>4 DEF Matching
    <3> QED
      BY <3>1, <3>2 DEF Searched
  <2>2. \A i \in 1 .. n : i - 1 \in T => i \in T
    <3> SUFFICES ASSUME NEW i \in 1 .. n, Searched(map, pattern, M, i - 1, g[i - 1])
                 PROVE  Searched(map, pattern, M, i, g[i])
      OBVIOUS
    <3>1. PICK s : s = g[i - 1]
      OBVIOUS
    <3>2. g[i] = FindCallback(s, i, map[i].name)
      BY <1>2, <3>1 DEF SolvesFind
    <3> QED
      BY <1>4, <3>1, <3>2, TurnSearched
  <2>3. \A i \in 0 .. n : i \in T
    <3> HIDE DEF T
    <3> QED
      BY <2>1, <2>2, InductionTo
  <2> QED
    BY <2>3
<1>6. PICK s : s = g[n]
  OBVIOUS
<1>7. Searched(map, pattern, M, n, s)
  BY <1>5, <1>6
<1>8. M \subseteq 1 .. n
  BY <1>4 DEF Matching
<1>9. CASE (\A j \in M : j > n) /\ s = [match |-> pattern, at |-> 0]
  <2>1. M = {} /\ s.at = 0
    BY <1>8, <1>9
  <2> QED
    BY <1>3, <1>4, <1>6, <2>1
<1>10. CASE \E m \in M : /\ m <= n /\ \A j \in M : m <= j
                         /\ s.at \in 1 .. n /\ map[s.at].name = map[m].name
  <2>1. PICK m \in M : /\ \A j \in M : m <= j
                       /\ s.at \in 1 .. n /\ map[s.at].name = map[m].name
    BY <1>10
  <2>2. Min(M) = m
    <3>1. \A x \in M : (\A j \in M : x <= j) => x = m
      BY <1>8, <2>1
    <3> QED
      BY <2>1, <3>1 DEF Min
  <2>3. M # {} /\ s.at # 0 /\ map[s.at].name = map[Min(M)].name
    BY <2>1, <2>2
  <2> QED
    BY <1>3, <1>4, <1>6, <2>1, <2>3
<1> QED
  BY <1>7, <1>9, <1>10 DEF Searched

-----------------------------------------------------------------------------
\* The entries of .dynamic.

\* The least of a set of indices, and the only one.
LEMMA LeastIndex ==
  ASSUME NEW S \in SUBSET Nat, S # {}
  PROVE  Min(S) \in S /\ \A x \in S : Min(S) <= x
<1>1. \E x \in S : \A y \in S : x <= y
  BY SmallestOf
<1> QED
  BY <1>1 DEF Min

LEMMA OnlyIndex ==
  ASSUME NEW x \in Nat
  PROVE  Min({x}) = x
BY LeastIndex

LEMMA OneEntry ==
  ASSUME NEW o, IsFiniteSet(DOMAIN o.dynamic), NEW tag, Cardinality(Entries(o, tag)) = 1
  PROVE  \E p \in DOMAIN o.dynamic : Entries(o, tag) = {p}
<1>1. IsFiniteSet(Entries(o, tag))
  BY FS_Subset DEF Entries
<1>2. \E p : Entries(o, tag) = {p}
  BY <1>1, FS_Singleton
<1> QED
  BY <1>2 DEF Entries

\* The table found first is in the object's segments like the others.
LEMMA TablesInside ==
  ASSUME NEW o, Supported(o), RelocatedWhole(o)
  PROVE  \A table \in {HashTable(o), GnuHashTable(o)} \ {Null} : CheckAddr(o, table)
BY DEF Supported, RelocatedWhole, HashTable, GnuHashTable, TableTags, CheckAddr

-----------------------------------------------------------------------------
\* Symbols.

\* The symbol DT_GNU_HASH leads to has the name; one that is in the table is found.
LEMMA GnuHashFinds ==
  ASSUME NEW o, NEW name, GnuLinked(o), DOMAIN o.symtab \subseteq Nat
  PROVE  /\ FindSymGnuHash(o, name) \in NamedBy(o, name) \cup {NotFound}
         /\ (\E j \in NamedBy(o, name) : j >= o.gnu.symbias) => FindSymGnuHash(o, name) # NotFound
<1>1. PICK hash : hash = o.hashOf[name]
  OBVIOUS
<1>2. PICK head : head = o.gnu.buckets[hash % o.gnu.nbuckets]
  OBVIOUS
<1>3. PICK C : C = {i \in DOMAIN o.gnu.chain :
                     i >= head /\ \A j \in head .. (i - 1) : o.gnu.chain[j] % 2 = 0}
  OBVIOUS
<1>4. PICK M : M = {i \in C : SameHash(o.gnu.chain[i], hash) /\ o.symtab[i] = name}
  OBVIOUS
<1>5. FindSymGnuHash(o, name) =
        IF o.gnu.nbuckets = 0 \/ ~MayHave(o.gnu, hash) \/ head = 0 \/ M = {}
        THEN NotFound ELSE Min(M)
  BY <1>1, <1>2, <1>3, <1>4 DEF FindSymGnuHash
<1>6. M \subseteq NamedBy(o, name) /\ M \subseteq Nat /\ 0 \notin M
  <2>1. M \subseteq DOMAIN o.gnu.chain
    BY <1>3, <1>4
  <2>2. \A i \in DOMAIN o.gnu.chain : i \in DOMAIN o.symtab /\ i # 0
    BY DEF GnuLinked
  <2> QED
    BY <1>4, <2>1, <2>2 DEF NamedBy
<1>7. M # {} => Min(M) \in M
  BY <1>6, LeastIndex
<1>8. ASSUME NEW j \in NamedBy(o, name), j >= o.gnu.symbias
      PROVE  o.gnu.nbuckets # 0 /\ MayHave(o.gnu, hash) /\ head # 0 /\ j \in M
  <2>1. j \in DOMAIN o.gnu.chain /\ o.symtab[j] = name
    BY <1>8 DEF GnuLinked, NamedBy
  <2>2. /\ head \in DOMAIN o.gnu.chain /\ head <= j
        /\ \A k \in head .. (j - 1) : o.gnu.chain[k] % 2 = 0
        /\ SameHash(o.gnu.chain[j], hash)
        /\ MayHave(o.gnu, hash)
    BY <1>1, <1>2, <2>1 DEF GnuLinked, SameHash
  <2>3. head # 0 /\ head \in Nat /\ j \in Nat
    BY <2>1, <2>2 DEF GnuLinked, NamedBy
  <2>4. j \in C
    BY <1>3, <2>1, <2>2, <2>3
  <2> QED
    BY <1>4, <2>1, <2>2, <2>3, <2>4 DEF GnuLinked
<1> QED
  BY <1>5, <1>6, <1>7, <1>8 DEF NotFound

\* The symbol DT_HASH leads to has the name, unless the end of the table was passed; the
\* first two of a chain are found.
LEMMA HashFinds ==
  ASSUME NEW o, NEW name, HashLinked(o), o.hashOf[name] \in Nat,
         NEW n \in Nat \ {0}, DOMAIN o.symtab = 0 .. (n - 1)
  PROVE  /\ FindSymHash(o, name) \in NamedBy(o, name) \cup {NotFound, Beyond}
         /\ NamedBy(o, name) \cap FirstTwo(o, name) # {} =>
              FindSymHash(o, name) \in NamedBy(o, name)
<1>1. PICK head : head = o.hash.bucket[o.hashOf[name] % o.hash.nbucket]
  OBVIOUS
<1>2. head \in 0 .. (n - 1)
  <2>1. PICK h, m : h = o.hashOf[name] /\ m = o.hash.nbucket
    OBVIOUS
  <2>2. h \in Nat /\ m \in Nat \ {0}
    BY <2>1 DEF HashLinked
  <2>3. h % m \in 0 .. (m - 1)
    BY <2>2
  <2> QED
    BY <1>1, <2>1, <2>3 DEF HashLinked
<1>3. PICK link : link = [i \in Nat |-> IF head + i \in DOMAIN o.hash.chain
                                        THEN o.hash.chain[head + i] ELSE Beyond]
  OBVIOUS
<1>4. PICK E : E = {i \in 0 .. Cardinality(DOMAIN o.hash.chain) :
                     link[i] \in {0, Beyond} \/ o.symtab[link[i]] = name}
  OBVIOUS
<1>5. Cardinality(DOMAIN o.hash.chain) = n
  <2>1. DOMAIN o.hash.chain = 0 .. (n - 1)
    BY DEF HashLinked
  <2>2. 0 \in Int /\ n - 1 \in Int
    OBVIOUS
  <2>3. Cardinality(0 .. (n - 1)) = IF 0 > n - 1 THEN 0 ELSE (n - 1) - 0 + 1
    BY <2>2, FS_Interval
  <2> QED
    BY <2>1, <2>3
<1>6. FindSymHash(o, name) = IF o.symtab[head] = name THEN head ELSE link[Min(E)]
  <2>1. \A i \in 0 .. n : link[i] = IF head + i \in DOMAIN o.hash.chain
                                    THEN o.hash.chain[head + i] ELSE Beyond
    BY <1>3
  <2>2. E = {i \in 0 .. Cardinality(DOMAIN o.hash.chain) :
              \/ (IF head + i \in DOMAIN o.hash.chain
                   THEN o.hash.chain[head + i] ELSE Beyond) \in {0, Beyond}
              \/ o.symtab[IF head + i \in DOMAIN o.hash.chain
                           THEN o.hash.chain[head + i] ELSE Beyond] = name}
    BY <1>4, <1>5, <2>1
  <2>3. n \in E /\ E \subseteq 0 .. n
    <3>1. head + n \notin DOMAIN o.hash.chain /\ n \in 0 .. n
      BY <1>2 DEF HashLinked
    <3>2. link[n] = Beyond
      BY <2>1, <3>1
    <3> QED
      BY <1>4, <1>5, <3>1, <3>2
  <2>4. Min(E) \in 0 .. n
    <3>1. E \in SUBSET Nat /\ E # {}
      BY <2>3
    <3> QED
      BY <2>3, <3>1, LeastIndex
  <2>5. link[Min(E)] = IF head + Min(E) \in DOMAIN o.hash.chain
                      THEN o.hash.chain[head + Min(E)] ELSE Beyond
    BY <2>1, <2>4
  <2> QED
    BY <1>1, <2>2, <2>5 DEF FindSymHash, HashLinked
<1>7. Min(E) \in E /\ \A i \in E : Min(E) <= i
  <2>1. n \in E /\ E \subseteq Nat
    <3>1. head + n \notin DOMAIN o.hash.chain /\ n \in 0 .. n
      BY <1>2 DEF HashLinked
    <3> QED
      BY <1>3, <1>4, <1>5, <3>1
  <2> QED
    BY <2>1, LeastIndex
<1>8. link[Min(E)] \in NamedBy(o, name) \cup {NotFound, Beyond}
  <2>1. PICK m \in E : m = Min(E)
    BY <1>7
  <2>2. link[m] \in 0 .. (n - 1) \/ link[m] = Beyond
    BY <1>3, <1>4, <1>5 DEF HashLinked
  <2>3. link[m] \in {0, Beyond} \/ o.symtab[link[m]] = name
    BY <1>4
  <2> QED
    BY <2>1, <2>2, <2>3 DEF NamedBy, NotFound
<1>9. FirstTwo(o, name) = {head, o.hash.chain[head]}
  BY <1>1 DEF FirstTwo
<1>10. ASSUME o.symtab[head] # name, NamedBy(o, name) \cap FirstTwo(o, name) # {}
       PROVE  link[Min(E)] \in NamedBy(o, name)
  <2>1. o.hash.chain[head] \in NamedBy(o, name)
    BY <1>9, <1>10 DEF NamedBy
  <2>2. link[0] = o.hash.chain[head]
    <3>1. head + 0 = head /\ head \in DOMAIN o.hash.chain
      BY <1>2 DEF HashLinked
    <3> QED
      BY <1>3, <3>1
  <2>3. 0 \in E
    BY <1>4, <1>5, <2>1, <2>2 DEF NamedBy
  <2>4. Min(E) = 0
    <3>1. Min(E) <= 0 /\ Min(E) \in 0 .. n
      BY <1>4, <1>5, <1>7, <2>3
    <3> QED
      BY <3>1
  <2> QED
    BY <2>1, <2>2, <2>4
<1> QED
  BY <1>2, <1>6, <1>8, <1>10 DEF NamedBy

LEMMA SymbolFound ==
  ASSUME NEW o, NEW names, WellLinked(o, names), NEW name \in names
  PROVE  /\ FindSym(o, name) \in NamedBy(o, name) \cup {NotFound, Beyond}
         /\ GnuHashTable(o) # Null /\ (\E j \in NamedBy(o, name) : j >= o.gnu.symbias)
              => FindSym(o, name) \in NamedBy(o, name)
         /\ HashTable(o) # Null /\ NamedBy(o, name) \cap FirstTwo(o, name) # {}
              => FindSym(o, name) \in NamedBy(o, name)
<1>1. PICK n \in Nat \ {0} : DOMAIN o.symtab = 0 .. (n - 1)
  BY DEF WellLinked
<1>2. GnuHashTable(o) # Null =>
        /\ FindSymGnuHash(o, name) \in NamedBy(o, name) \cup {NotFound}
        /\ (\E j \in NamedBy(o, name) : j >= o.gnu.symbias) => FindSymGnuHash(o, name) # NotFound
  <2> SUFFICES ASSUME GnuHashTable(o) # Null
               PROVE  /\ FindSymGnuHash(o, name) \in NamedBy(o, name) \cup {NotFound}
                      /\ (\E j \in NamedBy(o, name) : j >= o.gnu.symbias) =>
                           FindSymGnuHash(o, name) # NotFound
    OBVIOUS
  <2>1. GnuLinked(o) /\ DOMAIN o.symtab \subseteq Nat
    BY <1>1 DEF WellLinked
  <2> QED
    BY <2>1, GnuHashFinds
<1>3. HashTable(o) # Null =>
        /\ FindSymHash(o, name) \in NamedBy(o, name) \cup {NotFound, Beyond}
        /\ NamedBy(o, name) \cap FirstTwo(o, name) # {} =>
             FindSymHash(o, name) \in NamedBy(o, name)
  BY <1>1, HashFinds DEF WellLinked
<1> QED
  BY <1>2, <1>3 DEF FindSym, NotFound

-----------------------------------------------------------------------------
\* Relocations.

\* The one other entry of its kind is found, wherever it is.
LEMMA OtherEntry ==
  ASSUME NEW o, DOMAIN o.dynamic \subseteq Nat, NEW tag, NEW p \in DOMAIN o.dynamic,
         NEW q \in DOMAIN o.dynamic, Entries(o, tag) = {q}, o.dynamic[p].tag # tag
  PROVE  FindNextDyn(o, tag, p) = q
<1>1. p \in Nat /\ q \in Nat /\ p # q
  BY DEF Entries
<1>2. CASE q > p
  <2>1. {r \in Entries(o, tag) : r > p} = {q}
    BY <1>1, <1>2
  <2> QED
    BY <1>1, <2>1, OnlyIndex DEF FindNextDyn
<1>3. CASE q < p
  <2>1. {r \in Entries(o, tag) : r > p} = {} /\ {r \in Entries(o, tag) : r < p} = {q}
    BY <1>1, <1>3
  <2> QED
    BY <1>1, <2>1, OnlyIndex DEF FindNextDyn
<1> QED
  BY <1>1, <1>2, <1>3

\* The slots of the table at p, which has n.
SlotsIn(p, n) == {<<p, k>> : k \in 1 .. n}

\* With one table of relocations these are the entries of that table.
LEMMA TableIs ==
  ASSUME NEW o, IsFiniteSet(DOMAIN o.dynamic), DOMAIN o.dynamic \subseteq Nat,
         OneTable(o), RelocationsSized(o), NEW table, table = AddressOf(o, "JMPREL")
  PROVE  \E p \in Nat, n \in Nat :
           /\ DOMAIN table = 1 .. n
           /\ Relocations(o) = SlotsIn(p, n)
           /\ \A k \in 1 .. n : SymbolOf(o, <<p, k>>) = o.symtab[table[k]]
<1>1. PICK p \in DOMAIN o.dynamic : Entries(o, "JMPREL") = {p}
  BY OneEntry DEF OneTable
<1>2. PICK k \in DOMAIN o.dynamic : Entries(o, "PLTREL") = {k}
  BY OneEntry DEF OneTable
<1>3. PICK q \in DOMAIN o.dynamic : Entries(o, "PLTRELSZ") = {q}
  BY OneEntry DEF OneTable
<1>4. /\ o.dynamic[p].tag = "JMPREL" /\ o.dynamic[k].tag = "PLTREL"
      /\ o.dynamic[q].tag = "PLTRELSZ" /\ p \in Nat /\ k \in Nat /\ q \in Nat
  BY <1>1, <1>2, <1>3 DEF Entries
<1>5. FindNextDyn(o, "PLTREL", p) = k /\ FindNextDyn(o, "PLTRELSZ", p) = q
  BY <1>2, <1>3, <1>4, OtherEntry
<1>6. o.dynamic[k].val \in {"REL", "RELA"}
  BY <1>2, <1>4, OnlyIndex DEF OneTable, AddressOf
<1>7. TableStatus(o, p) = "ok"
  BY <1>4, <1>5, <1>6, NullIsNoIndex DEF TableStatus
<1>8. table = o.dynamic[p].val
  BY <1>1, <1>4, OnlyIndex DEF AddressOf
<1>9. PICK n \in Nat : n = o.dynamic[q].val /\ DOMAIN table = 1 .. n
  BY <1>1, <1>3, <1>8 DEF RelocationsSized
<1>10. Relocations(o) = SlotsIn(p, n)
  <2>1. {r \in Entries(o, "JMPREL") :
           \A s \in Entries(o, "JMPREL") : s <= r => TableStatus(o, s) = "ok"} = {p}
    BY <1>1, <1>7
  <2>2. Relocations(o) = UNION {{<<r, i>> : i \in 1 .. o.dynamic[FindNextDyn(o, "PLTRELSZ", r)].val} :
                                  r \in {p}}
    BY <2>1 DEF Relocations
  <2> QED
    BY <1>5, <1>9, <2>2 DEF SlotsIn
<1>11. \A i \in 1 .. n : SymbolOf(o, <<p, i>>) = o.symtab[table[i]]
  BY <1>8 DEF SymbolOf
<1> QED
  BY <1>4, <1>9, <1>10, <1>11

\* The places of slots in their table.
PlacesOf(slots) == {slot[2] : slot \in slots}

LEMMA Places ==
  ASSUME NEW T, NEW p, NEW S, \A x \in T : \E k \in S : x = <<p, k>>,
         \A k \in S : <<p, k>> \in T
  PROVE  PlacesOf(T) = S
<1>1. ASSUME NEW x \in PlacesOf(T)
      PROVE  x \in S
  BY DEF PlacesOf
<1>2. ASSUME NEW k \in S
      PROVE  k \in PlacesOf(T)
  <2>1. PICK x \in T : x = <<p, k>>
    OBVIOUS
  <2>2. x[2] = k
    BY <2>1
  <2> QED
    BY <2>2 DEF PlacesOf
<1> QED
  BY <1>1, <1>2

\* The places in the table where a symbol is relocated.
PlacesNamed(o, table, name) == {k \in DOMAIN table : o.symtab[table[k]] = name}

\* The slots of a symbol, and those up to the first of them.
LEMMA SlotsAre ==
  ASSUME NEW o, IsFiniteSet(DOMAIN o.dynamic), DOMAIN o.dynamic \subseteq Nat,
         OneTable(o), RelocationsSized(o), NEW table, table = AddressOf(o, "JMPREL"),
         NEW name, name # NoName, NEW slots,
         slots = PlacesNamed(o, table, name)
  PROVE  /\ PlacesOf(SetRel(o, name)) = slots
         /\ PlacesOf(IterateRel(o, SetRel(o, name))) =
              IF slots = {} THEN DOMAIN table ELSE 1 .. Min(slots)
<1>1. PICK p \in Nat, n \in Nat :
        /\ DOMAIN table = 1 .. n
        /\ Relocations(o) = SlotsIn(p, n)
        /\ \A k \in 1 .. n : SymbolOf(o, <<p, k>>) = o.symtab[table[k]]
  BY TableIs
<1>2. slots \subseteq 1 .. n
  BY <1>1 DEF PlacesNamed
<1>3. SetRel(o, name) = {<<p, k>> : k \in slots}
  <2>1. \A k \in 1 .. n :
          SymbolOf(o, <<p, k>>) # NoName /\ SymbolOf(o, <<p, k>>) = name <=> k \in slots
    BY <1>1 DEF PlacesNamed
  <2>2. ASSUME NEW slot \in SetRel(o, name)
        PROVE  slot \in {<<p, k>> : k \in slots}
    <3>1. PICK k \in 1 .. n : slot = <<p, k>>
      BY <1>1 DEF SetRel, SlotsIn
    <3> QED
      BY <2>1, <3>1 DEF SetRel
  <2>3. ASSUME NEW k \in slots
        PROVE  <<p, k>> \in SetRel(o, name)
    BY <1>1, <1>2, <2>1 DEF SetRel, SlotsIn
  <2> QED
    BY <2>2, <2>3
<1>4. PlacesOf(SetRel(o, name)) = slots
  <2>1. \A x \in SetRel(o, name) : \E k \in slots : x = <<p, k>>
    BY <1>3
  <2>2. \A k \in slots : <<p, k>> \in SetRel(o, name)
    BY <1>3
  <2> QED
    BY <2>1, <2>2, Places
<1>5. PICK U : U = IterateRel(o, SetRel(o, name))
  OBVIOUS
<1>6. Relocations(o) \cap SetRel(o, name) = {<<p, k>> : k \in slots}
  BY <1>3 DEF SetRel
<1>7. U = {<<p, k>> : k \in {i \in 1 .. n : \A j \in slots : ~(j < i)}}
  <2>1. \A i, j \in 1 .. n : SlotBefore(<<p, j>>, <<p, i>>) <=> j < i
    BY DEF SlotBefore
  <2>2. ASSUME NEW i \in 1 .. n
        PROVE  <<p, i>> \in U <=> \A j \in slots : ~(j < i)
    <3>1. <<p, i>> \in U <=> \A s \in {<<p, k>> : k \in slots} : ~SlotBefore(s, <<p, i>>)
      BY <1>1, <1>5, <1>6 DEF IterateRel, SlotsIn
    <3> QED
      BY <1>2, <2>1, <3>1
  <2>3. U \subseteq {<<p, k>> : k \in 1 .. n}
    BY <1>1, <1>5 DEF IterateRel, SlotsIn
  <2> QED
    BY <2>2, <2>3
<1>8. PlacesOf(U) = {i \in 1 .. n : \A j \in slots : ~(j < i)}
  <2>1. PICK S : S = {i \in 1 .. n : \A j \in slots : ~(j < i)}
    OBVIOUS
  <2>2. \A x \in U : \E k \in S : x = <<p, k>>
    BY <1>7, <2>1
  <2>3. \A k \in S : <<p, k>> \in U
    BY <1>7, <2>1
  <2> QED
    BY <2>1, <2>2, <2>3, Places
<1>9. ASSUME slots # {}
      PROVE  {i \in 1 .. n : \A j \in slots : ~(j < i)} = 1 .. Min(slots)
  <2>1. PICK m \in slots : m = Min(slots) /\ \A j \in slots : m <= j
    BY <1>2, <1>9, LeastIndex
  <2> QED
    BY <1>2, <2>1
<1>10. PlacesOf(U) = IF slots = {} THEN DOMAIN table ELSE 1 .. Min(slots)
  BY <1>1, <1>8, <1>9
<1> QED
  BY <1>4, <1>5, <1>10

-----------------------------------------------------------------------------
\* The calls.

ElfInv ==
  /\ linkmap \in Inspected \cup Loaded
  /\ obj # 0 => obj \in DOMAIN linkmap /\ Supported(Object) /\ linkmap \in Inspected
  /\ answer.call = "find_obj" =>
       linkmap \in Inspected /\ answer.ret = FindObj(linkmap, answer.for)
  /\ answer.call \in {"find_sym", "set_rel", "iterate_rel"} =>
       obj # 0 /\ answer.for \in SymbolNames
  /\ answer.call = "find_sym" => answer.ret = FindSym(Object, answer.for)
  /\ answer.call = "set_rel" => answer.ret = SetRel(Object, answer.for)
  /\ answer.call = "iterate_rel" =>
       answer.ret = IterateRel(Object, SetRel(Object, answer.for))

LEMMA MapTyped ==
  ASSUME NEW map \in Inspected \cup Loaded
  PROVE  Len(map) \in Nat /\ DOMAIN map = 1 .. Len(map)
BY MapsAreLists, LenProperties

LEMMA ElfStep ==
  ASSUME ElfInv, linkmap \in Inspected, ElfNext(Patterns, SymbolNames)
  PROVE  ElfInv'
<1>1. ASSUME NEW pattern \in Patterns, ElfFindObj(pattern)
      PROVE  ElfInv'
  <2>1. PICK i : i = FindObj(linkmap, pattern)
    OBVIOUS
  <2>2. /\ answer' = [call |-> "find_obj", for |-> pattern, ret |-> i]
        /\ obj' = IF i # 0 /\ Supported(linkmap[i]) THEN i ELSE 0
        /\ linkmap' = linkmap
    BY <1>1, <2>1 DEF ElfFindObj
  <2>3. i \in 0 .. Len(linkmap) /\ DOMAIN linkmap = 1 .. Len(linkmap) /\ Len(linkmap) \in Nat
    BY <2>1, MapTyped, FindObjIs, NullIsNoPattern
  <2>4. obj' # 0 => obj' \in DOMAIN linkmap /\ Supported(linkmap[obj'])
    BY <2>2, <2>3
  <2> QED
    BY <2>1, <2>2, <2>4 DEF ElfInv, Object
<1>2. ASSUME NEW stop \in SUBSET DOMAIN linkmap, ElfIterateObj(stop)
      PROVE  ElfInv'
  BY <1>2 DEF ElfIterateObj, ElfAsk, ElfInv, Object
<1>3. ASSUME NEW name \in SymbolNames, ElfFindSym(name) \/ ElfSetRel(name) \/ ElfIterateRel(name)
      PROVE  ElfInv'
  BY <1>3 DEF ElfFindSym, ElfSetRel, ElfIterateRel, ElfAsk, ElfInv, Object
<1> QED
  BY <1>1, <1>2, <1>3 DEF ElfNext

LEMMA ElfStays ==
  ASSUME ElfInv, UNCHANGED elfVars
  PROVE  ElfInv'
BY DEF ElfInv, elfVars, Object

LEMMA ObjectIsLinked ==
  ASSUME ElfInv, obj # 0
  PROVE  Supported(Object) /\ WellLinked(Object, SymbolNames)
BY ObjectsLinked DEF ElfInv, Object

LEMMA ElfObject ==
  ASSUME ElfInv
  PROVE  ObjectFound
<1>1. ASSUME answer.call = "find_obj"
      PROVE  LET matches == {i \in DOMAIN linkmap : Matches(answer.for, linkmap[i].name)}
             IN  IF matches = {} THEN answer.ret = 0
                 ELSE answer.ret # 0 /\ linkmap[answer.ret].name = linkmap[Min(matches)].name
  <2>1. linkmap \in Inspected /\ answer.ret = FindObj(linkmap, answer.for)
    BY <1>1 DEF ElfInv
  <2>2. DOMAIN linkmap = 1 .. Len(linkmap) /\ Len(linkmap) \in Nat
    BY <2>1, MapTyped
  <2> QED
    BY <2>1, <2>2, FindObjIs, NullIsNoPattern DEF Matching
<1>2. ASSUME obj # 0
      PROVE  \A table \in {HashTable(Object), GnuHashTable(Object)} \ {Null} : CheckAddr(Object, table)
  <2>1. Supported(Object) /\ RelocatedWhole(Object)
    BY <1>2, ObjectIsLinked DEF WellLinked
  <2> QED
    BY <2>1, TablesInside
<1> QED
  BY <1>1, <1>2 DEF ObjectFound

LEMMA ElfSymbols ==
  ASSUME ElfInv
  PROVE  SymbolsReached
<1> SUFFICES ASSUME answer.call = "find_sym"
             PROVE  SymbolsReached
  BY DEF SymbolsReached
<1>1. obj # 0 /\ answer.for \in SymbolNames /\ answer.ret = FindSym(Object, answer.for)
  BY DEF ElfInv
<1>2. WellLinked(Object, SymbolNames)
  BY <1>1, ObjectIsLinked
<1> QED
  BY <1>1, <1>2, SymbolFound DEF SymbolsReached, NamedBy

LEMMA ElfSlots ==
  ASSUME ElfInv
  PROVE  SlotsSet
<1> SUFFICES ASSUME obj # 0, OneTable(Object), answer.call \in {"set_rel", "iterate_rel"}
             PROVE  SlotsSet
  BY DEF SlotsSet
<1>1. PICK o : o = Object
  OBVIOUS
<1>2. WellLinked(o, SymbolNames)
  BY <1>1, ObjectIsLinked
<1>3. PICK table : table = AddressOf(o, "JMPREL")
  OBVIOUS
<1>4. PICK name : name = answer.for /\ name # NoName
  BY NamesAreGiven DEF ElfInv
<1>5. PICK slots : slots = PlacesNamed(o, table, name)
  OBVIOUS
<1>6a. /\ IsFiniteSet(DOMAIN o.dynamic) /\ DOMAIN o.dynamic \subseteq Nat
       /\ OneTable(o) /\ RelocationsSized(o)
  BY <1>1, <1>2 DEF WellLinked
<1>6. /\ PlacesOf(SetRel(o, name)) = slots
      /\ PlacesOf(IterateRel(o, SetRel(o, name))) =
           IF slots = {} THEN DOMAIN table ELSE 1 .. Min(slots)
  BY <1>6a, <1>3, <1>4, <1>5, SlotsAre
<1>7. /\ answer.call = "set_rel" => answer.ret = SetRel(o, name)
      /\ answer.call = "iterate_rel" => answer.ret = IterateRel(o, SetRel(o, name))
  BY <1>1, <1>4 DEF ElfInv
<1>8. /\ answer.call = "set_rel" => PlacesOf(answer.ret) = slots
      /\ answer.call = "iterate_rel" =>
           PlacesOf(answer.ret) = IF slots = {} THEN DOMAIN table ELSE 1 .. Min(slots)
  BY <1>6, <1>7
<1> QED
  BY <1>1, <1>3, <1>4, <1>5, <1>8 DEF SlotsSet, PlacesOf, PlacesNamed

-----------------------------------------------------------------------------
\* As many keys are down as x11.keys_pressed has entries.
LEMMA KeysCounted ==
  ASSUME KeysTyped
  PROVE  Cardinality(Pressed) = Len(keys_pressed)
<1>1. PICK n \in Nat : n = Len(keys_pressed)
  BY LenProperties DEF KeysTyped
<1>2. DOMAIN keys_pressed = 1 .. n
  BY <1>1, LenProperties DEF KeysTyped
<1>3. PICK P : P = Pressed
  OBVIOUS
<1>4. P = {keys_pressed[i] : i \in 1 .. n}
  BY <1>2, <1>3 DEF Pressed, ToSet
<1>5. PICK g : g = [i \in 1 .. n |-> keys_pressed[i]]
  OBVIOUS
<1>6. g \in Bijection(1 .. n, P)
  <2>1. g \in [1 .. n -> P] /\ \A d \in P : \E i \in 1 .. n : g[i] = d
    BY <1>4, <1>5
  <2>2. \A i, j \in 1 .. n : g[i] = g[j] => i = j
    BY <1>1, <1>5 DEF KeysTyped, Different
  <2> QED
    BY <2>1, <2>2 DEF Bijection, Injection, Surjection, IsInjective
<1>7. Cardinality(1 .. n) = n /\ IsFiniteSet(1 .. n)
  <2>1. 1 \in Int /\ n \in Int
    OBVIOUS
  <2>2. IsFiniteSet(1 .. n) /\ Cardinality(1 .. n) = IF 1 > n THEN 0 ELSE n - 1 + 1
    BY <2>1, FS_Interval
  <2> QED
    BY <2>2
<1>8. ExistsBijection(1 .. n, P)
  BY <1>6 DEF ExistsBijection
<1>9. Cardinality(P) = n
  BY <1>7, <1>8, FS_Bijection
<1> QED
  BY <1>1, <1>3, <1>9

-----------------------------------------------------------------------------
\* All parts together.

ClientInv ==
  /\ shown = "elfhacks" => linkmap \in Inspected
  /\ ElfInv /\ HookInv /\ KeysInv /\ PboInv /\ GlInv

LEMMA ClientInitially ==
  ASSUME Init
  PROVE  ClientInv
<1>1. exported \subseteq Hooks
  BY ExportsAreHooks DEF Init
<1>2. HookInv
  BY <1>1, HooksInitially DEF Init
<1>3. ElfInv /\ (shown = "elfhacks" => linkmap \in Inspected)
  BY DEF Init, ElfInv, NoAnswer
<1> QED
  BY <1>2, <1>3, KeysInitially, PboInitially, GlInitially DEF Init, ClientInv

\* A step of one part leaves the others alone.
LEMMA ClientStep ==
  ASSUME ClientInv, [Next]_vars
  PROVE  ClientInv'
<1>1. CASE UsesElfhacks
  <2>1. linkmap \in Inspected /\ ElfInv /\ ElfNext(Patterns, SymbolNames)
    BY <1>1 DEF UsesElfhacks, ClientInv
  <2>2. linkmap' = linkmap
    BY <2>1 DEF ElfNext, ElfFindObj, ElfIterateObj, ElfFindSym, ElfSetRel, ElfIterateRel, ElfAsk
  <2> QED
    BY <1>1, <2>1, <2>2, ElfStep, HooksStay, KeysStay, PboStays, GlStays
    DEF UsesElfhacks, ClientInv
<1>2. CASE GlcInit
  BY <1>2, ElfStays, HookStep, KeysStay, PboStays, GlStays DEF GlcInit, ClientInv, elfVars
<1>3. CASE Renders
  BY <1>3, ElfStays, HooksStay, KeysStay, PboStays, GlStepKept DEF Renders, ClientInv, elfVars
<1>4. CASE HandlesKeys
  BY <1>4, ElfStays, HooksStay, KeysStep, PboStays, GlStays
  DEF HandlesKeys, ClientInv, elfVars
<1>5. CASE CapturesPixels
  BY <1>5, ElfStays, HooksStay, KeysStay, PboStep, GlStays
  DEF CapturesPixels, ClientInv, elfVars
<1>6. CASE UNCHANGED vars
  BY <1>6, ElfStays, HooksStay, KeysStay, PboStays, GlStays DEF vars, ClientInv, elfVars
<1> QED
  BY <1>1, <1>2, <1>3, <1>4, <1>5, <1>6 DEF Next

\* The client never leaves the invariants of its parts: what glc_init registers, what
\* the lists of contexts and shortcuts hold, and what the nested readers will restore.
THEOREM ClientCorrect == Spec => []ClientInv
<1>1. Init => ClientInv
  BY ClientInitially
<1>2. ClientInv /\ [Next]_vars => ClientInv'
  BY ClientStep
<1> QED
  BY <1>1, <1>2, PTL DEF Spec

\* Wherever hook_init, x11_init or opengl_init end, a program that runs is handed a
\* function of the client for every hook, and each has the real one it goes on to.
THEOREM HooksCorrect == Spec => []HooksReachReal
<1>1. ClientInv => HooksReachReal
  BY HooksReal DEF ClientInv
<1> QED
  BY <1>1, ClientCorrect, PTL

\* Whatever the user presses, holds and releases, and whichever functions the program
\* takes its events with: once it has taken them all, and x11_event has not been
\* misled about a repeat, x11.keys_pressed has the keys that are held.
THEOREM KeysCorrect == Spec => []KeysTracked
<1>1. ClientInv => KeysTracked
  BY KeysToldAll DEF ClientInv
<1> QED
  BY <1>1, ClientCorrect, PTL

\* A shortcut that is down has all its keys pressed, and its callbacks are called for
\* down and up in turn, even when x11_event is misled.
THEOREM ShortcutsCorrect == Spec => []ShortcutsInTurn
<1>1. ClientInv => ShortcutsInTurn
  BY DEF ClientInv, KeysInv, X11Inv
<1> QED
  BY <1>1, ClientCorrect, PTL

\* However the reads of pixel buffer objects nest, no function is called that was not
\* found, and unless a buffer could not be mapped the program's own binding is
\* restored and only the buffers whose callback runs are mapped.
THEOREM PboCorrect == Spec => []PboLeavesNoTrace
<1>1. ClientInv => PboLeavesNoTrace
  BY PboTraceless DEF ClientInv
<1> QED
  BY <1>1, ClientCorrect, PTL

\* Whichever threads render and destroy, the list has one context for each drawable
\* known and nothing that was allocated is lost, as long as the calls that change the
\* list do not meet.
THEOREM ContextsCorrect == Spec => []ContextsExact
<1>1. ClientInv => ContextsExact
  BY GlExact DEF ClientInv
<1> QED
  BY <1>1, ClientCorrect, PTL

\* glc_start is called once, and no context is used after it was freed, as long as
\* the calls that change the list do not meet.
THEOREM ApartCorrect == Spec => []ApartIsSafe
<1>1. ClientInv => ApartIsSafe
  BY GlSafe DEF ClientInv
<1> QED
  BY <1>1, ClientCorrect, PTL

\* Every variable keeps its type: the object found is one of the link map, the list of
\* hooks, the threads, contexts and buffers are what the code takes them for, and no key
\* is in x11.keys_pressed twice.
THEOREM TypeCorrect == Spec => []TypeOK
<1>1. ClientInv => TypeOK
  <2> SUFFICES ASSUME ClientInv
               PROVE  TypeOK
    OBVIOUS
  <2>1. obj \in 0 .. Len(linkmap)
    <3>1. Len(linkmap) \in Nat /\ DOMAIN linkmap = 1 .. Len(linkmap)
      BY MapTyped DEF ClientInv, ElfInv
    <3> QED
      BY <3>1 DEF ClientInv, ElfInv
  <2>2. X11TypeOK
    BY KeysCounted DEF ClientInv, KeysInv, X11Inv, KeysTyped, X11TypeOK, ShortcutEvents
  <2> QED
    BY <2>1, <2>2 DEF ClientInv, HookInv, GlInv, GlTyped, PboInv, TypeOK
<1> QED
  BY <1>1, ClientCorrect, PTL

\* eh_find_obj finds the first object that matches, or a later one of the same name, and
\* the tables it returns with it lie in the object's segments, whatever is loaded.
THEOREM ObjectCorrect == Spec => []ObjectFound
<1>1. ClientInv => ObjectFound
  BY ElfObject DEF ClientInv
<1> QED
  BY <1>1, ClientCorrect, PTL

\* A symbol that eh_find_sym returns is the one asked for, and it finds those that
\* DT_GNU_HASH has or that are first or second in a chain of DT_HASH.
THEOREM SymbolsCorrect == Spec => []SymbolsReached
<1>1. ClientInv => SymbolsReached
  BY ElfSymbols DEF ClientInv
<1> QED
  BY <1>1, ClientCorrect, PTL

\* With one table of relocations eh_set_rel changes the slots of the symbol and no
\* others, wherever the entries that belong to the table are in .dynamic.
THEOREM SlotsCorrect == Spec => []SlotsSet
<1>1. ClientInv => SlotsSet
  BY ElfSlots DEF ClientInv
<1> QED
  BY <1>1, ClientCorrect, PTL
===============================================================================
