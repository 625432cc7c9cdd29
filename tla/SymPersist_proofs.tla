-------------------------- MODULE SymPersist_proofs --------------------------
(***************************************************************************)
(* The symbol file, for every number of processes, files, symbols and      *)
(* calls: what a process believes to be on disk is there, and a column     *)
(* whose save wrote the symbol file can be read after any failure.  A      *)
(* column whose save found nothing new to write is covered as long as the  *)
(* processes use one symbol file.                                          *)
(***************************************************************************)
EXTENDS SymPersist, SequenceTheorems, FiniteSetTheorems, TLAPS

\* The first n entries of two lists exist and are the same.
Agree(s, t, n) == n <= Len(s) /\ n <= Len(t) /\ \A k \in 1 .. n : s[k] = t[k]
Prefix(s, t) == Agree(s, t, Len(s))

-----------------------------------------------------------------------------
(* The inductive invariant. *)

\* What a power failure leaves of a file is a beginning of what is there now.
FileInv ==
  \A f \in Path : synced[f] # NoFile => disk[f] # NoFile /\ Prefix(synced[f], disk[f])

\* A process has no symbol at two positions.
MemInv(p) == IsInjective(mem[p]) /\ persisted[p] <= Len(mem[p])

PersistInv(p) ==
  persisted[p] > 0 =>
    \E f \in Path : disk[f] # NoFile /\ Agree(disk[f], mem[p], persisted[p])

\* A call holds the lock while it depends on what it has read.
LockInv(p) ==
  /\ call[p].at \in {"merge", "rename", "sync"} => exclusive[call[p].path] = {p}
  /\ At(p, "intern") => p \in shared[call[p].path]

\* What each point of a call knows of the memory of its process and of the file.
CallInv(p) ==
  LET c == call[p] IN
    /\ c.at \in {"save", "merge", "rename", "sync", "columns saved", "columns skipped"} =>
         c.cell \in 1 .. Len(mem[p])
    /\ c.at = "merge" => c.view = OnDisk(c.path)
    /\ c.at = "intern" => disk[c.path] # NoFile /\ c.view = disk[c.path]
    /\ c.at \in {"merge", "intern"} => Agree(c.view, mem[p], c.i)
    /\ c.at \in {"rename", "sync", "columns saved"} =>
         Prefix(c.view, mem[p]) /\ c.cell <= Len(c.view)
    /\ c.at = "rename" => Prefix(OnDisk(c.path), c.view)
    /\ c.at = "sync" => disk[c.path] = c.view
    /\ c.at = "columns saved" => synced[c.path] # NoFile /\ Prefix(c.view, synced[c.path])
    /\ c.at = "columns skipped" => c.cell <= persisted[p]

ProcInv(p) == MemInv(p) /\ PersistInv(p) /\ LockInv(p) /\ CallInv(p)

SymInv ==
  /\ TypeOK
  /\ FileInv
  /\ \A p \in Process : ProcInv(p)
  /\ SavedColumnsSurvive

-----------------------------------------------------------------------------
(* Lists. *)

\* The number of symbols is a number.
LEMMA SymbolsCount == Cardinality(Symbol) \in Nat
  BY SymAssumption, FS_CardinalityType

\* A list is a sequence of symbols no longer than there are symbols.
LEMMA ListFacts ==
  ASSUME NEW s \in Lists
  PROVE  s \in Seq(Symbol) /\ Len(s) \in 0 .. Cardinality(Symbol)
  BY SymbolsCount, SeqDef DEF Lists, SeqOf

\* A sequence of symbols that has none twice is a list.
LEMMA DistinctIsList ==
  ASSUME NEW s \in Seq(Symbol), IsInjective(s)
  PROVE  s \in Lists
  <1>1. s \in [1 .. Len(s) -> Symbol] /\ Len(s) \in Nat
    BY LenProperties
  <1>2. s \in Injection(1 .. Len(s), Symbol)
    BY <1>1 DEF Injection
  <1>3. Cardinality(1 .. Len(s)) <= Cardinality(Symbol)
    BY <1>2, FS_Injection, SymAssumption
  <1>4. Cardinality(1 .. Len(s)) = Len(s)
    <2>1. 1 \in Int /\ Len(s) \in Int
      BY <1>1
    <2>2. Cardinality(1 .. Len(s)) = IF 1 > Len(s) THEN 0 ELSE Len(s) - 1 + 1
      BY <2>1, FS_Interval
    <2>3. QED
      BY <1>1, <2>2
  <1>5. Len(s) \in 0 .. Cardinality(Symbol)
    BY <1>1, <1>3, <1>4, SymbolsCount
  <1>6. QED
    BY <1>1, <1>5 DEF Lists, SeqOf

\* The empty list.
LEMMA EmptyList == <<>> \in Lists /\ Len(<<>>) = 0 /\ IsInjective(<<>>)
  <1>1. <<>> \in Seq(Symbol) /\ Len(<<>>) = 0
    BY EmptySeq
  <1>. DEFINE e == <<>>
  <1>2. DOMAIN e = 1 .. Len(e)
    BY <1>1, LenProperties
  <1>. HIDE DEF e
  <1>3. IsInjective(e)
    <2>1. DOMAIN e = {}
      BY <1>1, <1>2 DEF e
    <2>2. QED
      BY <2>1 DEF IsInjective
  <1>4. QED
    BY <1>1, <1>3, DistinctIsList DEF e

\* A new symbol at the end of a list keeps it free of doubles.
LEMMA AppendDistinct ==
  ASSUME NEW m \in Lists, IsInjective(m), NEW s \in Symbol, ~Contains(m, s)
  PROVE  /\ Append(m, s) \in Lists /\ IsInjective(Append(m, s))
         /\ Prefix(m, Append(m, s))
         /\ Contains(Append(m, s), s)
  <1>1. m \in Seq(Symbol) /\ Len(m) \in Nat /\ DOMAIN m = 1 .. Len(m)
    BY ListFacts, LenProperties
  <1>. DEFINE a == Append(m, s)
  <1>2. /\ a \in Seq(Symbol) /\ Len(a) = Len(m) + 1
        /\ \A i \in 1 .. Len(m) : a[i] = m[i]
        /\ a[Len(m) + 1] = s
    BY <1>1, AppendProperties
  <1>3. DOMAIN a = 1 .. Len(m) + 1
    BY <1>2, LenProperties
  <1>4. \A i \in 1 .. Len(m) : m[i] # s
    BY DEF Contains
  <1>. HIDE DEF a
  <1>5. ASSUME NEW i \in DOMAIN a, NEW j \in DOMAIN a, a[i] = a[j]
        PROVE  i = j
    <2>1. CASE i = Len(m) + 1
      BY <1>1, <1>2, <1>3, <1>4, <1>5, <2>1
    <2>2. CASE j = Len(m) + 1
      BY <1>1, <1>2, <1>3, <1>4, <1>5, <2>2
    <2>3. CASE i \in 1 .. Len(m) /\ j \in 1 .. Len(m)
      BY <1>1, <1>2, <1>5, <2>3 DEF IsInjective
    <2>4. QED
      BY <1>1, <1>3, <2>1, <2>2, <2>3
  <1>6. IsInjective(a)
    BY <1>5 DEF IsInjective
  <1>7. a \in Lists
    BY <1>2, <1>6, DistinctIsList
  <1>8. Prefix(m, a)
    BY <1>1, <1>2 DEF Prefix, Agree
  <1>9. Contains(a, s)
    BY <1>1, <1>2 DEF Contains
  <1>10. QED
    BY <1>6, <1>7, <1>8, <1>9 DEF a

\* ray_sym_intern keeps every symbol at its position and knows the new one.
LEMMA InternedFacts ==
  ASSUME NEW m \in Lists, IsInjective(m), NEW s \in Symbol
  PROVE  /\ Interned(m, s) \in Lists /\ IsInjective(Interned(m, s))
         /\ Prefix(m, Interned(m, s))
         /\ IdOf(Interned(m, s), s) \in 1 .. Len(Interned(m, s))
         /\ Interned(m, s)[IdOf(Interned(m, s), s)] = s
  <1>. DEFINE a == Interned(m, s)
  <1>1. Prefix(m, m)
    BY ListFacts DEF Prefix, Agree
  <1>2. a \in Lists /\ IsInjective(a) /\ Prefix(m, a) /\ Contains(a, s)
    BY <1>1, AppendDistinct DEF Interned
  <1>3. a \in Seq(Symbol)
    BY <1>2, ListFacts
  <1>4. DOMAIN a = 1 .. Len(a)
    BY <1>3, LenProperties
  <1>. HIDE DEF a
  <1>5. IdOf(a, s) \in DOMAIN a /\ a[IdOf(a, s)] = s
    BY <1>2, <1>4 DEF Contains, IdOf
  <1>6. QED
    BY <1>2, <1>4, <1>5 DEF a

\* Two lists that agree go on to agree when both grow.
LEMMA AgreeGrows ==
  ASSUME NEW s \in Lists, NEW t \in Lists, NEW a \in Lists, NEW b \in Lists,
         NEW n \in Nat, Agree(s, t, n), Prefix(s, a), Prefix(t, b)
  PROVE  Agree(a, b, n)
  <1>1. Len(s) \in Nat /\ Len(t) \in Nat /\ Len(a) \in Nat /\ Len(b) \in Nat
    BY ListFacts
  <1>2. QED
    BY SMTT(30), <1>1 DEF Agree, Prefix

\* A list is a beginning of itself.
LEMMA PrefixSelf ==
  ASSUME NEW s \in Lists
  PROVE  Prefix(s, s)
  BY ListFacts DEF Prefix, Agree

\* A beginning of a beginning is one.
LEMMA PrefixOfPrefix ==
  ASSUME NEW s \in Lists, NEW t \in Lists, NEW u \in Lists, Prefix(s, t), Prefix(t, u)
  PROVE  Prefix(s, u)
  <1>1. Len(s) \in Nat /\ Len(t) \in Nat /\ Len(u) \in Nat
    BY ListFacts
  <1>2. QED
    BY <1>1 DEF Agree, Prefix

\* The comparison ray_sym_load makes.
LEMMA MatchesAgree ==
  ASSUME NEW s \in Lists, NEW t \in Lists, NEW n \in Nat, n <= Len(t)
  PROVE  Matches(s, t, n) <=> Agree(s, t, n)
  <1>1. s \in Seq(Symbol) /\ t \in Seq(Symbol) /\ Len(s) \in Nat /\ Len(t) \in Nat
    BY ListFacts
  <1>2. ASSUME NEW u \in Seq(Symbol), n <= Len(u)
        PROVE  /\ SubSeq(u, 1, n) \in Seq(Symbol)
               /\ Len(SubSeq(u, 1, n)) = n
               /\ \A k \in 1 .. n : SubSeq(u, 1, n)[k] = u[k]
    <2>1. \A k \in 1 .. n : u[k] \in Symbol
      BY <1>2, ElementOfSeq, LenProperties
    <2>2. QED
      BY <1>2, <2>1, SubSeqProperties
  <1>3. CASE n <= Len(s)
    <2>1. SubSeq(s, 1, n) = SubSeq(t, 1, n) <=> \A k \in 1 .. n : s[k] = t[k]
      <3>1. ASSUME \A k \in 1 .. n : s[k] = t[k]
            PROVE  SubSeq(s, 1, n) = SubSeq(t, 1, n)
        BY <1>1, <1>2, <1>3, <3>1, SeqEqual
      <3>2. ASSUME SubSeq(s, 1, n) = SubSeq(t, 1, n)
            PROVE  \A k \in 1 .. n : s[k] = t[k]
        BY <1>1, <1>2, <1>3, <3>2
      <3>3. QED
        BY <3>1, <3>2
    <2>2. QED
      BY <1>3, <2>1 DEF Matches, Agree
  <1>4. QED
    BY <1>1, <1>3 DEF Matches, Agree

-----------------------------------------------------------------------------
(* What the steps of one process leave to the others. *)

\* Files only grow at their end.
FilesGrow ==
  \A f \in Path :
    /\ disk[f] # NoFile => disk'[f] # NoFile /\ Prefix(disk[f], disk'[f])
    /\ synced[f] # NoFile => synced'[f] # NoFile /\ Prefix(synced[f], synced'[f])

\* The memory of p is the same or has more symbols at its end.
MemGrows(p) ==
  /\ Prefix(mem[p], mem'[p])
  /\ IsInjective(mem'[p])
  /\ persisted'[p] = persisted[p]

\* A lock that p holds stays with p, and the file under it as it is.
LocksKept(p) ==
  \A f \in Path :
    /\ exclusive[f] = {p} => exclusive'[f] = {p} /\ disk'[f] = disk[f]
    /\ p \in shared[f] => p \in shared'[f] /\ disk'[f] = disk[f]

\* The parts of TypeOK one process needs.
LEMMA Types ==
  ASSUME TypeOK, NEW p \in Process
  PROVE  /\ mem[p] \in Lists
         /\ persisted[p] \in 0 .. Cardinality(Symbol)
         /\ call[p] \in Calls
         /\ \A f \in Path : disk[f] \in Lists \cup {NoFile}
         /\ \A f \in Path : synced[f] \in Lists \cup {NoFile}
  BY DEF TypeOK

\* A process that is at a point of a call has the local variables of a call.
LEMMA Frames ==
  ASSUME TypeOK, NEW p \in Process, call[p].at # "idle"
  PROVE  /\ call[p].path \in Path
         /\ call[p].cell \in 0 .. Cardinality(Symbol)
         /\ call[p].view \in Lists
         /\ call[p].i \in 0 .. Cardinality(Symbol)
  <1>1. call[p] \in Calls
    BY DEF TypeOK
  <1>2. call[p] # Idle
    BY DEF Idle
  <1>3. QED
    BY <1>1, <1>2 DEF Calls

\* A file that is read is a list.
LEMMA OnDiskType ==
  ASSUME TypeOK, NEW f \in Path
  PROVE  OnDisk(f) \in Lists /\ (disk[f] # NoFile => disk[f] \in Lists)
  BY EmptyList DEF TypeOK, OnDisk

\* What a process remembers as persisted stays on disk while files and memory grow.
LEMMA MemFrame ==
  ASSUME SymInv, TypeOK', NEW p \in Process, MemGrows(p), FilesGrow
  PROVE  MemInv(p)' /\ PersistInv(p)'
  <1>1. /\ mem[p] \in Lists /\ mem'[p] \in Lists
        /\ Len(mem[p]) \in Nat /\ Len(mem'[p]) \in Nat
        /\ persisted[p] \in Nat
    <2>1. mem[p] \in Lists /\ persisted[p] \in 0 .. Cardinality(Symbol)
      BY Types DEF SymInv
    <2>2. mem'[p] \in Lists
      BY DEF TypeOK
    <2>3. QED
      BY <2>1, <2>2, ListFacts, SymbolsCount
  <1>2. MemInv(p)'
    BY <1>1 DEF SymInv, ProcInv, MemInv, MemGrows, Prefix, Agree
  <1>3. PersistInv(p)'
    <2>1. SUFFICES ASSUME persisted[p] > 0
                   PROVE  \E f \in Path : disk'[f] # NoFile
                                            /\ Agree(disk'[f], mem'[p], persisted[p])
      BY DEF PersistInv, MemGrows
    <2>2. PICK f \in Path : disk[f] # NoFile /\ Agree(disk[f], mem[p], persisted[p])
      BY <2>1 DEF SymInv, ProcInv, PersistInv
    <2>3. disk'[f] # NoFile /\ Prefix(disk[f], disk'[f])
      BY <2>2 DEF FilesGrow
    <2>4. disk[f] \in Lists /\ disk'[f] \in Lists
      BY <2>2, <2>3 DEF SymInv, TypeOK
    <2>5. Agree(disk'[f], mem'[p], persisted[p])
      BY <1>1, <2>2, <2>3, <2>4, AgreeGrows DEF MemGrows
    <2>6. QED
      BY <2>3, <2>5
  <1>4. QED
    BY <1>2, <1>3

\* A call that is not in the middle of the step keeps what it knows.
LEMMA CallFrame ==
  ASSUME SymInv, TypeOK', NEW p \in Process, MemGrows(p), FilesGrow, LocksKept(p),
         call'[p] = call[p]
  PROVE  LockInv(p)' /\ CallInv(p)'
  <1>. DEFINE g == call[p]
  <1>1. /\ mem[p] \in Lists /\ mem'[p] \in Lists
        /\ Len(mem[p]) \in Nat /\ Len(mem'[p]) \in Nat /\ Len(mem[p]) <= Len(mem'[p])
    <2>1. mem[p] \in Lists /\ mem'[p] \in Lists
      BY DEF SymInv, TypeOK
    <2>2. QED
      BY <2>1, ListFacts DEF MemGrows, Prefix, Agree
  <1>2. LockInv(p) /\ CallInv(p)
    BY DEF SymInv, ProcInv
  <1>3. CASE g.at = "idle"
    BY <1>3 DEF LockInv, CallInv, At
  <1>4. CASE g.at # "idle"
    <2>1. /\ g.path \in Path /\ g.cell \in Nat /\ g.view \in Lists /\ g.i \in Nat
          /\ Len(g.view) \in Nat
      BY <1>4, Frames, ListFacts, SymbolsCount DEF SymInv
    <2>2. LockInv(p)'
      BY <1>2, <2>1 DEF LockInv, At, LocksKept
    <2>3. g.at \in {"merge", "rename", "sync", "intern"} => disk'[g.path] = disk[g.path]
      BY <1>2, <2>1 DEF LockInv, At, LocksKept
    <2>4. g.at \in {"save", "merge", "rename", "sync", "columns saved", "columns skipped"}
            => g.cell \in 1 .. Len(mem'[p])
      <3>1. g.at \in {"save", "merge", "rename", "sync", "columns saved", "columns skipped"}
              => g.cell \in 1 .. Len(mem[p])
        BY <1>2 DEF CallInv
      <3>2. \A n \in Nat : n \in 1 .. Len(mem[p]) => n \in 1 .. Len(mem'[p])
        BY <1>1
      <3>3. QED
        BY ONLY <2>1, <3>1, <3>2
    <2>5. g.at \in {"merge", "intern"} => Agree(g.view, mem'[p], g.i)
      <3>1. g.at \in {"merge", "intern"} => Agree(g.view, mem[p], g.i)
        BY <1>2 DEF CallInv
      <3>2. QED
        BY <1>1, <2>1, <3>1, PrefixSelf, AgreeGrows DEF MemGrows
    <2>6. g.at \in {"rename", "sync", "columns saved"} => Prefix(g.view, mem'[p])
      <3>1. g.at \in {"rename", "sync", "columns saved"} => Prefix(g.view, mem[p])
        BY <1>2 DEF CallInv
      <3>2. \A v \in Lists : Prefix(v, mem[p]) => Prefix(v, mem'[p])
        BY SMTT(30), <1>1, ListFacts DEF MemGrows, Agree, Prefix
      <3>3. QED
        BY ONLY <2>1, <3>1, <3>2
    <2>7. g.at = "columns saved" => synced'[g.path] # NoFile /\ Prefix(g.view, synced'[g.path])
      <3>1. SUFFICES ASSUME g.at = "columns saved"
                     PROVE  synced'[g.path] # NoFile /\ Prefix(g.view, synced'[g.path])
        OBVIOUS
      <3>2. synced[g.path] # NoFile /\ Prefix(g.view, synced[g.path])
        BY <1>2, <3>1 DEF CallInv
      <3>3. synced'[g.path] # NoFile /\ Prefix(synced[g.path], synced'[g.path])
        BY <2>1, <3>2 DEF FilesGrow
      <3>4. synced[g.path] \in Lists /\ synced'[g.path] \in Lists
        BY <2>1, <3>2, <3>3 DEF SymInv, TypeOK
      <3>5. QED
        BY <2>1, <3>2, <3>3, <3>4, PrefixOfPrefix
    <2>8. g.at \in {"merge", "rename"} => OnDisk(g.path)' = OnDisk(g.path)
      BY <2>3 DEF OnDisk
    <2>. HIDE DEF g
    <2>9. g.at = "merge" => g.view = OnDisk(g.path)'
      BY <1>2, <2>8 DEF CallInv, g
    <2>10. g.at = "rename" => Prefix(OnDisk(g.path)', g.view)
      BY <1>2, <2>8 DEF CallInv, g
    <2>11. g.at = "intern" => disk'[g.path] # NoFile /\ g.view = disk'[g.path]
      BY <1>2, <2>3 DEF CallInv, g
    <2>12. g.at = "sync" => disk'[g.path] = g.view
      BY <1>2, <2>3 DEF CallInv, g
    <2>13. g.at = "columns skipped" => g.cell <= persisted'[p]
      BY <1>2 DEF CallInv, g, MemGrows
    <2>14. g.at \in {"rename", "sync", "columns saved"} => g.cell <= Len(g.view)
      BY <1>2 DEF CallInv, g
    <2>15. call'[p] = g /\ g' = g
      BY DEF g
    <2>16. CallInv(p)'
      BY <2>4, <2>5, <2>6, <2>7, <2>9, <2>10, <2>11, <2>12, <2>13, <2>14, <2>15
         DEF CallInv
    <2>17. QED
      BY <2>2, <2>16
  <1>5. QED
    BY <1>3, <1>4

\* A process outside its calls depends on nothing.
LEMMA IdleInv ==
  ASSUME NEW p \in Process, call'[p] = Idle
  PROVE  LockInv(p)' /\ CallInv(p)'
  BY DEF LockInv, CallInv, At, Idle

\* A process that does nothing keeps its part of the invariant.
LEMMA Undisturbed ==
  ASSUME SymInv, TypeOK', NEW p \in Process, FilesGrow, LocksKept(p),
         UNCHANGED <<mem[p], persisted[p], call[p]>>
  PROVE  ProcInv(p)'
  <1>1. MemGrows(p)
    BY PrefixSelf, Types DEF MemGrows, SymInv, ProcInv, MemInv
  <1>2. QED
    BY <1>1, MemFrame, CallFrame DEF ProcInv

\* Files that stay as they are have grown.
LEMMA FilesSame ==
  ASSUME TypeOK, UNCHANGED <<disk, synced>>
  PROVE  FilesGrow
  BY PrefixSelf DEF FilesGrow, TypeOK

\* The columns written before stay readable in what is synced.
LEMMA ColumnsFrame ==
  ASSUME SymInv, TypeOK', FilesGrow, columns' = columns
  PROVE  SavedColumnsSurvive'
  <1>1. SUFFICES ASSUME NEW c \in columns, c.by = "save"
                 PROVE  Resolves(synced'[c.path], c)
    BY DEF SavedColumnsSurvive
  <1>2. c.path \in Path /\ c.id \in 1 .. Cardinality(Symbol)
    BY DEF SymInv, TypeOK
  <1>3. Resolves(synced[c.path], c)
    BY <1>1 DEF SymInv, SavedColumnsSurvive
  <1>4. synced'[c.path] # NoFile /\ Prefix(synced[c.path], synced'[c.path])
    BY <1>2, <1>3 DEF FilesGrow, Resolves
  <1>5. synced[c.path] \in Lists /\ synced'[c.path] \in Lists
    BY <1>2, <1>3, <1>4 DEF SymInv, TypeOK, Resolves
  <1>6. /\ DOMAIN synced[c.path] = 1 .. Len(synced[c.path])
        /\ DOMAIN synced'[c.path] = 1 .. Len(synced'[c.path])
        /\ Len(synced[c.path]) \in Nat /\ Len(synced'[c.path]) \in Nat
    BY <1>5, ListFacts, LenProperties
  <1>7. QED
    BY <1>2, <1>3, <1>4, <1>6 DEF Resolves, Prefix, Agree

-----------------------------------------------------------------------------
(* Locks and calls keep their types. *)

LocksType ==
  /\ exclusive \in [Path -> {{}} \cup {{p} : p \in Process}]
  /\ shared \in [Path -> SUBSET Process]
  /\ \A f \in Path : exclusive[f] = {} \/ shared[f] = {}

Points == {"save", "merge", "rename", "sync", "columns saved", "columns skipped", "load",
           "intern"}

\* The end of a call releases its lock and nobody else's.
LEMMA UnlockFacts ==
  ASSUME TypeOK, NEW p \in Process, Unlock(p), UNCHANGED disk
  PROVE  LocksType' /\ \A q \in Process \ {p} : LocksKept(q)
  <1>1. exclusive' \in [Path -> {{}} \cup {{q} : q \in Process}]
    <2>1. ASSUME NEW f \in Path
          PROVE  exclusive[f] \ {p} \in {{}} \cup {{q} : q \in Process}
      <3>1. CASE exclusive[f] = {}
        BY <3>1
      <3>2. ASSUME NEW q \in Process, exclusive[f] = {q}
            PROVE  exclusive[f] \ {p} \in {{}} \cup {{r} : r \in Process}
        <4>1. exclusive[f] \ {p} = IF q = p THEN {} ELSE {q}
          BY <3>2
        <4>2. QED
          BY <4>1
      <3>3. QED
        BY <3>1, <3>2 DEF TypeOK
    <2>2. QED
      BY <2>1 DEF Unlock
  <1>2. shared' \in [Path -> SUBSET Process]
    BY DEF TypeOK, Unlock
  <1>3. \A f \in Path : exclusive'[f] = {} \/ shared'[f] = {}
    BY DEF TypeOK, Unlock
  <1>4. \A q \in Process \ {p} : LocksKept(q)
    BY DEF Unlock, LocksKept
  <1>5. QED
    BY <1>1, <1>2, <1>3, <1>4 DEF LocksType

\* A process moves on, and no other.
LEMMA CallSet ==
  ASSUME TypeOK, NEW p \in Process, NEW c \in Calls, call' = [call EXCEPT ![p] = c]
  PROVE  /\ call' \in [Process -> Calls]
         /\ call'[p] = c
         /\ \A q \in Process \ {p} : call'[q] = call[q]
  <1>1. call \in [Process -> Calls]
    BY DEF TypeOK
  <1>2. QED
    BY <1>1

\* The local variables of a call.
LEMMA FrameFacts ==
  ASSUME NEW at \in Points, NEW f \in Path, NEW c \in 0 .. Cardinality(Symbol),
         NEW list \in Lists, NEW n \in 0 .. Cardinality(Symbol)
  PROVE  /\ Frame(at, f, c, list, n) \in Calls
         /\ Frame(at, f, c, list, n).at = at
         /\ Frame(at, f, c, list, n).path = f
         /\ Frame(at, f, c, list, n).cell = c
         /\ Frame(at, f, c, list, n).view = list
         /\ Frame(at, f, c, list, n).i = n
  BY DEF Frame, Calls, Points

\* A call that moves to another point keeps its local variables.
LEMMA GotoFacts ==
  ASSUME TypeOK, NEW p \in Process, call[p].at # "idle", NEW l \in Points, Goto(p, l)
  PROVE  /\ call' \in [Process -> Calls]
         /\ \A q \in Process \ {p} : call'[q] = call[q]
         /\ call'[p].at = l
         /\ call'[p].path = call[p].path
         /\ call'[p].cell = call[p].cell
         /\ call'[p].view = call[p].view
  <1>1. call[p] \in Calls /\ call[p] # Idle /\ call \in [Process -> Calls]
    <2>1. call[p] # Idle
      BY DEF Idle
    <2>2. QED
      BY <2>1 DEF TypeOK
  <1>. DEFINE c == [call[p] EXCEPT !.at = l]
  <1>2. /\ c \in Calls /\ c.at = l /\ c.path = call[p].path
        /\ c.cell = call[p].cell /\ c.view = call[p].view
    BY <1>1 DEF Calls, Points
  <1>3. call' = [call EXCEPT ![p] = c]
    BY DEF Goto
  <1>4. QED
    BY <1>1, <1>2, <1>3, CallSet

\* A step of p keeps the invariant when p keeps its part, and the files, the
\* columns and the other processes theirs.
LEMMA StepOfOne ==
  ASSUME SymInv, TypeOK', NEW p \in Process, FilesGrow, FileInv',
         SavedColumnsSurvive', ProcInv(p)',
         \A q \in Process \ {p} :
           LocksKept(q) /\ UNCHANGED <<mem[q], persisted[q], call[q]>>
  PROVE  SymInv'
  BY Undisturbed DEF SymInv

\* The same for a step that leaves the files and the columns alone.
LEMMA StepOnMemory ==
  ASSUME SymInv, TypeOK', NEW p \in Process, UNCHANGED files, ProcInv(p)',
         \A q \in Process \ {p} :
           LocksKept(q) /\ UNCHANGED <<mem[q], persisted[q], call[q]>>
  PROVE  SymInv'
  <1>1. FilesGrow
    BY FilesSame DEF files, SymInv
  <1>2. FileInv'
    BY DEF files, SymInv, FileInv
  <1>3. SavedColumnsSurvive'
    BY <1>1, ColumnsFrame DEF files
  <1>4. QED
    BY <1>1, <1>2, <1>3, StepOfOne

\* A step of p that does not touch its memory keeps what it remembers.
LEMMA MemorySame ==
  ASSUME SymInv, TypeOK', NEW p \in Process, UNCHANGED <<mem[p], persisted[p]>>, FilesGrow
  PROVE  MemInv(p)' /\ PersistInv(p)'
  <1>1. MemGrows(p)
    BY PrefixSelf, Types DEF MemGrows, SymInv, ProcInv, MemInv
  <1>2. QED
    BY <1>1, MemFrame

-----------------------------------------------------------------------------
(* The steps. *)

\* ray_sym_intern, also in the middle of a save or load of its process.
LEMMA StepIntern ==
  ASSUME SymInv, NEW p \in Process, NEW s \in Symbol, Intern(p, s)
  PROVE  SymInv'
  <1>. USE DEF files, locks
  <1>1. /\ mem[p] \in Lists /\ IsInjective(mem[p])
        /\ mem \in [Process -> Lists]
    BY DEF SymInv, TypeOK, ProcInv, MemInv
  <1>2. /\ Append(mem[p], s) \in Lists /\ IsInjective(Append(mem[p], s))
        /\ Prefix(mem[p], Append(mem[p], s))
    BY <1>1, AppendDistinct DEF Intern
  <1>3. mem' = [mem EXCEPT ![p] = Append(mem[p], s)]
    BY DEF Intern
  <1>4. mem' \in [Process -> Lists] /\ mem'[p] = Append(mem[p], s)
    BY <1>1, <1>2, <1>3
  <1>5. TypeOK'
    BY <1>4 DEF SymInv, TypeOK, Intern
  <1>6. MemGrows(p) /\ FilesGrow
    BY <1>2, <1>4, FilesSame DEF MemGrows, Intern, SymInv
  <1>7. \A q \in Process : LocksKept(q) /\ UNCHANGED call[q]
    BY DEF LocksKept, Intern
  <1>8. ProcInv(p)'
    BY <1>5, <1>6, <1>7, MemFrame, CallFrame DEF ProcInv
  <1>9. \A q \in Process \ {p} : UNCHANGED <<mem[q], persisted[q]>>
    BY <1>1, <1>3 DEF Intern
  <1>10. QED
    BY <1>5, <1>7, <1>8, <1>9, StepOnMemory DEF Intern

\* The start of ray_splay_save, with or without the symbol file.
LEMMA StepSaveStart ==
  ASSUME SymInv, NEW p \in Process, NEW f \in Path, SaveStart(p, f)
  PROVE  SymInv'
  <1>. USE DEF files, locks
  <1>1. PICK c \in DOMAIN mem[p] :
          call' = [call EXCEPT ![p] =
            Frame(IF persisted[p] = Len(mem[p]) THEN "columns skipped" ELSE "save",
                  f, c, <<>>, 0)]
    BY DEF SaveStart
  <1>. DEFINE at == IF persisted[p] = Len(mem[p]) THEN "columns skipped" ELSE "save"
  <1>2. mem[p] \in Lists /\ Len(mem[p]) \in 0 .. Cardinality(Symbol)
    BY Types, ListFacts DEF SymInv
  <1>3. c \in 1 .. Len(mem[p])
    BY <1>2, ListFacts, LenProperties
  <1>4. c \in 0 .. Cardinality(Symbol) /\ 0 \in 0 .. Cardinality(Symbol)
    BY <1>2, <1>3, SymbolsCount
  <1>5. at \in Points
    BY DEF Points
  <1>. HIDE DEF at
  <1>. DEFINE g == Frame(at, f, c, <<>>, 0)
  <1>6. g \in Calls /\ g.at = at /\ g.path = f /\ g.cell = c
    BY <1>4, <1>5, EmptyList, FrameFacts
  <1>7. /\ call' \in [Process -> Calls] /\ call'[p] = g
        /\ \A q \in Process \ {p} : call'[q] = call[q]
    BY <1>1, <1>6, CallSet DEF SymInv, at
  <1>8. TypeOK'
    <2>1. ops' \in 0 .. MaxOps
      <3>1. ops < MaxOps /\ ops' = ops + 1
        BY DEF SaveStart
      <3>2. ops \in 0 .. MaxOps /\ MaxOps \in Nat
        BY SymAssumption DEF SymInv, TypeOK
      <3>3. QED
        BY <3>1, <3>2
    <2>2. QED
      BY <1>7, <2>1 DEF SymInv, TypeOK, SaveStart
  <1>9. \A q \in Process : LocksKept(q) /\ UNCHANGED <<mem[q], persisted[q]>>
    BY DEF LocksKept, SaveStart
  <1>10. MemInv(p)' /\ PersistInv(p)'
    BY <1>8, <1>9, FilesSame, MemorySame DEF SaveStart, SymInv
  <1>11. LockInv(p)' /\ CallInv(p)'
    <2>. HIDE DEF g
    <2>1. call'[p].at = at /\ call'[p].cell = c
      BY <1>6, <1>7
    <2>2. persisted[p] = Len(mem[p]) => c <= persisted'[p]
      BY <1>2, <1>3, <1>9
    <2>. USE DEF at
    <2>3. c \in 1 .. Len(mem'[p])
      BY <1>3, <1>9
    <2>4. QED
      BY <2>1, <2>2, <2>3 DEF LockInv, CallInv, At
  <1>12. QED
    BY <1>7, <1>8, <1>9, <1>10, <1>11, StepOnMemory DEF ProcInv, SaveStart

\* The start of ray_sym_load.
LEMMA StepLoadStart ==
  ASSUME SymInv, NEW p \in Process, NEW f \in Path, LoadStart(p, f)
  PROVE  SymInv'
  <1>. USE DEF files, locks
  <1>. DEFINE g == Frame("load", f, 0, <<>>, 0)
  <1>1. 0 \in 0 .. Cardinality(Symbol) /\ "load" \in Points
    BY SymbolsCount DEF Points
  <1>2. g \in Calls /\ g.at = "load"
    BY <1>1, EmptyList, FrameFacts
  <1>3. /\ call' \in [Process -> Calls] /\ call'[p] = g
        /\ \A q \in Process \ {p} : call'[q] = call[q]
    BY <1>2, CallSet DEF SymInv, LoadStart
  <1>4. TypeOK'
    <2>1. ops' \in 0 .. MaxOps
      BY SymAssumption DEF SymInv, TypeOK, LoadStart
    <2>2. QED
      BY <1>3, <2>1 DEF SymInv, TypeOK, LoadStart
  <1>5. \A q \in Process : LocksKept(q) /\ UNCHANGED <<mem[q], persisted[q]>>
    BY DEF LocksKept, LoadStart
  <1>6. MemInv(p)' /\ PersistInv(p)'
    BY <1>4, <1>5, FilesSame, MemorySame DEF LoadStart, SymInv
  <1>7. LockInv(p)' /\ CallInv(p)'
    BY <1>2, <1>3 DEF LockInv, CallInv, At
  <1>8. QED
    BY <1>3, <1>4, <1>5, <1>6, <1>7, StepOnMemory DEF ProcInv, LoadStart

\* The lock of a save, and the file as it is.
LEMMA StepSaveLock ==
  ASSUME SymInv, NEW p \in Process, SaveLock(p)
  PROVE  SymInv'
  <1>. USE DEF files, locks
  <1>. DEFINE f == call[p].path
              g == Frame("merge", f, call[p].cell, OnDisk(f), 0)
  <1>1. TypeOK /\ call[p].at = "save"
    BY DEF SymInv, SaveLock, At
  <1>2. f \in Path /\ call[p].cell \in 0 .. Cardinality(Symbol)
    BY <1>1, Frames
  <1>3. 0 \in 0 .. Cardinality(Symbol) /\ "merge" \in Points /\ OnDisk(f) \in Lists
    BY <1>1, <1>2, SymbolsCount, OnDiskType DEF Points
  <1>4. /\ g \in Calls /\ g.at = "merge" /\ g.path = f /\ g.cell = call[p].cell
        /\ g.view = OnDisk(f) /\ g.i = 0
    BY <1>2, <1>3, FrameFacts
  <1>5. /\ call' \in [Process -> Calls] /\ call'[p] = g
        /\ \A q \in Process \ {p} : call'[q] = call[q]
    BY <1>1, <1>4, CallSet DEF SaveLock
  <1>6. exclusive[f] = {} /\ shared[f] = {} /\ exclusive' = [exclusive EXCEPT ![f] = {p}]
    BY DEF SaveLock
  <1>7. UNCHANGED <<files, shared, mem, persisted, ops, lost>>
    BY DEF SaveLock
  <1>. HIDE DEF f, g
  <1>8. LocksType'
    BY <1>1, <1>2, <1>6, <1>7 DEF TypeOK, LocksType
  <1>9. TypeOK'
    BY <1>1, <1>5, <1>7, <1>8 DEF TypeOK, LocksType
  <1>10. \A q \in Process \ {p} : LocksKept(q)
    BY <1>1, <1>2, <1>6, <1>7 DEF TypeOK, LocksKept
  <1>11. MemInv(p)' /\ PersistInv(p)'
    BY <1>1, <1>7, <1>9, FilesSame, MemorySame
  <1>12. LockInv(p)'
    BY <1>1, <1>2, <1>4, <1>5, <1>6 DEF TypeOK, LockInv, At
  <1>13. CallInv(p)'
    <2>1. call[p].cell \in 1 .. Len(mem'[p])
      BY <1>1, <1>7 DEF SymInv, ProcInv, CallInv
    <2>2. OnDisk(call[p].path)' = OnDisk(f)
      BY <1>4, <1>5, <1>7 DEF OnDisk
    <2>3. Agree(g.view, mem'[p], g.i)
      <3>1. Len(g.view) \in Nat /\ Len(mem'[p]) \in Nat
        BY <1>3, <1>4, <1>7, <1>9, ListFacts DEF TypeOK
      <3>2. QED
        BY <1>4, <3>1 DEF Agree
    <2>4. QED
      BY <1>4, <1>5, <2>1, <2>2, <2>3 DEF CallInv
  <1>14. QED
    BY <1>5, <1>7, <1>9, <1>10, <1>11, <1>12, <1>13, StepOnMemory DEF ProcInv

\* One entry of the file is interned; the call goes on only if it got the position
\* it has in the file.
LEMMA StepInternEntry ==
  ASSUME SymInv, NEW p \in Process, call[p].at \in {"merge", "intern"}, InternEntry(p)
  PROVE  SymInv'
  <1>. USE DEF files, locks
  <1>. DEFINE list == call[p].view
              n == call[p].i + 1
              s == list[n]
  <1>1. TypeOK /\ call[p] \in Calls /\ call \in [Process -> Calls]
    BY DEF SymInv, TypeOK
  <1>2. /\ call[p].path \in Path /\ call[p].cell \in 0 .. Cardinality(Symbol)
        /\ list \in Lists /\ call[p].i \in 0 .. Cardinality(Symbol)
    BY <1>1, Frames
  <1>3. list \in Seq(Symbol) /\ Len(list) \in 0 .. Cardinality(Symbol)
    BY <1>2, ListFacts
  <1>4. n \in 1 .. Len(list) /\ n \in 0 .. Cardinality(Symbol)
    BY <1>2, <1>3, SymbolsCount DEF InternEntry
  <1>5. s \in Symbol
    BY <1>3, <1>4, ElementOfSeq
  <1>6. mem[p] \in Lists /\ IsInjective(mem[p]) /\ mem \in [Process -> Lists]
    BY <1>1 DEF TypeOK, SymInv, ProcInv, MemInv
  <1>7. /\ mem' = [mem EXCEPT ![p] = Interned(mem[p], s)]
        /\ UNCHANGED <<files, persisted, ops, lost>>
    BY DEF InternEntry
  <1>8. mem' \in [Process -> Lists] /\ mem'[p] = Interned(mem[p], s)
    BY <1>5, <1>6, <1>7, InternedFacts
  <1>9. /\ IsInjective(mem'[p]) /\ Prefix(mem[p], mem'[p])
        /\ IdOf(mem'[p], s) \in 1 .. Len(mem'[p])
        /\ mem'[p][IdOf(mem'[p], s)] = s
    BY <1>5, <1>6, <1>8, InternedFacts
  <1>10. MemGrows(p) /\ FilesGrow
    BY <1>1, <1>7, <1>9, FilesSame DEF MemGrows
  <1>11. \A q \in Process \ {p} : UNCHANGED <<mem[q], persisted[q]>>
    BY <1>6, <1>7
  <1>12. CASE IdOf(mem'[p], s) = n
    <2>1. call' = [call EXCEPT ![p] = [call[p] EXCEPT !.i = n]] /\ UNCHANGED locks
      BY <1>12 DEF InternEntry
    <2>. DEFINE g == [call[p] EXCEPT !.i = n]
    <2>2. call[p] # Idle
      BY DEF Idle
    <2>. HIDE DEF n
    <2>3. /\ g \in Calls /\ g.at = call[p].at /\ g.path = call[p].path
          /\ g.cell = call[p].cell /\ g.view = list /\ g.i = n
      BY <1>1, <1>4, <2>2 DEF Calls
    <2>4. /\ call' \in [Process -> Calls] /\ call'[p] = g
          /\ \A q \in Process \ {p} : call'[q] = call[q]
      BY <1>1, <2>1, <2>3, CallSet
    <2>. HIDE DEF g
    <2>5. TypeOK'
      BY <1>1, <1>7, <1>8, <2>1, <2>4 DEF TypeOK
    <2>6. \A q \in Process : LocksKept(q)
      BY <1>7, <2>1 DEF LocksKept
    <2>7. MemInv(p)' /\ PersistInv(p)'
      BY <1>10, <2>5, MemFrame
    <2>8. LockInv(p)'
      BY <1>7, <2>1, <2>3, <2>4 DEF SymInv, ProcInv, LockInv, At
    <2>9. Agree(list, mem'[p], n)
      <3>1. Agree(list, mem[p], call[p].i)
        BY DEF SymInv, ProcInv, CallInv
      <3>2. Agree(list, mem'[p], call[p].i)
        BY <1>2, <1>6, <1>8, <1>9, <3>1, PrefixSelf, AgreeGrows, SymbolsCount
      <3>3. n <= Len(mem'[p]) /\ mem'[p][n] = list[n]
        BY <1>9, <1>12
      <3>4. \A k \in 1 .. n : k \in 1 .. call[p].i \/ k = n
        BY <1>2, SymbolsCount DEF n
      <3>5. QED
        BY <1>4, <3>2, <3>3, <3>4 DEF Agree
    <2>10. CallInv(p)'
      <3>1. call[p].cell \in 1 .. Len(mem[p]) \/ call[p].at = "intern"
        BY DEF SymInv, ProcInv, CallInv
      <3>2. Len(mem[p]) \in Nat /\ Len(mem'[p]) \in Nat /\ Len(mem[p]) <= Len(mem'[p])
        BY <1>6, <1>8, <1>9, ListFacts DEF Prefix, Agree
      <3>3. call[p].cell \in 1 .. Len(mem'[p]) \/ call[p].at = "intern"
        BY <3>1, <3>2
      <3>4. OnDisk(call[p].path)' = OnDisk(call[p].path)
        BY <1>7, <2>3, <2>4 DEF OnDisk
      <3>5. /\ call[p].at = "merge" => list = OnDisk(call[p].path)
            /\ call[p].at = "intern" => /\ disk[call[p].path] # NoFile
                                        /\ list = disk[call[p].path]
        BY DEF SymInv, ProcInv, CallInv
      <3>6. call'[p].at \in {"merge", "intern"}
        BY <2>3, <2>4
      <3>. HIDE DEF list
      <3>7. QED
        BY <1>7, <2>3, <2>4, <2>9, <3>3, <3>4, <3>5, <3>6 DEF CallInv
    <2>11. QED
      BY <1>7, <1>11, <2>4, <2>5, <2>6, <2>7, <2>8, <2>10, StepOnMemory DEF ProcInv
  <1>13. CASE IdOf(mem'[p], s) # n
    <2>1. Unlock(p) /\ call' = [call EXCEPT ![p] = Idle]
      BY <1>13 DEF InternEntry, GiveUp, Return
    <2>2. Idle \in Calls
      BY DEF Calls
    <2>3. /\ call' \in [Process -> Calls] /\ call'[p] = Idle
          /\ \A q \in Process \ {p} : call'[q] = call[q]
      BY <1>1, <2>1, <2>2, CallSet
    <2>4. LocksType' /\ \A q \in Process \ {p} : LocksKept(q)
      BY <1>1, <1>7, <2>1, UnlockFacts
    <2>5. TypeOK'
      BY <1>1, <1>7, <1>8, <2>3, <2>4 DEF TypeOK, LocksType
    <2>6. MemInv(p)' /\ PersistInv(p)'
      BY <1>10, <2>5, MemFrame
    <2>7. LockInv(p)' /\ CallInv(p)'
      BY <2>3, IdleInv
    <2>8. QED
      BY <1>7, <1>11, <2>3, <2>4, <2>5, <2>6, <2>7, StepOnMemory DEF ProcInv
  <1>14. QED
    BY <1>12, <1>13

\* The snapshot extends what is on disk.
LEMMA StepSaveSnapshot ==
  ASSUME SymInv, NEW p \in Process, SaveSnapshot(p)
  PROVE  SymInv'
  <1>. USE DEF files, locks
  <1>. DEFINE f == call[p].path
              g == Frame("rename", f, call[p].cell, mem[p], 0)
  <1>1. TypeOK /\ call[p].at = "merge" /\ mem[p] \in Lists
    BY DEF SymInv, TypeOK, SaveSnapshot, At
  <1>2. f \in Path /\ call[p].cell \in 0 .. Cardinality(Symbol)
    BY <1>1, Frames
  <1>3. 0 \in 0 .. Cardinality(Symbol) /\ "rename" \in Points
    BY SymbolsCount DEF Points
  <1>4. /\ g \in Calls /\ g.at = "rename" /\ g.path = f /\ g.cell = call[p].cell
        /\ g.view = mem[p]
    BY <1>1, <1>2, <1>3, FrameFacts
  <1>5. /\ call' \in [Process -> Calls] /\ call'[p] = g
        /\ \A q \in Process \ {p} : call'[q] = call[q]
    BY <1>1, <1>4, CallSet DEF SaveSnapshot
  <1>6. UNCHANGED <<files, locks, mem, persisted, ops, lost>>
    BY DEF SaveSnapshot
  <1>7. /\ exclusive[f] = {p}
        /\ call[p].cell \in 1 .. Len(mem[p])
        /\ Prefix(OnDisk(f), mem[p])
    BY <1>1 DEF SymInv, ProcInv, LockInv, CallInv, SaveSnapshot, Prefix
  <1>. HIDE DEF f, g
  <1>8. TypeOK'
    BY <1>1, <1>5, <1>6 DEF TypeOK
  <1>9. \A q \in Process : LocksKept(q)
    BY <1>6 DEF LocksKept
  <1>10. MemInv(p)' /\ PersistInv(p)'
    BY <1>1, <1>6, <1>8, FilesSame, MemorySame
  <1>11. LockInv(p)'
    BY <1>4, <1>5, <1>6, <1>7 DEF LockInv, At
  <1>12. CallInv(p)'
    <2>1. OnDisk(call[p].path)' = OnDisk(f)
      BY <1>4, <1>5, <1>6 DEF OnDisk
    <2>2. Prefix(mem[p], mem[p]) /\ call[p].cell <= Len(mem[p])
      BY <1>1, <1>7, PrefixSelf
    <2>3. QED
      BY <1>4, <1>5, <1>6, <1>7, <2>1, <2>2 DEF CallInv
  <1>13. QED
    BY <1>5, <1>6, <1>8, <1>9, <1>10, <1>11, <1>12, StepOnMemory DEF ProcInv

\* The new file begins with the old one: whoever saved before is still served.
LEMMA StepSaveRename ==
  ASSUME SymInv, NEW p \in Process, SaveRename(p)
  PROVE  SymInv'
  <1>. USE DEF files, locks
  <1>. DEFINE f == call[p].path
              v == call[p].view
  <1>1. TypeOK /\ call[p].at = "rename" /\ mem[p] \in Lists
    BY DEF SymInv, TypeOK, SaveRename, At
  <1>2. /\ f \in Path /\ v \in Lists /\ v # NoFile
        /\ Prefix(OnDisk(f), v) /\ exclusive[f] = {p}
        /\ call[p].cell \in 1 .. Len(mem[p]) /\ call[p].cell <= Len(v)
        /\ Prefix(v, mem[p])
    <2>1. f \in Path /\ v \in Lists
      BY <1>1, Frames
    <2>2. QED
      BY <1>1, <2>1, NoFileAssumption DEF SymInv, ProcInv, LockInv, CallInv
  <1>3. disk' = [disk EXCEPT ![f] = v] /\ Goto(p, "sync")
    BY DEF SaveRename
  <1>4. UNCHANGED <<synced, columns, locks, mem, persisted, ops, lost>>
    BY DEF SaveRename
  <1>5. /\ call' \in [Process -> Calls] /\ call'[p].at = "sync"
        /\ call'[p].path = f /\ call'[p].cell = call[p].cell /\ call'[p].view = v
        /\ \A q \in Process \ {p} : call'[q] = call[q]
    BY <1>1, <1>3, GotoFacts DEF Points
  <1>. HIDE DEF f, v
  <1>6. disk' \in [Path -> Lists \cup {NoFile}] /\ disk'[f] = v
    BY <1>1, <1>2, <1>3 DEF TypeOK
  <1>7. TypeOK'
    BY <1>1, <1>4, <1>5, <1>6 DEF TypeOK
  <1>8. \A h \in Path \ {f} : disk'[h] = disk[h]
    BY <1>1, <1>2, <1>3 DEF TypeOK
  <1>9. FilesGrow
    <2>1. disk[f] # NoFile => disk'[f] # NoFile /\ Prefix(disk[f], disk'[f])
      BY <1>2, <1>6 DEF OnDisk
    <2>2. \A h \in Path : disk[h] # NoFile => disk'[h] # NoFile /\ Prefix(disk[h], disk'[h])
      BY <1>1, <1>8, <2>1, PrefixSelf DEF TypeOK
    <2>3. \A h \in Path : synced[h] # NoFile => Prefix(synced[h], synced[h])
      BY <1>1, PrefixSelf DEF TypeOK
    <2>4. QED
      BY <1>4, <2>2, <2>3 DEF FilesGrow
  <1>10. FileInv'
    <2>1. SUFFICES ASSUME NEW h \in Path, synced[h] # NoFile
                   PROVE  disk'[h] # NoFile /\ Prefix(synced[h], disk'[h])
      BY <1>4 DEF FileInv
    <2>2. disk[h] # NoFile /\ Prefix(synced[h], disk[h])
      BY <2>1 DEF SymInv, FileInv
    <2>3. disk'[h] # NoFile /\ Prefix(disk[h], disk'[h])
      BY <1>9, <2>2 DEF FilesGrow
    <2>4. synced[h] \in Lists /\ disk[h] \in Lists /\ disk'[h] \in Lists
      BY <1>1, <1>6, <2>1, <2>2, <2>3 DEF TypeOK
    <2>5. QED
      BY <2>2, <2>3, <2>4, ListFacts DEF Prefix, Agree
  <1>11. SavedColumnsSurvive'
    BY <1>4, <1>7, <1>9, ColumnsFrame
  <1>12. \A q \in Process \ {p} : LocksKept(q)
    BY <1>1, <1>2, <1>4, <1>8 DEF TypeOK, LocksKept
  <1>13. MemInv(p)' /\ PersistInv(p)'
    BY <1>4, <1>7, <1>9, MemorySame
  <1>14. LockInv(p)'
    BY <1>2, <1>4, <1>5 DEF LockInv, At
  <1>15. CallInv(p)'
    BY <1>2, <1>4, <1>5, <1>6 DEF CallInv
  <1>16. QED
    BY <1>4, <1>5, <1>7, <1>9, <1>10, <1>11, <1>12, <1>13, <1>14, <1>15, StepOfOne
       DEF ProcInv

\* After the sync a power failure keeps the file; then the lock is released.
LEMMA StepSaveSync ==
  ASSUME SymInv, NEW p \in Process, SaveSync(p)
  PROVE  SymInv'
  <1>. USE DEF files, locks
  <1>. DEFINE f == call[p].path
              v == call[p].view
  <1>1. TypeOK /\ call[p].at = "sync" /\ mem[p] \in Lists
    BY DEF SymInv, TypeOK, SaveSync, At
  <1>2. /\ f \in Path /\ v \in Lists /\ v # NoFile /\ disk[f] = v
        /\ call[p].cell \in 1 .. Len(mem[p]) /\ call[p].cell <= Len(v)
        /\ Prefix(v, mem[p])
    <2>1. f \in Path /\ v \in Lists
      BY <1>1, Frames
    <2>2. QED
      BY <1>1, <2>1, NoFileAssumption DEF SymInv, ProcInv, LockInv, CallInv
  <1>3. /\ synced' = [synced EXCEPT ![f] = disk[f]]
        /\ persisted' = [persisted EXCEPT ![p] = Len(v)]
        /\ Unlock(p) /\ Goto(p, "columns saved")
        /\ UNCHANGED <<disk, columns, mem, ops, lost>>
    BY DEF SaveSync
  <1>4. /\ call' \in [Process -> Calls] /\ call'[p].at = "columns saved"
        /\ call'[p].path = f /\ call'[p].cell = call[p].cell /\ call'[p].view = v
        /\ \A q \in Process \ {p} : call'[q] = call[q]
    BY <1>1, <1>3, GotoFacts DEF Points
  <1>. HIDE DEF f, v
  <1>5. LocksType' /\ \A q \in Process \ {p} : LocksKept(q)
    BY <1>1, <1>3, UnlockFacts
  <1>6. /\ synced' \in [Path -> Lists \cup {NoFile}] /\ synced'[f] = disk[f]
        /\ \A h \in Path \ {f} : synced'[h] = synced[h]
    BY <1>1, <1>2, <1>3 DEF TypeOK
  <1>7. Len(v) \in 0 .. Cardinality(Symbol)
    BY <1>2, ListFacts
  <1>8. /\ persisted' \in [Process -> 0 .. Cardinality(Symbol)] /\ persisted'[p] = Len(v)
        /\ \A q \in Process \ {p} : persisted'[q] = persisted[q]
    BY <1>1, <1>3, <1>7 DEF TypeOK
  <1>9. TypeOK'
    BY <1>1, <1>3, <1>4, <1>5, <1>6, <1>8 DEF TypeOK, LocksType
  <1>10. FileInv'
    BY <1>1, <1>2, <1>3, <1>6, PrefixSelf DEF SymInv, FileInv
  <1>11. FilesGrow
    <2>1. synced[f] # NoFile => synced'[f] # NoFile /\ Prefix(synced[f], synced'[f])
      BY <1>2, <1>6 DEF SymInv, FileInv
    <2>2. \A h \in Path : synced[h] # NoFile =>
            synced'[h] # NoFile /\ Prefix(synced[h], synced'[h])
      BY <1>1, <1>6, <2>1, PrefixSelf DEF TypeOK
    <2>3. \A h \in Path : disk[h] # NoFile => Prefix(disk[h], disk[h])
      BY <1>1, PrefixSelf DEF TypeOK
    <2>4. QED
      BY <1>3, <2>2, <2>3 DEF FilesGrow
  <1>12. SavedColumnsSurvive'
    BY <1>3, <1>9, <1>11, ColumnsFrame
  <1>13. MemInv(p)'
    BY <1>2, <1>3, <1>8 DEF SymInv, ProcInv, MemInv, Prefix, Agree
  <1>14. PersistInv(p)'
    BY <1>2, <1>3, <1>8, PrefixSelf DEF PersistInv, Prefix, Agree
  <1>15. LockInv(p)'
    BY <1>4 DEF LockInv, At
  <1>16. CallInv(p)'
    BY <1>2, <1>3, <1>4, <1>6, PrefixSelf DEF CallInv
  <1>17. QED
    BY <1>3, <1>4, <1>5, <1>8, <1>9, <1>10, <1>11, <1>12, <1>13, <1>14, <1>15, <1>16,
       StepOfOne DEF ProcInv

\* The column is written for a symbol that is in the file.
LEMMA StepWriteColumns ==
  ASSUME SymInv, NEW p \in Process, WriteColumns(p)
  PROVE  SymInv'
  <1>. USE DEF files, locks
  <1>. DEFINE k == call[p]
              c == [path |-> k.path, id |-> k.cell, sym |-> mem[p][k.cell],
                    by |-> IF At(p, "columns saved") THEN "save" ELSE "skip"]
  <1>1. TypeOK /\ k.at \in {"columns saved", "columns skipped"} /\ mem[p] \in Lists
    BY DEF SymInv, TypeOK, WriteColumns, At
  <1>2. k.path \in Path /\ k.view \in Lists /\ k.cell \in 1 .. Len(mem[p])
    BY <1>1, Frames DEF SymInv, ProcInv, CallInv
  <1>3. columns' = columns \cup {c} /\ call' = [call EXCEPT ![p] = Idle]
    BY DEF WriteColumns, Return
  <1>4. UNCHANGED <<disk, synced, locks, mem, persisted, ops, lost>>
    BY DEF WriteColumns
  <1>5. /\ call' \in [Process -> Calls] /\ call'[p] = Idle
        /\ \A q \in Process \ {p} : call'[q] = call[q]
    BY <1>1, <1>3, CallSet DEF Calls
  <1>6. mem[p] \in Seq(Symbol) /\ Len(mem[p]) \in 0 .. Cardinality(Symbol)
    BY <1>1, ListFacts
  <1>7. k.cell \in 1 .. Cardinality(Symbol) /\ mem[p][k.cell] \in Symbol
    BY <1>2, <1>6, SymbolsCount, ElementOfSeq
  <1>8. c \in [path : Path, id : 1 .. Cardinality(Symbol), sym : Symbol, by : {"save", "skip"}]
    BY <1>2, <1>7
  <1>9. TypeOK'
    BY <1>1, <1>3, <1>4, <1>5, <1>8 DEF TypeOK
  <1>10. c.by = "save" => Resolves(synced[c.path], c)
    <2>1. SUFFICES ASSUME k.at = "columns saved"
                   PROVE  Resolves(synced[k.path], c)
      BY DEF At
    <2>2. /\ Prefix(k.view, mem[p]) /\ k.cell <= Len(k.view)
          /\ synced[k.path] # NoFile /\ Prefix(k.view, synced[k.path])
      BY <2>1 DEF SymInv, ProcInv, CallInv
    <2>3. synced[k.path] \in Lists
      BY <1>1, <1>2, <2>2 DEF TypeOK
    <2>4. /\ DOMAIN synced[k.path] = 1 .. Len(synced[k.path])
          /\ Len(synced[k.path]) \in Nat /\ Len(k.view) \in Nat
      BY <1>2, <2>3, ListFacts, LenProperties
    <2>5. k.cell \in 1 .. Len(k.view) /\ k.cell \in 1 .. Len(synced[k.path])
      BY <1>2, <2>2, <2>4 DEF Prefix, Agree
    <2>6. synced[k.path][k.cell] = mem[p][k.cell]
      BY <2>2, <2>5 DEF Prefix, Agree
    <2>7. QED
      BY <2>2, <2>4, <2>5, <2>6 DEF Resolves
  <1>. HIDE DEF c
  <1>11. SavedColumnsSurvive'
    BY <1>3, <1>4, <1>10 DEF SymInv, SavedColumnsSurvive
  <1>12. FilesGrow /\ FileInv'
    BY <1>1, <1>4, FilesSame DEF SymInv, FileInv
  <1>13. \A q \in Process : LocksKept(q)
    BY <1>4 DEF LocksKept
  <1>14. MemInv(p)' /\ PersistInv(p)'
    BY <1>4, <1>9, <1>12, MemorySame
  <1>15. LockInv(p)' /\ CallInv(p)'
    BY <1>5, IdleInv
  <1>16. QED
    BY <1>4, <1>5, <1>9, <1>11, <1>12, <1>13, <1>14, <1>15, StepOfOne DEF ProcInv

\* The shared lock and the list: what was loaded before is its beginning.
LEMMA StepLoadLock ==
  ASSUME SymInv, NEW p \in Process, LoadLock(p)
  PROVE  SymInv'
  <1>. USE DEF files, locks
  <1>. DEFINE f == call[p].path
              n == persisted[p]
              found == disk[f] # NoFile /\ Matches(disk[f], mem[p], n)
              g == Frame("intern", f, 0, disk[f], n)
  <1>1. /\ TypeOK /\ call[p].at = "load" /\ mem[p] \in Lists
        /\ n \in 0 .. Cardinality(Symbol) /\ n <= Len(mem[p])
    BY DEF SymInv, TypeOK, ProcInv, MemInv, LoadLock, At
  <1>2. f \in Path
    BY <1>1, Frames
  <1>3. UNCHANGED <<files, exclusive, mem, persisted, ops, lost>> /\ exclusive[f] = {}
    BY DEF LoadLock
  <1>4. FilesGrow
    BY <1>1, <1>3, FilesSame
  <1>5. CASE found
    <2>1. /\ shared' = [shared EXCEPT ![f] = @ \cup {p}]
          /\ call' = [call EXCEPT ![p] = g]
      BY <1>5 DEF LoadLock
    <2>2. disk[f] \in Lists
      BY <1>1, <1>2, <1>5, OnDiskType
    <2>3. 0 \in 0 .. Cardinality(Symbol) /\ "intern" \in Points
      BY SymbolsCount DEF Points
    <2>4. /\ g \in Calls /\ g.at = "intern" /\ g.path = f
          /\ g.view = disk[f] /\ g.i = n
      BY <1>1, <1>2, <2>2, <2>3, FrameFacts
    <2>5. /\ call' \in [Process -> Calls] /\ call'[p] = g
          /\ \A q \in Process \ {p} : call'[q] = call[q]
      BY <1>1, <2>1, <2>4, CallSet
    <2>6. Agree(disk[f], mem[p], n)
      BY <1>1, <1>5, <2>2, MatchesAgree, SymbolsCount
    <2>. HIDE DEF f, n, g
    <2>7. LocksType'
      BY <1>1, <1>2, <1>3, <2>1 DEF TypeOK, LocksType
    <2>8. TypeOK'
      BY <1>1, <1>3, <2>5, <2>7 DEF TypeOK, LocksType
    <2>9. \A q \in Process \ {p} : LocksKept(q)
      BY <1>1, <1>2, <1>3, <2>1 DEF TypeOK, LocksKept
    <2>10. MemInv(p)' /\ PersistInv(p)'
      BY <1>3, <1>4, <2>8, MemorySame
    <2>11. LockInv(p)'
      BY <1>1, <1>2, <2>1, <2>4, <2>5 DEF TypeOK, LockInv, At
    <2>12. CallInv(p)'
      BY <1>3, <1>5, <2>4, <2>5, <2>6 DEF CallInv
    <2>13. QED
      BY <1>3, <2>5, <2>8, <2>9, <2>10, <2>11, <2>12, StepOnMemory DEF ProcInv
  <1>6. CASE ~found
    <2>1. call' = [call EXCEPT ![p] = Idle] /\ UNCHANGED shared
      BY <1>6 DEF LoadLock, Return
    <2>2. /\ call' \in [Process -> Calls] /\ call'[p] = Idle
          /\ \A q \in Process \ {p} : call'[q] = call[q]
      BY <1>1, <2>1, CallSet DEF Calls
    <2>3. TypeOK'
      BY <1>1, <1>3, <2>1, <2>2 DEF TypeOK
    <2>4. \A q \in Process : LocksKept(q)
      BY <1>3, <2>1 DEF LocksKept
    <2>5. MemInv(p)' /\ PersistInv(p)'
      BY <1>3, <1>4, <2>3, MemorySame
    <2>6. LockInv(p)' /\ CallInv(p)'
      BY <2>2, IdleInv
    <2>7. QED
      BY <1>3, <2>2, <2>3, <2>4, <2>5, <2>6, StepOnMemory DEF ProcInv
  <1>7. QED
    BY <1>5, <1>6

\* Everything that was read is in memory at its position.
LEMMA StepLoadDone ==
  ASSUME SymInv, NEW p \in Process, LoadDone(p)
  PROVE  SymInv'
  <1>. USE DEF files, locks
  <1>. DEFINE f == call[p].path
              v == call[p].view
  <1>1. TypeOK /\ call[p].at = "intern" /\ mem[p] \in Lists
    BY DEF SymInv, TypeOK, LoadDone, At
  <1>2. f \in Path /\ v \in Lists /\ disk[f] # NoFile /\ v = disk[f] /\ Prefix(v, mem[p])
    <2>1. f \in Path /\ v \in Lists
      BY <1>1, Frames
    <2>2. disk[f] # NoFile /\ v = disk[f] /\ Agree(v, mem[p], call[p].i)
      BY <1>1 DEF SymInv, ProcInv, CallInv
    <2>3. call[p].i = Len(v)
      BY DEF LoadDone
    <2>4. QED
      BY <2>1, <2>2, <2>3 DEF Prefix
  <1>3. /\ persisted' = [persisted EXCEPT ![p] = Len(v)]
        /\ Unlock(p) /\ call' = [call EXCEPT ![p] = Idle]
        /\ UNCHANGED <<files, mem, ops, lost>>
    BY DEF LoadDone, GiveUp, Return
  <1>4. /\ call' \in [Process -> Calls] /\ call'[p] = Idle
        /\ \A q \in Process \ {p} : call'[q] = call[q]
    BY <1>1, <1>3, CallSet DEF Calls
  <1>. HIDE DEF f, v
  <1>5. LocksType' /\ \A q \in Process \ {p} : LocksKept(q)
    BY <1>1, <1>3, UnlockFacts
  <1>6. Len(v) \in 0 .. Cardinality(Symbol)
    BY <1>2, ListFacts
  <1>7. /\ persisted' \in [Process -> 0 .. Cardinality(Symbol)] /\ persisted'[p] = Len(v)
        /\ \A q \in Process \ {p} : persisted'[q] = persisted[q]
    BY <1>1, <1>3, <1>6 DEF TypeOK
  <1>8. TypeOK'
    BY <1>1, <1>3, <1>4, <1>5, <1>7 DEF TypeOK, LocksType
  <1>9. MemInv(p)'
    BY <1>2, <1>3, <1>7 DEF SymInv, ProcInv, MemInv, Prefix, Agree
  <1>10. PersistInv(p)'
    BY <1>2, <1>3, <1>7 DEF PersistInv, Prefix
  <1>11. LockInv(p)' /\ CallInv(p)'
    BY <1>4, IdleInv
  <1>12. QED
    BY <1>3, <1>4, <1>5, <1>7, <1>8, <1>9, <1>10, <1>11, StepOnMemory DEF ProcInv

\* A call that fails leaves the file as far as it got.
LEMMA StepFail ==
  ASSUME SymInv, NEW p \in Process, Fail(p)
  PROVE  SymInv'
  <1>. USE DEF files, locks
  <1>1. /\ Unlock(p) /\ call' = [call EXCEPT ![p] = Idle]
        /\ UNCHANGED <<files, mem, persisted, ops, lost>>
    BY DEF Fail, GiveUp, Return
  <1>2. /\ call' \in [Process -> Calls] /\ call'[p] = Idle
        /\ \A q \in Process \ {p} : call'[q] = call[q]
    BY <1>1, CallSet DEF Calls, SymInv
  <1>3. LocksType' /\ \A q \in Process \ {p} : LocksKept(q)
    BY <1>1, UnlockFacts DEF SymInv
  <1>4. TypeOK'
    BY <1>1, <1>2, <1>3 DEF SymInv, TypeOK, LocksType
  <1>5. MemInv(p)' /\ PersistInv(p)'
    BY <1>1, <1>4, FilesSame, MemorySame DEF SymInv
  <1>6. LockInv(p)' /\ CallInv(p)'
    BY <1>2, IdleInv
  <1>7. QED
    BY <1>1, <1>2, <1>3, <1>4, <1>5, <1>6, StepOnMemory DEF ProcInv

\* Processes that end lose their memory and their locks, and nobody else's.
LEMMA DeadFacts ==
  ASSUME TypeOK, NEW P \in SUBSET Process, Dead(P)
  PROVE  /\ LocksType'
         /\ mem' \in [Process -> Lists]
         /\ persisted' \in [Process -> 0 .. Cardinality(Symbol)]
         /\ call' \in [Process -> Calls]
         /\ \A p \in P : mem'[p] = <<>> /\ persisted'[p] = 0 /\ call'[p] = Idle
         /\ \A q \in Process \ P : UNCHANGED <<mem[q], persisted[q], call[q]>>
         /\ UNCHANGED disk => \A q \in Process \ P : LocksKept(q)
  <1>1. mem' \in [Process -> Lists]
    BY EmptyList DEF TypeOK, Dead
  <1>2. persisted' \in [Process -> 0 .. Cardinality(Symbol)]
    BY SymbolsCount DEF TypeOK, Dead
  <1>3. call' \in [Process -> Calls]
    <2>1. Idle \in Calls
      BY DEF Calls
    <2>2. QED
      BY <2>1 DEF TypeOK, Dead
  <1>4. exclusive' \in [Path -> {{}} \cup {{q} : q \in Process}]
    <2>1. ASSUME NEW f \in Path
          PROVE  exclusive[f] \ P \in {{}} \cup {{q} : q \in Process}
      <3>1. CASE exclusive[f] = {}
        BY <3>1
      <3>2. ASSUME NEW q \in Process, exclusive[f] = {q}
            PROVE  exclusive[f] \ P \in {{}} \cup {{r} : r \in Process}
        <4>1. exclusive[f] \ P = IF q \in P THEN {} ELSE {q}
          BY <3>2
        <4>2. QED
          BY <4>1
      <3>3. QED
        BY <3>1, <3>2 DEF TypeOK
    <2>2. QED
      BY <2>1 DEF Dead
  <1>5. shared' \in [Path -> SUBSET Process]
    BY DEF TypeOK, Dead
  <1>6. \A f \in Path : exclusive'[f] = {} \/ shared'[f] = {}
    BY DEF TypeOK, Dead
  <1>7. \A p \in P : mem'[p] = <<>> /\ persisted'[p] = 0 /\ call'[p] = Idle
    BY DEF Dead
  <1>8. \A q \in Process \ P : UNCHANGED <<mem[q], persisted[q], call[q]>>
    BY DEF Dead
  <1>9. UNCHANGED disk => \A q \in Process \ P : LocksKept(q)
    BY DEF Dead, LocksKept
  <1>10. QED
    BY <1>1, <1>2, <1>3, <1>4, <1>5, <1>6, <1>7, <1>8, <1>9 DEF LocksType

\* A new process knows nothing.
LEMMA FreshInv ==
  ASSUME NEW p \in Process, mem'[p] = <<>>, persisted'[p] = 0, call'[p] = Idle
  PROVE  ProcInv(p)'
  <1>1. MemInv(p)' /\ PersistInv(p)'
    BY EmptyList DEF MemInv, PersistInv
  <1>2. QED
    BY <1>1, IdleInv DEF ProcInv

\* A process dies with whatever it holds, at any point.
LEMMA StepCrash ==
  ASSUME SymInv, NEW p \in Process, Crash(p)
  PROVE  SymInv'
  <1>. USE DEF files, locks
  <1>1. Dead({p}) /\ UNCHANGED <<files, ops, lost>>
    BY DEF Crash
  <1>2. /\ LocksType'
        /\ mem' \in [Process -> Lists]
        /\ persisted' \in [Process -> 0 .. Cardinality(Symbol)]
        /\ call' \in [Process -> Calls]
        /\ mem'[p] = <<>> /\ persisted'[p] = 0 /\ call'[p] = Idle
        /\ \A q \in Process \ {p} :
             LocksKept(q) /\ UNCHANGED <<mem[q], persisted[q], call[q]>>
    BY <1>1, DeadFacts DEF SymInv
  <1>3. TypeOK'
    BY <1>1, <1>2 DEF SymInv, TypeOK, LocksType
  <1>4. ProcInv(p)'
    BY <1>2, FreshInv
  <1>5. QED
    BY <1>1, <1>2, <1>3, <1>4, StepOnMemory

\* The machine stops: what was synced is there, and columns rest on no more.
LEMMA StepPowerLoss ==
  ASSUME SymInv, PowerLoss
  PROVE  SymInv'
  <1>. USE DEF files, locks
  <1>1. /\ Dead(Process) /\ disk' \in {disk, synced} /\ synced' = disk'
        /\ lost' = (lost \/ disk' # disk) /\ UNCHANGED <<columns, ops>>
    BY DEF PowerLoss
  <1>2. /\ LocksType'
        /\ mem' \in [Process -> Lists]
        /\ persisted' \in [Process -> 0 .. Cardinality(Symbol)]
        /\ call' \in [Process -> Calls]
        /\ \A p \in Process : mem'[p] = <<>> /\ persisted'[p] = 0 /\ call'[p] = Idle
    BY <1>1, DeadFacts DEF SymInv
  <1>3. disk' \in [Path -> Lists \cup {NoFile}] /\ synced' \in [Path -> Lists \cup {NoFile}]
    BY <1>1 DEF SymInv, TypeOK
  <1>4. TypeOK'
    BY <1>1, <1>2, <1>3 DEF SymInv, TypeOK, LocksType
  <1>5. \A p \in Process : ProcInv(p)'
    BY <1>2, FreshInv
  <1>6. FileInv'
    BY <1>1, <1>3, PrefixSelf DEF FileInv
  <1>7. SavedColumnsSurvive'
    <2>1. SUFFICES ASSUME NEW c \in columns, c.by = "save"
                   PROVE  Resolves(synced'[c.path], c)
      BY <1>1 DEF SavedColumnsSurvive
    <2>2. c.path \in Path /\ Resolves(synced[c.path], c)
      BY <2>1 DEF SymInv, TypeOK, SavedColumnsSurvive
    <2>3. disk[c.path] # NoFile /\ Prefix(synced[c.path], disk[c.path])
      BY <2>2 DEF SymInv, FileInv, Resolves
    <2>4. synced[c.path] \in Lists /\ disk[c.path] \in Lists
      BY <2>2, <2>3 DEF SymInv, TypeOK, Resolves
    <2>5. /\ DOMAIN synced[c.path] = 1 .. Len(synced[c.path])
          /\ DOMAIN disk[c.path] = 1 .. Len(disk[c.path])
          /\ Len(synced[c.path]) \in Nat /\ Len(disk[c.path]) \in Nat
      BY <2>4, ListFacts, LenProperties
    <2>6. Resolves(disk[c.path], c)
      BY <2>2, <2>3, <2>5 DEF Resolves, Prefix, Agree
    <2>7. QED
      BY <1>1, <2>2, <2>6
  <1>8. QED
    BY <1>4, <1>5, <1>6, <1>7 DEF SymInv

-----------------------------------------------------------------------------
(* The theorems. *)

\* No file, no process in a call, no column.
LEMMA InitInv ==
  ASSUME Init
  PROVE  SymInv
  <1>1. TypeOK
    <2>1. mem \in [Process -> Lists] /\ persisted \in [Process -> 0 .. Cardinality(Symbol)]
      BY EmptyList, SymbolsCount DEF Init
    <2>2. call \in [Process -> Calls]
      BY DEF Init, Calls
    <2>3. ops \in 0 .. MaxOps
      BY SymAssumption DEF Init
    <2>4. /\ disk \in [Path -> Lists \cup {NoFile}]
          /\ synced \in [Path -> Lists \cup {NoFile}]
          /\ exclusive \in [Path -> {{}} \cup {{p} : p \in Process}]
          /\ shared \in [Path -> SUBSET Process]
          /\ \A f \in Path : exclusive[f] = {} \/ shared[f] = {}
      BY DEF Init
    <2>5. QED
      BY <2>1, <2>2, <2>3, <2>4 DEF Init, TypeOK
  <1>2. FileInv
    BY DEF Init, FileInv
  <1>3. SavedColumnsSurvive
    BY DEF Init, SavedColumnsSurvive
  <1>4. ASSUME NEW p \in Process
        PROVE  ProcInv(p)
    <2>1. mem[p] = <<>> /\ persisted[p] = 0 /\ call[p].at = "idle"
      BY DEF Init, Idle
    <2>2. QED
      BY <2>1, EmptyList DEF ProcInv, MemInv, PersistInv, LockInv, CallInv, At
  <1>5. QED
    BY <1>1, <1>2, <1>3, <1>4 DEF SymInv

\* Every step of every process keeps the invariant.
LEMMA InvPreserved ==
  ASSUME SymInv, [Next]_vars
  PROVE  SymInv'
  <1>1. CASE UNCHANGED vars
    <2>1. UNCHANGED <<disk, synced, columns, exclusive, shared, mem, persisted, call, ops,
                      lost>>
      BY <1>1 DEF vars, files, locks, state
    <2>2. TypeOK' /\ FileInv' /\ SavedColumnsSurvive'
      BY <2>1 DEF SymInv, TypeOK, FileInv, SavedColumnsSurvive
    <2>3. ASSUME NEW p \in Process
          PROVE  ProcInv(p)'
      <3>1. FilesGrow /\ LocksKept(p)
        BY <2>1, FilesSame DEF SymInv, LocksKept
      <3>2. QED
        BY <2>1, <2>2, <3>1, Undisturbed
    <2>4. QED
      BY <2>2, <2>3 DEF SymInv
  <1>2. ASSUME NEW p \in Process, NEW s \in Symbol, Intern(p, s)
        PROVE  SymInv'
    BY <1>2, StepIntern
  <1>3. ASSUME NEW p \in Process, NEW f \in Path, SaveStart(p, f) \/ LoadStart(p, f)
        PROVE  SymInv'
    BY <1>3, StepSaveStart, StepLoadStart
  <1>4. ASSUME NEW p \in Process, Save(p)
        PROVE  SymInv'
    <2>1. CASE SaveMerge(p)
      BY <2>1, StepInternEntry DEF SaveMerge, At
    <2>2. QED
      BY <1>4, <2>1, StepSaveLock, StepSaveSnapshot, StepSaveRename, StepSaveSync,
         StepWriteColumns DEF Save
  <1>5. ASSUME NEW p \in Process, Load(p)
        PROVE  SymInv'
    <2>1. CASE LoadIntern(p)
      BY <2>1, StepInternEntry DEF LoadIntern, At
    <2>2. QED
      BY <1>5, <2>1, StepLoadLock, StepLoadDone DEF Load
  <1>6. ASSUME NEW p \in Process, Fail(p) \/ Crash(p)
        PROVE  SymInv'
    BY <1>6, StepFail, StepCrash
  <1>7. CASE PowerLoss
    BY <1>7, StepPowerLoss
  <1>8. QED
    BY <1>1, <1>2, <1>3, <1>4, <1>5, <1>6, <1>7 DEF Next

\* SymInv is an inductive invariant of the processes that share the files.
THEOREM SymInvariant == Spec => []SymInv
  <1>1. Init => SymInv
    BY InitInv
  <1>2. SymInv /\ [Next]_vars => SymInv'
    BY InvPreserved
  <1>3. QED
    BY <1>1, <1>2, PTL DEF Spec

\* What a process has loaded or saved is on disk, in the same order: no other
\* process, and no failure, drops or reorders it.
THEOREM DiskHoldsPersisted == Spec => []PersistedAgrees
  <1>1. ASSUME SymInv
        PROVE  PersistedAgrees
    <2>1. ASSUME NEW p \in Process, persisted[p] > 0
          PROVE  \E f \in Path : disk[f] # NoFile /\ Matches(disk[f], mem[p], persisted[p])
      <3>1. PICK f \in Path : disk[f] # NoFile /\ Agree(disk[f], mem[p], persisted[p])
        BY <1>1, <2>1 DEF SymInv, ProcInv, PersistInv
      <3>2. /\ disk[f] \in Lists /\ mem[p] \in Lists
            /\ persisted[p] \in Nat /\ persisted[p] <= Len(mem[p])
        BY <1>1, <3>1, SymbolsCount DEF SymInv, TypeOK, ProcInv, MemInv
      <3>3. QED
        BY <3>1, <3>2, MatchesAgree
    <2>2. QED
      BY <1>1, <2>1 DEF PersistedAgrees, SymInv
  <1>2. QED
    BY <1>1, SymInvariant, PTL

\* A table whose save wrote the symbol file can be read after a power failure at
\* any later moment, whatever other processes save to the file or fail to save.
THEOREM SavedTablesSurvive == Spec => []SavedColumnsSurvive
  <1>1. SymInv => SavedColumnsSurvive
    BY DEF SymInv
  <1>2. QED
    BY <1>1, SymInvariant, PTL

\* Symbols that are on disk stay where they are.
DiskGrows ==
  \A f \in Path : disk[f] # NoFile => disk'[f] # NoFile /\ Prefix(disk[f], disk'[f])

\* Only a rename changes what is on disk, and it extends it.
LEMMA StepsKeepFile ==
  ASSUME SymInv, [Next]_vars, ~PowerLoss
  PROVE  DiskGrows
  <1>1. CASE disk' = disk
    BY <1>1, PrefixSelf DEF DiskGrows, SymInv, TypeOK
  <1>2. ASSUME NEW p \in Process, SaveRename(p)
        PROVE  DiskGrows
    <2>. DEFINE f == call[p].path
                v == call[p].view
    <2>1. TypeOK /\ call[p].at = "rename"
      BY <1>2 DEF SymInv, SaveRename, At
    <2>2. f \in Path /\ v \in Lists
      BY <2>1, Frames
    <2>3. v # NoFile /\ Prefix(OnDisk(f), v)
      BY <2>1, <2>2, NoFileAssumption DEF SymInv, ProcInv, CallInv
    <2>4. disk' = [disk EXCEPT ![f] = v]
      BY <1>2 DEF SaveRename
    <2>. HIDE DEF f, v
    <2>5. disk'[f] = v /\ \A h \in Path \ {f} : disk'[h] = disk[h]
      BY <2>1, <2>2, <2>4 DEF TypeOK
    <2>6. disk[f] # NoFile => disk'[f] # NoFile /\ Prefix(disk[f], disk'[f])
      BY <2>3, <2>5 DEF OnDisk
    <2>7. QED
      BY <2>1, <2>5, <2>6, PrefixSelf DEF DiskGrows, TypeOK
  <1>3. disk' = disk \/ \E p \in Process : SaveRename(p)
    BY DEF Next, Intern, SaveStart, LoadStart, Save, SaveLock, SaveMerge, SaveSnapshot,
       SaveSync, WriteColumns, Load, LoadLock, LoadIntern, LoadDone, InternEntry, Fail,
       Crash, vars, files
  <1>4. QED
    BY <1>1, <1>2, <1>3

\* No save, failed save or crash of a process removes or moves a symbol that a
\* symbol file holds: only a power failure may take a file back.
THEOREM SavesKeepTheFile == Spec => [][~PowerLoss => DiskGrows]_vars
  <1>1. SymInv /\ [Next]_vars => [~PowerLoss => DiskGrows]_vars
    BY StepsKeepFile
  <1>2. QED
    BY <1>1, SymInvariant, PTL DEF Spec

-----------------------------------------------------------------------------
(* Columns whose save found nothing new to write.                          *)

\* All processes use one symbol file: what persisted_count, which is not kept by
\* file, counts is then in the file the columns are saved next to.
OneFile == \A f, g \in Path : f = g

\* A column that resolves in a list resolves in a longer one.
LEMMA ResolvesGrows ==
  ASSUME NEW s \in Lists, NEW t \in Lists \ {NoFile}, Prefix(s, t), NEW c, Resolves(s, c)
  PROVE  Resolves(t, c)
  <1>1. DOMAIN s = 1 .. Len(s) /\ DOMAIN t = 1 .. Len(t) /\ Len(s) \in Nat /\ Len(t) \in Nat
    BY ListFacts, LenProperties
  <1>2. QED
    BY <1>1 DEF Resolves, Prefix, Agree

\* A column that is written resolves in the file at that moment.
LEMMA WrittenResolves ==
  ASSUME OneFile, SymInv, SymInv', NEW p \in Process, WriteColumns(p),
         NEW c \in columns' \ columns
  PROVE  Resolves(disk'[c.path], c)
  <1>. DEFINE k == call[p]
  <1>1. /\ c = [path |-> k.path, id |-> k.cell, sym |-> mem[p][k.cell],
                by |-> IF At(p, "columns saved") THEN "save" ELSE "skip"]
        /\ UNCHANGED <<disk, synced>>
    BY DEF WriteColumns
  <1>2. TypeOK /\ k.at \in {"columns saved", "columns skipped"}
    BY DEF SymInv, WriteColumns, At
  <1>3. k.path \in Path
    BY <1>2, Frames
  <1>4. CASE k.at = "columns saved"
    <2>1. c \in columns' /\ c.by = "save" /\ c.path = k.path
      BY <1>1, <1>4 DEF At
    <2>2. Resolves(synced'[c.path], c)
      BY <2>1 DEF SymInv, SavedColumnsSurvive
    <2>3. disk'[c.path] # NoFile /\ Prefix(synced'[c.path], disk'[c.path])
      BY <1>3, <2>1, <2>2 DEF SymInv, FileInv, Resolves
    <2>4. synced'[c.path] \in Lists /\ disk'[c.path] \in Lists \ {NoFile}
      BY <1>3, <2>1, <2>2, <2>3 DEF SymInv, TypeOK, Resolves
    <2>5. QED
      BY <2>2, <2>3, <2>4, ResolvesGrows
  <1>5. CASE k.at = "columns skipped"
    <2>1. k.cell \in 1 .. Len(mem[p]) /\ k.cell <= persisted[p]
      BY <1>5 DEF SymInv, ProcInv, CallInv
    <2>2. mem[p] \in Lists /\ persisted[p] \in Nat
      <3>1. persisted \in [Process -> 0 .. Cardinality(Symbol)] /\ mem \in [Process -> Lists]
        BY ONLY <1>2 DEF TypeOK
      <3>2. persisted[p] \in 0 .. Cardinality(Symbol) /\ mem[p] \in Lists
        BY ONLY <3>1, p \in Process
      <3>3. QED
        BY ONLY <3>2, SymbolsCount
    <2>3. Len(mem[p]) \in Nat
      BY <2>2, ListFacts
    <2>4. persisted[p] > 0
      BY <2>1, <2>2, <2>3
    <2>5. PICK f \in Path : disk[f] # NoFile /\ Agree(disk[f], mem[p], persisted[p])
      BY <2>4 DEF SymInv, ProcInv, PersistInv
    <2>6. f = k.path
      BY <1>3 DEF OneFile
    <2>7. disk[f] \in Lists
      BY <1>2, <2>5 DEF TypeOK
    <2>8. DOMAIN disk[f] = 1 .. Len(disk[f]) /\ Len(disk[f]) \in Nat
      BY <2>7, ListFacts, LenProperties
    <2>9. /\ k.cell \in DOMAIN disk[f]
          /\ disk[f][k.cell] = mem[p][k.cell]
      BY SMTT(30), <2>1, <2>2, <2>3, <2>5, <2>8 DEF Agree
    <2>10. c.path = k.path /\ c.id = k.cell /\ c.sym = mem[p][k.cell]
      BY <1>1
    <2>11. QED
      BY <1>1, <2>5, <2>6, <2>9, <2>10 DEF Resolves
  <1>6. QED
    BY <1>2, <1>4, <1>5

\* Columns resolve after each step that undoes no rename.
LEMMA ResolvePreserved ==
  ASSUME OneFile, SymInv, SymInv', ColumnsResolve, [Next]_vars
  PROVE  ColumnsResolve'
  <1>1. SUFFICES ASSUME ~lost', NEW c \in columns'
                 PROVE  Resolves(disk'[c.path], c)
    BY DEF ColumnsResolve
  <1>2. ~lost /\ (PowerLoss => disk' = disk /\ columns' = columns)
    <2>1. CASE PowerLoss
      BY <1>1, <2>1 DEF PowerLoss
    <2>2. CASE ~PowerLoss
      <3>1. lost' = lost
        BY <2>2 DEF Next, Intern, SaveStart, LoadStart, Save, SaveLock, SaveMerge,
           SaveSnapshot, SaveRename, SaveSync, WriteColumns, Load, LoadLock, LoadIntern,
           LoadDone, InternEntry, Fail, Crash, vars
      <3>2. QED
        BY <1>1, <2>2, <3>1
    <2>3. QED
      BY <2>1, <2>2
  <1>3. CASE c \in columns
    <2>1. Resolves(disk[c.path], c) /\ c.path \in Path
      BY <1>2, <1>3 DEF ColumnsResolve, SymInv, TypeOK
    <2>2. CASE PowerLoss
      BY <1>2, <2>1, <2>2
    <2>3. CASE ~PowerLoss
      <3>1. disk'[c.path] # NoFile /\ Prefix(disk[c.path], disk'[c.path])
        BY <2>1, <2>3, StepsKeepFile DEF DiskGrows, Resolves
      <3>2. disk[c.path] \in Lists /\ disk'[c.path] \in Lists \ {NoFile}
        BY <2>1, <3>1 DEF SymInv, TypeOK, Resolves
      <3>3. QED
        BY <2>1, <3>1, <3>2, ResolvesGrows
    <2>4. QED
      BY <2>2, <2>3
  <1>4. CASE c \notin columns
    <2>1. PICK p \in Process : WriteColumns(p)
      BY <1>1, <1>4 DEF Next, Intern, SaveStart, LoadStart, Save, SaveLock, SaveMerge,
         SaveSnapshot, SaveRename, SaveSync, Load, LoadLock, LoadIntern, LoadDone,
         InternEntry, Fail, Crash, PowerLoss, vars, files
    <2>2. QED
      BY <1>4, <2>1, WrittenResolves
  <1>5. QED
    BY <1>3, <1>4

\* With one symbol file, every position in every column file, whether or not its
\* save had symbols to write, stands for the symbol it was written for, until a
\* power failure undoes a rename.
THEOREM ColumnsReadable == OneFile => (Spec => []ColumnsResolve)
  <1>1. SUFFICES ASSUME OneFile
                 PROVE  Spec => []ColumnsResolve
    OBVIOUS
  <1>2. Init => ColumnsResolve
    BY DEF Init, ColumnsResolve
  <1>3. SymInv /\ SymInv' /\ ColumnsResolve /\ [Next]_vars => ColumnsResolve'
    BY <1>1, ResolvePreserved
  <1>4. QED
    BY <1>2, <1>3, SymInvariant, PTL DEF Spec

-----------------------------------------------------------------------------
(* What the end of every call rests on: whoever waits for a lock waits     *)
(* for a call that can go on.                                              *)

Holds(p, f) == p \in exclusive[f] \cup shared[f]

\* The points of a call between its lock and its unlock.
Works(p, f) == call[p].at \in {"merge", "rename", "sync", "intern"} /\ call[p].path = f

\* No lock is left behind, by a call that ended or failed or by a process that died:
\* who holds one is in a call that has not released it yet.
NoLockLeft == \A f \in Path : \A p \in Process : Holds(p, f) => Works(p, f)

\* The call's next step waits for nobody: its lock is free, and the list it merges or
\* interns is not overrun.
Unblocked(p) ==
  /\ At(p, "save") => exclusive[call[p].path] = {} /\ shared[call[p].path] = {}
  /\ At(p, "load") => exclusive[call[p].path] = {}
  /\ call[p].at \in {"merge", "intern"} => call[p].i <= Len(call[p].view)

\* Calls that cannot go on wait for a lock, and its holder can go on.
NoStandstill ==
  \A p \in Process : call[p] # Idle =>
    Unblocked(p) \/ \E q \in Process : Holds(q, call[p].path) /\ Unblocked(q)

\* A step of p that lets no other process move or take a lock.
LEMMA OneWorks ==
  ASSUME NoLockLeft, NEW p \in Process,
         \A q \in Process \ {p} :
           call'[q] = call[q] /\ \A f \in Path : Holds(q, f)' => Holds(q, f),
         \A f \in Path : Holds(p, f)' => Works(p, f)'
  PROVE  NoLockLeft'
  BY DEF NoLockLeft, Works

\* A call that ends leaves no lock of its own.
LEMMA GiveUpLeavesNone ==
  ASSUME TypeOK, NoLockLeft, NEW p \in Process, GiveUp(p)
  PROVE  NoLockLeft'
<1>1. \A q \in Process \ {p} : call'[q] = call[q] /\ \A f \in Path : Holds(q, f)' => Holds(q, f)
  BY DEF GiveUp, Unlock, Return, TypeOK, Holds
<1>2. \A f \in Path : ~Holds(p, f)'
  BY DEF GiveUp, Unlock, Holds
<1> QED  BY <1>1, <1>2, OneWorks

\* A call that goes on with the locks it has, at a point where that is right.
LEMMA GoOnLeavesNone ==
  ASSUME TypeOK, NoLockLeft, NEW p \in Process, UNCHANGED locks,
         NEW c, call' = [call EXCEPT ![p] = c],
         \A f \in Path : Works(p, f) => c.at \in {"merge", "rename", "sync", "intern"} /\ c.path = f
  PROVE  NoLockLeft'
<1> USE DEF locks
<1>1. call'[p] = c /\ \A q \in Process \ {p} : call'[q] = call[q]
  BY DEF TypeOK
<1>2. \A f \in Path, q \in Process : Holds(q, f)' <=> Holds(q, f)
  BY DEF Holds
<1>3. \A f \in Path : Holds(p, f)' => Works(p, f)'
  BY <1>1, <1>2 DEF NoLockLeft, Works
<1> QED  BY <1>1, <1>2, <1>3, OneWorks

\* A step of p that takes the lock of f and no other.
Takes(p, f) ==
  /\ \A q \in Process \ {p} : call'[q] = call[q]
  /\ \A g \in Path : \A q \in Process : Holds(q, g)' => Holds(q, g) \/ (q = p /\ g = f)

LEMMA LockLeavesNone ==
  ASSUME NoLockLeft, NEW p \in Process, NEW f \in Path, Takes(p, f), Works(p, f)',
         \A g \in Path : ~Works(p, g)
  PROVE  NoLockLeft'
<1>1. \A g \in Path : Holds(p, g)' => g = f
  BY DEF NoLockLeft, Takes
<1>2. \A g \in Path : Holds(p, g)' => Works(p, g)'
  BY <1>1
<1> QED  BY <1>2, OneWorks DEF Takes

LEMMA CallsLeaveNone ==
  ASSUME TypeOK, NoLockLeft, NEW p \in Process, Save(p) \/ Load(p)
  PROVE  NoLockLeft'
<1> USE DEF At, locks
<1>1. call \in [Process -> Calls]
  BY DEF TypeOK
<1>2. CASE SaveLock(p)
  <2>1. PICK f \in Path : f = call[p].path
    BY <1>2, Frames DEF SaveLock
  <2>2. PICK c :
          /\ c = Frame("merge", f, call[p].cell, OnDisk(f), 0)
          /\ call' = [call EXCEPT ![p] = c]
          /\ exclusive' = [exclusive EXCEPT ![f] = {p}] /\ shared' = shared
    BY <1>2, <2>1 DEF SaveLock
  <2>3. c.at \in {"merge", "intern"} /\ c.path = f
    BY <2>2 DEF Frame
  <2>4. \A g \in Path : \A q \in Process : Holds(q, g)' => Holds(q, g) \/ (q = p /\ g = f)
    BY <2>2 DEF Holds, TypeOK
  <2>5. \A g \in Path : ~Works(p, g)
    BY <1>2 DEF SaveLock, Works
  <2>6. call'[p] = c /\ \A q \in Process \ {p} : call'[q] = call[q]
    BY <1>1, <2>2
  <2>7. Takes(p, f) /\ Works(p, f)'
    BY <2>3, <2>4, <2>6 DEF Takes, Works
  <2> QED  BY <2>5, <2>7, LockLeavesNone
<1>3. CASE LoadLock(p)
  <2>1. CASE call' = [call EXCEPT ![p] = Idle] /\ UNCHANGED locks
    <3>1. \A g \in Path : ~Works(p, g)
      BY <1>3 DEF LoadLock, Works
    <3> QED  BY <2>1, <3>1, GoOnLeavesNone
  <2>2. CASE ~(call' = [call EXCEPT ![p] = Idle] /\ UNCHANGED locks)
    <3>1. PICK f \in Path : f = call[p].path
      BY <1>3, Frames DEF LoadLock
    <3>2. PICK c :
            /\ c = Frame("intern", f, 0, disk[f], persisted[p])
            /\ call' = [call EXCEPT ![p] = c]
            /\ shared' = [shared EXCEPT ![f] = @ \cup {p}] /\ exclusive' = exclusive
      BY <1>3, <2>2, <3>1 DEF LoadLock, Return
    <3>3. c.at \in {"merge", "intern"} /\ c.path = f
      BY <3>2 DEF Frame
    <3>4. \A g \in Path : \A q \in Process : Holds(q, g)' => Holds(q, g) \/ (q = p /\ g = f)
      BY <3>2 DEF Holds, TypeOK
    <3>5. \A g \in Path : ~Works(p, g)
      BY <1>3 DEF LoadLock, Works
    <3>6. call'[p] = c /\ \A q \in Process \ {p} : call'[q] = call[q]
      BY <1>1, <3>2
    <3>7. Takes(p, f) /\ Works(p, f)'
      BY <3>3, <3>4, <3>6 DEF Takes, Works
    <3> QED  BY <3>5, <3>7, LockLeavesNone
  <2> QED  BY <2>1, <2>2
<1>4. CASE call[p].at \in {"merge", "intern"} /\ InternEntry(p)
  <2>1. CASE GiveUp(p)
    BY <2>1, GiveUpLeavesNone
  <2>2. CASE ~GiveUp(p)
    <3>1. PICK n : call' = [call EXCEPT ![p] = [call[p] EXCEPT !.i = n]] /\ UNCHANGED locks
      BY <1>4, <2>2 DEF InternEntry
    <3>2. PICK c : c = [call[p] EXCEPT !.i = n]
      OBVIOUS
    <3>3. call[p] # Idle
      BY <1>4 DEF Idle
    <3>4. c.at = call[p].at /\ c.path = call[p].path
      BY <1>1, <3>2, <3>3 DEF Calls
    <3> QED  BY <3>1, <3>2, <3>4, GoOnLeavesNone DEF Works
  <2> QED  BY <2>1, <2>2
<1>5. CASE SaveSnapshot(p)
  <2>1. PICK c : c = Frame("rename", call[p].path, call[p].cell, mem[p], 0)
    OBVIOUS
  <2>2. c.at = "rename" /\ c.path = call[p].path
    BY <2>1 DEF Frame
  <2> QED  BY <1>5, <2>1, <2>2, GoOnLeavesNone DEF SaveSnapshot, Works
<1>6. CASE SaveRename(p)
  <2>1. PICK c : c = [call[p] EXCEPT !.at = "sync"]
    OBVIOUS
  <2>2. call[p] # Idle
    BY <1>6 DEF SaveRename, Idle
  <2>3. c.at = "sync" /\ c.path = call[p].path
    BY <1>1, <2>1, <2>2 DEF Calls
  <2>4. call' = [call EXCEPT ![p] = c] /\ UNCHANGED locks
    BY <1>6, <2>1 DEF SaveRename, Goto
  <2> QED  BY <2>3, <2>4, GoOnLeavesNone DEF Works
<1>7. CASE SaveSync(p)
  <2>1. Unlock(p) /\ Goto(p, "columns saved")
    BY <1>7 DEF SaveSync
  <2>2. \A q \in Process \ {p} : call'[q] = call[q] /\ \A f \in Path : Holds(q, f)' => Holds(q, f)
    BY <1>1, <2>1 DEF Unlock, Goto, Holds
  <2>3. \A f \in Path : ~Holds(p, f)'
    BY <2>1 DEF Unlock, Holds
  <2> QED  BY <2>2, <2>3, OneWorks
<1>8. CASE WriteColumns(p)
  <2>1. \A g \in Path : ~Works(p, g)
    BY <1>8 DEF WriteColumns, Works
  <2> QED  BY <1>8, <2>1, GoOnLeavesNone DEF WriteColumns, Return
<1>9. CASE LoadDone(p)
  BY <1>9, GiveUpLeavesNone DEF LoadDone
<1> QED  BY <1>2, <1>3, <1>4, <1>5, <1>6, <1>7, <1>8, <1>9 DEF Save, Load, SaveMerge, LoadIntern

LEMMA StepLeavesNone ==
  ASSUME SymInv, NoLockLeft, [Next]_vars
  PROVE  NoLockLeft'
<1> USE DEF locks
<1>1. TypeOK /\ call \in [Process -> Calls]
  BY DEF SymInv, TypeOK
<1>2. CASE call' = call /\ UNCHANGED locks
  BY <1>2 DEF NoLockLeft, Holds, Works
<1>3. ASSUME NEW p \in Process, NEW f \in Path, SaveStart(p, f) \/ LoadStart(p, f)
      PROVE  NoLockLeft'
  <2>1. PICK c : call' = [call EXCEPT ![p] = c] /\ UNCHANGED locks
    BY <1>3 DEF SaveStart, LoadStart
  <2>2. \A g \in Path : ~Works(p, g)
    <3>1. call[p] = Idle
      BY <1>3 DEF SaveStart, LoadStart
    <3>2. call[p].at = "idle"
      BY <3>1 DEF Idle
    <3> QED  BY <3>2 DEF Works
  <2> QED  BY <1>1, <2>1, <2>2, GoOnLeavesNone
<1>4. ASSUME NEW p \in Process, Fail(p)
      PROVE  NoLockLeft'
  BY <1>1, <1>4, GiveUpLeavesNone DEF Fail
<1>5. ASSUME NEW P \in SUBSET Process, Dead(P)
      PROVE  NoLockLeft'
  <2> SUFFICES ASSUME NEW f \in Path, NEW q \in Process, Holds(q, f)'
               PROVE  Works(q, f)'
    BY DEF NoLockLeft
  <2>1. q \notin P /\ Holds(q, f)
    BY <1>5 DEF Dead, Holds
  <2>2. call'[q] = call[q]
    BY <1>5, <2>1 DEF Dead
  <2> QED  BY <2>1, <2>2 DEF NoLockLeft, Works
<1>6. ASSUME NEW p \in Process, Crash(p)
      PROVE  NoLockLeft'
  BY <1>5, <1>6 DEF Crash
<1>7. CASE PowerLoss
  BY <1>5, <1>7 DEF PowerLoss
<1>8. ASSUME NEW p \in Process, NEW s \in Symbol, Intern(p, s)
      PROVE  NoLockLeft'
  BY <1>2, <1>8 DEF Intern
<1>9. CASE UNCHANGED vars
  BY <1>2, <1>9 DEF vars, state
<1> QED  BY <1>1, <1>3, <1>4, <1>6, <1>7, <1>8, <1>9, CallsLeaveNone DEF Next

\* No save or load, and no process that dies, leaves a lock behind.
THEOREM LocksAreReleased == Spec => []NoLockLeft
<1>1. Init => NoLockLeft
  BY DEF Init, NoLockLeft, Holds
<1> QED  BY <1>1, StepLeavesNone, SymInvariant, PTL DEF Spec

\* A call that cannot go on waits for the lock of one that can: saves and loads of
\* several processes never all wait for each other.
THEOREM CallsNeverStandStill == Spec => []NoStandstill
<1>1. SymInv /\ NoLockLeft => NoStandstill
  <2> SUFFICES ASSUME SymInv, NoLockLeft, NEW p \in Process, call[p] # Idle, ~Unblocked(p)
               PROVE  \E q \in Process : Holds(q, call[p].path) /\ Unblocked(q)
    BY DEF NoStandstill
  <2>1. TypeOK /\ \A q \in Process : ProcInv(q)
    BY DEF SymInv
  <2>2. \A q \in Process : call[q].at \in {"merge", "intern"} => call[q].i <= Len(call[q].view)
    BY <2>1 DEF ProcInv, CallInv, Agree
  <2>3. At(p, "save") \/ At(p, "load")
    BY <2>2 DEF Unblocked
  <2>4. call[p].path \in Path
    BY <2>1, <2>3, Frames DEF At
  <2>5. PICK q \in Process : Holds(q, call[p].path)
    BY <2>1, <2>2, <2>3, <2>4 DEF Unblocked, Holds, TypeOK, At
  <2>6. Works(q, call[p].path)
    BY <2>4, <2>5 DEF NoLockLeft
  <2>7. Unblocked(q)
    BY <2>2, <2>6 DEF Unblocked, Works, At
  <2> QED  BY <2>5, <2>7
<1> QED  BY <1>1, SymInvariant, LocksAreReleased, PTL

=============================================================================
