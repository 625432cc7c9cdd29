----------------------------- MODULE SymPersist -----------------------------
(***************************************************************************)
(* The symbol table and its file: ray_sym_save and ray_sym_load of         *)
(* table/sym.c, and ray_splay_save / ray_splay_load of store/splay.c as    *)
(* far as they use it.  Symbols are interned in the memory of a process    *)
(* and known by their position; a column file holds positions only, so it  *)
(* is worth nothing unless the symbol file next to it keeps every symbol   *)
(* at its place.  Several processes share the files, under a file lock,    *)
(* and a process or the machine may stop at any point.                     *)
(***************************************************************************)
EXTENDS Naturals, Sequences, FiniteSets, SequencesExt

CONSTANTS
  Process,     \* processes that use the database
  Path,        \* symbol files, each with the tables saved next to it
  Symbol,      \* strings a process may intern
  MaxOps,      \* bound: saves and loads that are made
  NoFile       \* what stands for a file that is not there

ASSUME SymAssumption ==
  /\ Process # {} /\ Path # {}
  /\ IsFiniteSet(Symbol)
  /\ MaxOps \in Nat

VARIABLES
  disk,        \* what an open of each symbol file reads
  synced,      \* what it reads after a power failure
  columns,     \* symbols in column files: [path, id, sym, by]
  exclusive,   \* for each file, the processes that hold its lock LOCK_EX
  shared,      \* ... and LOCK_SH
  mem,         \* g_sym.strings of each process
  persisted,   \* g_sym.persisted_count
  call,        \* the save or load each process is in, with its local variables
  ops,         \* saves and loads made so far (bounded by MaxOps)
  lost         \* history: a power failure has undone a rename

files == <<disk, synced, columns>>
locks == <<exclusive, shared>>
state == <<mem, persisted, call>>
vars == <<files, locks, state, ops, lost>>

\* What a symbol file may hold: no symbol twice, so no more than there are.
Lists == SeqOf(Symbol, Cardinality(Symbol))

ASSUME NoFileAssumption == NoFile \notin Lists

\* A process outside these calls.  In a call: where it is, the file, the symbol
\* that stands for the table (0 in a load), the list read or the snapshot to be
\* written, and the loop index.
Idle == [at |-> "idle"]
Frame(at, f, c, list, n) == [at |-> at, path |-> f, cell |-> c, view |-> list, i |-> n]

Init ==
  /\ disk = [f \in Path |-> NoFile]
  /\ synced = [f \in Path |-> NoFile]
  /\ columns = {}
  /\ exclusive = [f \in Path |-> {}]
  /\ shared = [f \in Path |-> {}]
  /\ mem = [p \in Process |-> <<>>]
  /\ persisted = [p \in Process |-> 0]
  /\ call = [p \in Process |-> Idle]
  /\ ops = 0
  /\ lost = FALSE

At(p, l) == call[p].at = l
Goto(p, l) == call' = [call EXCEPT ![p].at = l]

\* ray_file_unlock and ray_file_close, which every exit of save and load makes.
Unlock(p) ==
  /\ exclusive' = [f \in Path |-> exclusive[f] \ {p}]
  /\ shared' = [f \in Path |-> shared[f] \ {p}]

Return(p) == call' = [call EXCEPT ![p] = Idle]
GiveUp(p) == Unlock(p) /\ Return(p)

\* ray_sym_intern: a string already known keeps its position.
Interned(m, s) == IF Contains(m, s) THEN m ELSE Append(m, s)
IdOf(m, s) == CHOOSE n \in DOMAIN m : m[n] = s

-----------------------------------------------------------------------------
(* Any thread of a process may intern, also while another one saves. *)

Intern(p, s) ==
  /\ ~Contains(mem[p], s)
  /\ mem' = [mem EXCEPT ![p] = Append(@, s)]
  /\ UNCHANGED <<files, locks, persisted, call, ops, lost>>

-----------------------------------------------------------------------------
(* ray_splay_save: the symbol file first, then the columns. *)

\* The table's symbols are fixed here.  Nothing new to persist: straight to the
\* columns, without a look at the file.
SaveStart(p, f) ==
  /\ call[p] = Idle
  /\ ops < MaxOps
  /\ ops' = ops + 1
  /\ \E c \in DOMAIN mem[p] :
       LET at == IF persisted[p] = Len(mem[p]) THEN "columns skipped" ELSE "save"
       IN call' = [call EXCEPT ![p] = Frame(at, f, c, <<>>, 0)]
  /\ UNCHANGED <<files, locks, mem, persisted, lost>>

OnDisk(f) == IF disk[f] = NoFile THEN <<>> ELSE disk[f]

\* Faulty variant: the symbols of other writers are not picked up.
SaveLockBlind(p) ==
  LET f == call[p].path IN
    /\ At(p, "save")
    /\ exclusive[f] = {} /\ shared[f] = {}
    /\ exclusive' = [exclusive EXCEPT ![f] = {p}]
    /\ call' = [call EXCEPT ![p] = Frame("merge", f, @.cell, <<>>, 0)]
    /\ UNCHANGED <<files, shared, mem, persisted, ops, lost>>

\* The exclusive lock, and the file as it is on disk.
SaveLock(p) ==
  LET f == call[p].path IN
    /\ At(p, "save")
    /\ exclusive[f] = {} /\ shared[f] = {}
    /\ exclusive' = [exclusive EXCEPT ![f] = {p}]
    /\ call' = [call EXCEPT ![p] = Frame("merge", f, @.cell, OnDisk(f), 0)]
    /\ UNCHANGED <<files, shared, mem, persisted, ops, lost>>

\* The next entry of the list read is interned; unless it lands at the position
\* it has on disk, the tables have diverged and the call fails.
InternEntry(p) ==
  LET list == call[p].view
      n == call[p].i + 1
  IN
    /\ n <= Len(list)
    /\ mem' = [mem EXCEPT ![p] = Interned(@, list[n])]
    /\ IF IdOf(mem'[p], list[n]) = n
         THEN call' = [call EXCEPT ![p].i = n] /\ UNCHANGED locks
         ELSE GiveUp(p)
    /\ UNCHANGED <<files, persisted, ops, lost>>

SaveMerge(p) == At(p, "merge") /\ InternEntry(p)

\* The snapshot, written to the temporary file and synced.  That file is written
\* anew by each save, under the lock, so what a crash leaves in it is not read.
SaveSnapshot(p) ==
  /\ At(p, "merge")
  /\ call[p].i = Len(call[p].view)
  /\ call' = [call EXCEPT ![p] = Frame("rename", @.path, @.cell, mem[p], 0)]
  /\ UNCHANGED <<files, locks, mem, persisted, ops, lost>>

SaveRename(p) ==
  /\ At(p, "rename")
  /\ disk' = [disk EXCEPT ![call[p].path] = call[p].view]
  /\ Goto(p, "sync")
  /\ UNCHANGED <<synced, columns, locks, mem, persisted, ops, lost>>

\* Faulty variant: the directory is not synced.
SaveNoSync(p) ==
  /\ At(p, "sync")
  /\ persisted' = [persisted EXCEPT ![p] = Len(call[p].view)]
  /\ Unlock(p)
  /\ Goto(p, "columns saved")
  /\ UNCHANGED <<files, mem, ops, lost>>

SaveSync(p) ==
  /\ At(p, "sync")
  /\ synced' = [synced EXCEPT ![call[p].path] = disk[call[p].path]]
  /\ persisted' = [persisted EXCEPT ![p] = Len(call[p].view)]
  /\ Unlock(p)
  /\ Goto(p, "columns saved")
  /\ UNCHANGED <<disk, columns, mem, ops, lost>>

\* Faulty variant: an early return keeps the lock file open.
FailLocked(p) ==
  /\ call[p] # Idle
  /\ Return(p)
  /\ UNCHANGED <<files, locks, mem, persisted, ops, lost>>

\* Out of memory, or an error of a file operation, at any point of a call: the
\* file keeps what the call has done to it so far.
Fail(p) ==
  /\ call[p] # Idle
  /\ GiveUp(p)
  /\ UNCHANGED <<files, mem, persisted, ops, lost>>

\* The columns of the table, each in its own file.
WriteColumns(p) ==
  /\ At(p, "columns saved") \/ At(p, "columns skipped")
  /\ columns' = columns \cup
       {[path |-> call[p].path, id |-> call[p].cell, sym |-> mem[p][call[p].cell],
         by |-> IF At(p, "columns saved") THEN "save" ELSE "skip"]}
  /\ Return(p)
  /\ UNCHANGED <<disk, synced, locks, mem, persisted, ops, lost>>

-----------------------------------------------------------------------------
(* ray_sym_load. *)

LoadStart(p, f) ==
  /\ call[p] = Idle
  /\ ops < MaxOps
  /\ ops' = ops + 1
  /\ call' = [call EXCEPT ![p] = Frame("load", f, 0, <<>>, 0)]
  /\ UNCHANGED <<files, locks, mem, persisted, lost>>

Matches(list, m, n) == n <= Len(list) /\ SubSeq(list, 1, n) = SubSeq(m, 1, n)

\* The shared lock and the list; no file, a list shorter than what was loaded
\* before, or one that differs from it, ends the call.
LoadLock(p) ==
  LET f == call[p].path IN
    /\ At(p, "load")
    /\ exclusive[f] = {}
    /\ IF disk[f] # NoFile /\ Matches(disk[f], mem[p], persisted[p])
         THEN /\ shared' = [shared EXCEPT ![f] = @ \cup {p}]
              /\ call' = [call EXCEPT ![p] = Frame("intern", f, 0, disk[f], persisted[p])]
         ELSE Return(p) /\ UNCHANGED shared
    /\ UNCHANGED <<files, exclusive, mem, persisted, ops, lost>>

\* Faulty variant: the position an entry gets is not compared.
LoadInternUnchecked(p) ==
  /\ At(p, "intern")
  /\ call[p].i < Len(call[p].view)
  /\ mem' = [mem EXCEPT ![p] = Interned(@, call[p].view[call[p].i + 1])]
  /\ call' = [call EXCEPT ![p].i = @ + 1]
  /\ UNCHANGED <<files, locks, persisted, ops, lost>>

LoadIntern(p) == At(p, "intern") /\ InternEntry(p)

LoadDone(p) ==
  /\ At(p, "intern")
  /\ call[p].i = Len(call[p].view)
  /\ persisted' = [persisted EXCEPT ![p] = Len(call[p].view)]
  /\ GiveUp(p)
  /\ UNCHANGED <<files, mem, ops, lost>>

-----------------------------------------------------------------------------
(* Crashes. *)

Dead(P) ==
  /\ mem' = [p \in Process |-> IF p \in P THEN <<>> ELSE mem[p]]
  /\ persisted' = [p \in Process |-> IF p \in P THEN 0 ELSE persisted[p]]
  /\ call' = [p \in Process |-> IF p \in P THEN Idle ELSE call[p]]
  /\ exclusive' = [f \in Path |-> exclusive[f] \ P]
  /\ shared' = [f \in Path |-> shared[f] \ P]

\* A process ends; the system closes its files, and a new process takes its place.
Crash(p) ==
  /\ mem[p] # <<>> \/ call[p] # Idle
  /\ Dead({p})
  /\ UNCHANGED <<files, ops, lost>>

\* The machine stops: a rename that was not synced may be undone.
PowerLoss ==
  /\ Dead(Process)
  /\ disk' \in {disk, synced}
  /\ synced' = disk'
  /\ lost' = (lost \/ disk' # disk)
  /\ UNCHANGED <<columns, ops>>

-----------------------------------------------------------------------------
Save(p) == SaveLock(p) \/ SaveMerge(p) \/ SaveSnapshot(p) \/ SaveRename(p)
             \/ SaveSync(p) \/ WriteColumns(p)
Load(p) == LoadLock(p) \/ LoadIntern(p) \/ LoadDone(p)

Next ==
  \/ \E p \in Process : \/ \E s \in Symbol : Intern(p, s)
                        \/ \E f \in Path : SaveStart(p, f) \/ LoadStart(p, f)
                        \/ Save(p)
                        \/ Load(p)
                        \/ Fail(p)
                        \/ Crash(p)
  \/ PowerLoss

\* A process that runs goes on; flock wakes a waiter when the lock is free.
Fairness == \A p \in Process : WF_vars(Save(p) \/ Load(p))

Spec == Init /\ [][Next]_vars /\ Fairness

-----------------------------------------------------------------------------
Calls ==
  {Idle} \cup
  [at : {"save", "merge", "rename", "sync", "columns saved", "columns skipped", "load",
         "intern"},
   path : Path, cell : 0 .. Cardinality(Symbol), view : Lists, i : 0 .. Cardinality(Symbol)]

TypeOK ==
  /\ disk \in [Path -> Lists \cup {NoFile}]
  /\ synced \in [Path -> Lists \cup {NoFile}]
  /\ columns \subseteq [path : Path, id : 1 .. Cardinality(Symbol), sym : Symbol,
                        by : {"save", "skip"}]
  /\ exclusive \in [Path -> {{}} \cup {{p} : p \in Process}]
  /\ shared \in [Path -> SUBSET Process]
  /\ \A f \in Path : exclusive[f] = {} \/ shared[f] = {}
  /\ mem \in [Process -> Lists]
  /\ persisted \in [Process -> 0 .. Cardinality(Symbol)]
  /\ call \in [Process -> Calls]
  /\ ops \in 0 .. MaxOps
  /\ lost \in BOOLEAN

Resolves(file, c) == file # NoFile /\ c.id \in DOMAIN file /\ file[c.id] = c.sym

\* As long as no power failure has undone a rename, every position in every column
\* file stands for the symbol it was written for, whatever other processes have
\* saved to the same file since, and wherever they stopped.
ColumnsResolve == ~lost => \A c \in columns : Resolves(disk[c.path], c)

\* A table whose save wrote the symbol file survives a power failure at any later
\* moment.  (One whose save had nothing new to write depends on the sync of the
\* process it loaded the symbols from.)
SavedColumnsSurvive ==
  \A c \in columns : c.by = "save" => Resolves(synced[c.path], c)

\* What a process believes to be on disk is there, in the same order: no one
\* reorders or drops what a running process has loaded or saved.
PersistedAgrees ==
  /\ TypeOK
  /\ \A p \in Process : persisted[p] > 0 =>
       \E f \in Path : disk[f] # NoFile /\ Matches(disk[f], mem[p], persisted[p])

\* Every save and load ends, also when others fail or die with the lock in hand.
CallsEnd == \A p \in Process : call[p] # Idle ~> call[p] = Idle

=============================================================================
