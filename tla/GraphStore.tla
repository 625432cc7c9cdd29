----------------------------- MODULE GraphStore -----------------------------
(***************************************************************************)
(* A relation of the graph store and its directory: a program builds the   *)
(* relation from an edge table, may save it file by file and load it       *)
(* again, and may die in between.  A save may find what an interrupted     *)
(* save of the same relation has left.                                     *)
(***************************************************************************)
EXTENDS Csr

CONSTANTS
  NoRel,         \* no relation in memory
  NSimple,       \* nodes of the graphs that are asked
  MaxRows,       \* bound: edges of those graphs
  NMulti,        \* nodes of the tables with loops, parallel and stray edges
  MaxMulti,      \* bound: rows of those tables
  MaxSaved       \* bound: rows of a table that is saved

ASSUME StoreAssumption ==
  /\ {NSimple, NMulti} \subseteq Nat \ {0}
  /\ {MaxRows, MaxMulti, MaxSaved} \subseteq Nat
  /\ NoRowMap \notin Seq(Int)

VARIABLES
  table,         \* the edge table of the relation
  size,          \* number of nodes it is built for
  rel,           \* the relation in memory, NoRel when there is none
  files,         \* the contents of the files of the directory
  saving,        \* the file a running save writes next, 0 if none runs
  saved          \* a save has finished

storeVars == <<table, size, rel, files, saving, saved>>

Arcs(k) == {a \in Nodes(k) \X Nodes(k) : a[1] # a[2]}
(* One table for every graph without loops and parallel edges. *)
SimpleTables == UNION {{t \in [1 .. k -> Arcs(NSimple)] :
                          \A i, j \in 1 .. k : i < j => Before(t[i], t[j], 1)} : k \in 0 .. MaxRows}
(* Tables with any rows; -1 and NMulti are no nodes. *)
MultiTables == UNION {[1 .. k -> (-1 .. NMulti) \X (-1 .. NMulti)] : k \in 0 .. MaxMulti}

(* Faulty variant: the reverse index is saved first. *)
AllFilesReverse ==
  << <<"rev", "offsets">>, <<"rev", "targets">>, <<"rev", "rowmap">>,
     <<"fwd", "offsets">>, <<"fwd", "targets">>, <<"fwd", "rowmap">>, <<"meta", "meta">> >>

(* The files of a directory in the order in which they are written. *)
AllFiles ==
  << <<"fwd", "offsets">>, <<"fwd", "targets">>, <<"fwd", "rowmap">>,
     <<"rev", "offsets">>, <<"rev", "targets">>, <<"rev", "rowmap">>, <<"meta", "meta">> >>

StoreInit ==
  /\ \/ table \in SimpleTables /\ size = NSimple
     \/ table \in MultiTables /\ size = NMulti
  /\ rel = NoRel
  /\ files = <<>> /\ saving = 0 /\ saved = FALSE

-----------------------------------------------------------------------------
Build(sort) ==
  /\ rel = NoRel /\ ~saved
  /\ rel' \in RelFromEdges(table, size, size, sort)
  /\ UNCHANGED <<table, size, files, saving, saved>>

(* The relation of a foreign key column: row i of the table is <<i, fk[i]>>. *)
BuildForeignKey(sort) ==
  /\ rel = NoRel /\ ~saved
  /\ table # <<>> /\ \A i \in DOMAIN table : table[i][1] = i - 1
  /\ rel' \in RelBuild([i \in DOMAIN table |-> table[i][2]], size, sort)
  /\ UNCHANGED <<table, size, files, saving, saved>>

(* A directory keeps one relation: what is there already is of the same    *)
(* rows and nodes.                                                         *)
SaveStart ==
  /\ rel # NoRel /\ saving = 0 /\ ~saved
  /\ size = NMulti /\ Len(table) <= MaxSaved
  /\ <<"fwd", "offsets">> \in DOMAIN files => files[<<"fwd", "offsets">>] = rel.fwd.off
  /\ <<"rev", "offsets">> \in DOMAIN files => files[<<"rev", "offsets">>] = rel.rev.off
  /\ saving' = 1
  /\ UNCHANGED <<table, size, rel, files, saved>>

Content(f) == CASE f[1] = "fwd" -> FileOf(rel.fwd, f[2])
                [] f[1] = "rev" -> FileOf(rel.rev, f[2])
                [] f[1] = "meta" -> <<rel.fwd.sorted, rel.rev.sorted>>

(* ray_col_save replaces a file as a whole; a row map that was not loaded  *)
(* is not written.                                                         *)
SaveFile ==
  /\ saving # 0
  /\ LET f == AllFiles[saving]
     IN files' = IF f[2] = "rowmap" /\ Content(f) = NoRowMap THEN files
                 ELSE [g \in DOMAIN files \cup {f} |-> IF g = f THEN Content(f) ELSE files[g]]
  /\ saving' = IF saving = Len(AllFiles) THEN 0 ELSE saving + 1
  /\ saved' = (saving = Len(AllFiles))
  /\ UNCHANGED <<table, size, rel>>

(* A file cannot be written: the save gives up, the relation stays. *)
SaveFailed ==
  /\ saving # 0
  /\ saving' = 0
  /\ UNCHANGED <<table, size, rel, files, saved>>

Die ==
  /\ rel # NoRel /\ (saving # 0 \/ saved)
  /\ rel' = NoRel /\ saving' = 0
  /\ UNCHANGED <<table, size, files, saved>>

(* Flags come from the metadata; without it the lists count as unsorted.   *)
LoadRel(dir, mapped) ==
  LET fwd == LoadIndex(dir, "fwd", mapped["fwd"])
      rev == LoadIndex(dir, "rev", mapped["rev"])
      Flag(i) == <<"meta", "meta">> \in DOMAIN dir /\ dir[<<"meta", "meta">>][i]
  IN  IF ~ fwd.ok \/ ~ rev.ok THEN NoRel
      ELSE [fwd |-> [fwd.csr EXCEPT !.sorted = Flag(1)],
            rev |-> [rev.csr EXCEPT !.sorted = Flag(2)]]

(* The load of a file may fail: of offsets or targets it fails as a whole, *)
(* without a row map it goes on.                                           *)
Load ==
  /\ rel = NoRel /\ saving = 0 /\ <<"fwd", "offsets">> \in DOMAIN files
  /\ \/ rel' = NoRel
     \/ \E mapped \in [{"fwd", "rev"} -> BOOLEAN] : rel' = LoadRel(files, mapped)
  /\ UNCHANGED <<table, size, files, saving, saved>>

StoreNext ==
  \/ \E sort \in BOOLEAN : Build(sort) \/ BuildForeignKey(sort)
  \/ SaveStart \/ SaveFile \/ SaveFailed \/ Die \/ Load

StoreSpec == StoreInit /\ [][StoreNext]_storeVars

-----------------------------------------------------------------------------
(* An index without a row map has the targets of one with it.              *)
Indexed(csr, isReverse) ==
  \E row \in IF csr.row = NoRowMap THEN [1 .. csr.m -> DOMAIN table] ELSE {csr.row} :
     IndexesTable(csr, row, table, isReverse)

(* The relation indexes its edge table: built, or loaded again after a     *)
(* save, also one cut short by a crash, every edge with both ends in range *)
(* is at one position of each index, beside its row if there is a row map, *)
(* in sorted lists when the flag says so.  No save, wherever it stopped,   *)
(* leaves files that load without the forward row map, which finds the     *)
(* weights: it is missing only when it is on disk and could not be read.   *)
RelationIndexed ==
  rel # NoRel =>
    /\ Indexed(rel.fwd, FALSE)
    /\ Indexed(rel.rev, TRUE)
    /\ rel.fwd.row = NoRowMap => <<"fwd", "rowmap">> \in DOMAIN files
=============================================================================
