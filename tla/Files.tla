------------------------------- MODULE Files -------------------------------
(***************************************************************************)
(* The files of a database as env_posix.cc keeps them and a crash of the   *)
(* machine leaves them.                                                    *)
(*                                                                         *)
(* A file is the sequence of its records, the length of the prefix that    *)
(* fdatasync made durable and, if a crash tore a record, the number of     *)
(* whole records before the tear (-1: no tear).  A disk has the files and  *)
(* a journal of directories: the durable one, then the directory after     *)
(* each operation since.  The file system keeps the order of directory     *)
(* operations, and fdatasync of a file commits them up to the one that     *)
(* made the file; nothing orders them with the contents of other files.    *)
(* A FILE's own buffer is flushed by the log writer after every record, so *)
(* a record that was appended has reached the operating system.            *)
(***************************************************************************)
EXTENDS Integers, Sequences, SequencesExt, FiniteSets, FiniteSetsExt, Functions

\* Names (db/filename.cc); ParseFileName gives back the type and the number.
FileName(type, number) == [type |-> type, number |-> number]
LogFileName(n)        == FileName("log", n)
TableFileName(n)      == FileName("table", n)
DescriptorFileName(n) == FileName("manifest", n)
TempFileName(n)       == FileName("temp", n)
CurrentFileName       == FileName("current", 0)

EmptyDisk == [nodes |-> << >>, journal |-> <<[name \in {} |-> 0]>>]

GetChildren(d)       == DOMAIN Last(d.journal)
FileExists(d, name)  == name \in GetChildren(d)
NodeOf(d, name)      == Last(d.journal)[name]
FileAt(d, name)      == d.nodes[NodeOf(d, name)]
Numbers(d, type)     == {name.number : name \in {x \in GetChildren(d) : x.type = type}}

\* What a reader gets: the whole records before the first torn one.
ReadAll(f)  == IF f.tear = -1 THEN f.data ELSE SubSeq(f.data, 1, f.tear)
\* Records follow a torn one: their bytes are read as the rest of it.
Damaged(f)  == f.tear # -1 /\ Len(f.data) > f.tear

\* Drop the files that no directory of the journal names.
Tidy(d) ==
    LET used == UNION {Range(dir) : dir \in Range(d.journal)}
    IN  [d EXCEPT !.nodes = [n \in used |-> d.nodes[n]]]

SetDir(d, dir) == Tidy([d EXCEPT !.journal = Append(@, dir)])

Bind(dir, name, n) == [x \in DOMAIN dir \cup {name} |-> IF x = name THEN n ELSE dir[x]]

\* NewWritableFile and Append: the file is created, or emptied if it exists.
NewWritableFile(d, name, data) ==
    LET f     == [data |-> data, synced |-> 0, tear |-> -1]
        fresh == CHOOSE n \in 1 .. Cardinality(DOMAIN d.nodes) + 1 : n \notin DOMAIN d.nodes
    IN  IF FileExists(d, name)
        THEN [d EXCEPT !.nodes[NodeOf(d, name)] = f]
        ELSE SetDir([d EXCEPT !.nodes = [n \in DOMAIN @ \cup {fresh} |->
                                            IF n = fresh THEN f ELSE @[n]]],
                    Bind(Last(d.journal), name, fresh))

AppendTo(d, name, data) == [d EXCEPT !.nodes[NodeOf(d, name)].data = @ \o data]

DeleteFile(d, name) ==
    IF FileExists(d, name)
    THEN SetDir(d, [x \in GetChildren(d) \ {name} |-> NodeOf(d, x)])
    ELSE d

RenameFile(d, src, target) ==
    LET n == NodeOf(d, src)
    IN  SetDir(d, Bind([x \in GetChildren(d) \ {src} |-> NodeOf(d, x)], target, n))

\* fdatasync commits the directory up to the operation that made the file, and
\* for a MANIFEST the directory itself is synced first.
Committed(d, name) ==
    LET made == Min({i \in DOMAIN d.journal : NodeOf(d, name) \in Range(d.journal[i])})
        from == IF name.type = "manifest" THEN Len(d.journal) ELSE made
    IN  SubSeq(d.journal, from, Len(d.journal))

\* PosixWritableFile::Sync.
Sync(d, name) ==
    Tidy([d EXCEPT !.nodes[NodeOf(d, name)].synced = Len(FileAt(d, name).data),
                   !.journal = Committed(d, name)])

WriteStringToFileSync(d, name, data) == Sync(NewWritableFile(d, name, data), name)

\* SetCurrentFile in two steps: the temporary file, and the rename.
SetCurrentTemp(d, number) == WriteStringToFileSync(d, TempFileName(number), <<number>>)
SetCurrentRename(d, number) == RenameFile(d, TempFileName(number), CurrentFileName)

-----------------------------------------------------------------------------
\* What the machine may find after a crash: some of the directory operations in
\* order, and of each file the durable prefix with some of the records behind
\* it, the first lost one torn or gone.
CrashedFile(f, keep, torn) ==
    [data   |-> SubSeq(f.data, 1, keep),
     synced |-> keep,
     tear   |-> IF f.tear = -1 /\ torn /\ keep < Len(f.data) THEN keep ELSE f.tear]

AfterCrash(d) ==
    LET dirty == {n \in DOMAIN d.nodes : d.nodes[n].synced < Len(d.nodes[n].data)}
        most  == Max({0} \cup {Len(d.nodes[n].data) : n \in dirty})
        fates == {k \in [dirty -> 0 .. most] : \A n \in dirty :
                     d.nodes[n].synced <= k[n] /\ k[n] <= Len(d.nodes[n].data)}
    IN  {Tidy([nodes |-> [n \in DOMAIN d.nodes |->
                             IF n \in dirty THEN CrashedFile(d.nodes[n], k[n], t[n])
                                            ELSE d.nodes[n]],
               journal |-> <<d.journal[i]>>])
           : i \in DOMAIN d.journal, k \in fates, t \in [dirty -> BOOLEAN]}
=============================================================================
