------------------------------ MODULE WebStore ------------------------------
(***************************************************************************)
(* The part of the LittleFS partition that holds the web UI, and what the  *)
(* mount and main.c make of it at every boot.  A path is the sequence of   *)
(* its names below /lfs/www, which is <<>>; the contents of a file are the *)
(* sequence of the units of data written to it.                            *)
(***************************************************************************)
EXTENDS Naturals, Sequences, SequencesExt, FiniteSets

CONSTANTS
  Names,        \* names of files and directories
  Index,        \* "index.html"
  MaxDepth,     \* bound on the length of a path
  Data,         \* units of data a client can send
  PageData,     \* the unit of which the built-in page consists
  PageLen,      \* the length of the built-in page, in units
  MaxSize,      \* MAX_SIZE of a file, in units
  FlashFull,    \* may the flash file system be full?
  MountFails    \* may LittleFS find the partition corrupted at a boot?

ASSUME WebStoreAssumption ==
  /\ Index \in Names
  /\ MaxDepth \in Nat \ {0}
  /\ PageData \in Data
  /\ PageLen \in 1..MaxSize
  /\ MaxSize \in Nat \ {0}
  /\ FlashFull \in BOOLEAN
  /\ MountFails \in BOOLEAN

VARIABLE tree   \* what exists, with kinds and contents

Root == <<>>
Paths == {p \in SeqOf(Names, MaxDepth) : p # Root}

Dir == [kind |-> "dir", data |-> <<>>]
File(d) == [kind |-> "file", data |-> d]

IsDir(t, p) == p \in DOMAIN t /\ t[p].kind = "dir"
IsFile(t, p) == p \in DOMAIN t /\ t[p].kind = "file"
Children(t, p) == {c \in DOMAIN t : c # Root /\ Front(c) = p}
Content(t, p) == IF IsFile(t, p) THEN t[p].data ELSE <<>>

With(t, p, entry) == [q \in DOMAIN t \cup {p} |-> IF q = p THEN entry ELSE t[q]]

\* fs_unlink removes a file or an empty directory.
Unlink(t, p) ==
  IF Children(t, p) = {} THEN [q \in DOMAIN t \ {p} |-> t[q]] ELSE t

\* fs_mkdir and fs_open need the directory in which they create.
CanCreate(t, p) == p \notin DOMAIN t /\ (p = Root \/ IsDir(t, Front(p)))

Page == [i \in 1..PageLen |-> PageData]

\* create_index_html writes the page over the start of the file, which it
\* does not truncate.
WithPage(t) ==
  LET c == Content(t, <<Index>>) IN
  IF IsFile(t, <<Index>>) \/ CanCreate(t, <<Index>>)
    THEN With(t, <<Index>>, File(Page \o SubSeq(c, PageLen + 1, Len(c))))
    ELSE t

\* Mutant: the directory is not created.
BootTree_NoMkdir(t) == WithPage(t)

\* What main creates at every boot: /lfs/www and the test page in it.
BootTree(t) == WithPage(IF Root \in DOMAIN t THEN t ELSE With(t, Root, Dir))

\* A formatted partition.
NoFiles == <<>>

\* mount_or_mkfs formats a partition it cannot mount, whatever the reason.
Mounted(t) == {t} \cup (IF MountFails THEN {NoFiles} ELSE {})

\* A full flash has no room for the page.
BootTrees(t) == {BootTree(u) : u \in Mounted(t)}
                \cup (IF FlashFull /\ Root \in DOMAIN t THEN {t} ELSE {})

\* A new partition is formatted by the first boot.
StoreInit == tree = BootTree(NoFiles)

StoreTypeOK ==
  /\ DOMAIN tree \subseteq Paths \cup {Root}
  /\ \A p \in DOMAIN tree :
       /\ IsDir(tree, p) => tree[p] = Dir
       /\ IsFile(tree, p) => tree[p].data \in Seq(Data)
       /\ p # Root => IsDir(tree, Front(p))
=============================================================================
