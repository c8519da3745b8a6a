--------------------------- MODULE WebFiles_proofs ---------------------------
(***************************************************************************)
(* Theorems about the files of the web UI, for any names, data, sizes and  *)
(* depths of directories.                                                  *)
(***************************************************************************)
EXTENDS WebFiles, NumberLemmas, SequenceTheorems

-----------------------------------------------------------------------------
(* Paths, files and directories.                                           *)

\* What is below /lfs/www is a tree of directories and of files.
TreeOK(t) ==
  /\ DOMAIN t \subseteq Paths \cup {Root}
  /\ \A p \in DOMAIN t :
       /\ t[p] = Dir \/ \E d \in Seq(Data) : t[p] = File(d)
       /\ p # Root => IsDir(t, Front(p))
  /\ Root \in DOMAIN t => t[Root] = Dir
  /\ IsFiniteSet(DOMAIN t)

\* Constants.
LEMMA StoreFacts ==
  /\ MaxDepth \in Nat \ {0} /\ MaxSize \in Nat \ {0} /\ BufCap \in Nat \ {0}
  /\ PageLen \in Nat /\ 1 <= PageLen /\ PageLen <= MaxSize
  /\ PageData \in Data /\ Index \in Names
<1>1. MaxDepth \in Nat \ {0} /\ MaxSize \in Nat \ {0} /\ PageData \in Data /\ Index \in Names
      /\ PageLen \in 1..MaxSize
  BY WebStoreAssumption, Zenon
<1>2. BufCap \in Nat \ {0}
  BY WebUploadAssumption, Zenon
<1> QED
  BY <1>1, <1>2

\* A path has a name, and the directory it is in is another path.
LEMMA PathFacts ==
  ASSUME NEW p \in Paths
  PROVE  /\ p \in Seq(Names) /\ Len(p) \in Nat /\ Len(p) # 0 /\ p # Root
         /\ Front(p) \in Seq(Names) /\ Len(Front(p)) = Len(p) - 1 /\ Front(p) # p
<1>1. PICK m \in 0..MaxDepth : p \in [1..m -> Names]
  BY Zenon DEF Paths, SeqOf
<1>2. m \in Nat
  BY <1>1, StoreFacts
<1>3. p \in Seq(Names) /\ p # <<>>
  BY <1>1, <1>2, SeqDef DEF Paths, Root
<1>4. Len(p) \in Nat \ {0} /\ \A i \in 1..Len(p) : p[i] \in Names
  BY <1>3, EmptySeq, ElementOfSeq
<1>5. Front(p) \in Seq(Names) /\ Len(Front(p)) = Len(p) - 1
  <2> DEFINE n == Len(p) - 1
  <2>1. n \in Int /\ 1 \in Int /\ \A i \in 1..n : p[i] \in Names
    BY <1>4
  <2>2. n \in Nat /\ (1 <= n \/ n = 0)
    <3>1. \A k \in Nat \ {0} : k - 1 \in Nat /\ (1 <= k - 1 \/ k - 1 = 0)
      OBVIOUS
    <3> QED
      BY <1>4, <3>1, Zenon
  <2> HIDE DEF n
  <2>3. /\ SubSeq(p, 1, n) \in Seq(Names)
        /\ Len(SubSeq(p, 1, n)) = IF 1 <= n THEN n - 1 + 1 ELSE 0
    BY <2>1, SubSeqProperties
  <2>4. Len(SubSeq(p, 1, n)) = n
    BY <2>2, <2>3
  <2> QED
    BY <2>3, <2>4 DEF Front, n
<1> QED
  BY <1>3, <1>4, <1>5 DEF Root

\* A file and a directory differ.
LEMMA KindFacts ==
  /\ Dir.kind = "dir" /\ Dir.data = <<>>
  /\ \A d : File(d).kind = "file" /\ File(d).data = d /\ File(d) # Dir
<1>1. Dir.kind = "dir" /\ Dir.data = <<>>
  BY DEF Dir
<1>2. \A d : File(d).kind = "file" /\ File(d).data = d
  BY DEF File
<1> QED
  BY <1>1, <1>2

\* An entry of a tree.
LEMMA TreeFacts ==
  ASSUME NEW t, TreeOK(t), NEW p
  PROVE  /\ IsDir(t, p) <=> p \in DOMAIN t /\ t[p] = Dir
         /\ IsFile(t, p) <=> p \in DOMAIN t /\ t[p] # Dir
         /\ Content(t, p) \in Seq(Data) /\ Len(Content(t, p)) \in Nat
         /\ IsFile(t, p) => t[p] = File(Content(t, p)) /\ Children(t, p) = {} /\ p # Root
<1>1. p \in DOMAIN t => t[p] = Dir \/ \E d \in Seq(Data) : t[p] = File(d)
  BY DEF TreeOK
<1>2. IsDir(t, p) <=> p \in DOMAIN t /\ t[p] = Dir
  BY <1>1, KindFacts DEF IsDir
<1>3. IsFile(t, p) <=> p \in DOMAIN t /\ t[p] # Dir
  BY <1>1, KindFacts DEF IsFile
<1>4. CASE IsFile(t, p)
  <2>1. PICK d \in Seq(Data) : t[p] = File(d)
    BY <1>1, <1>3, <1>4
  <2>2. Content(t, p) = d
    BY <1>4, <2>1, KindFacts DEF Content
  <2>3. Children(t, p) = {}
    <3> SUFFICES ASSUME NEW c \in DOMAIN t, c # Root, Front(c) = p PROVE FALSE
      BY DEF Children
    <3>1. IsDir(t, p)
      BY DEF TreeOK
    <3> QED
      BY <1>2, <1>3, <1>4, <3>1
  <2>4. p # Root
    BY <1>3, <1>4 DEF TreeOK
  <2> QED
    BY <1>2, <1>3, <2>1, <2>2, <2>3, <2>4, LenProperties
<1>5. CASE ~IsFile(t, p)
  <2>1. Content(t, p) = <<>>
    BY <1>5 DEF Content
  <2>2. <<>> \in Seq(Data) /\ Len(<<>>) = 0
    BY EmptySeq
  <2> QED
    BY <1>2, <1>3, <1>5, <2>1, <2>2
<1> QED
  BY <1>4, <1>5

\* fs_unlink leaves a tree, and nothing but its argument disappears.
LEMMA UnlinkKeeps ==
  ASSUME NEW t, TreeOK(t), NEW p
  PROVE  /\ TreeOK(Unlink(t, p))
         /\ DOMAIN Unlink(t, p) \subseteq DOMAIN t
         /\ \A q \in DOMAIN t : q # p => q \in DOMAIN Unlink(t, p) /\ Unlink(t, p)[q] = t[q]
         /\ Children(t, p) = {} => p \notin DOMAIN Unlink(t, p)
<1> DEFINE u == Unlink(t, p)
<1>1. CASE Children(t, p) # {}
  <2>1. u = t
    BY <1>1 DEF Unlink
  <2> QED
    BY <1>1, <2>1
<1>2. CASE Children(t, p) = {}
  <2>1. u = [q \in DOMAIN t \ {p} |-> t[q]]
    BY <1>2 DEF Unlink
  <2> HIDE DEF u
  <2>2. DOMAIN u = DOMAIN t \ {p}
    BY <2>1, Zenon
  <2>3. \A q \in DOMAIN u : u[q] = t[q]
    BY <2>1, <2>2, Zenon
  <2>4. TreeOK(u)
    <3>1. DOMAIN u \subseteq Paths \cup {Root} /\ (Root \in DOMAIN u => u[Root] = Dir)
      BY <2>2, <2>3 DEF TreeOK
    <3>2. ASSUME NEW q \in DOMAIN u
          PROVE  u[q] = Dir \/ \E d \in Seq(Data) : u[q] = File(d)
      BY <2>2, <2>3 DEF TreeOK
    <3>3. ASSUME NEW q \in DOMAIN u, q # Root PROVE IsDir(u, Front(q))
      <4>1. IsDir(t, Front(q)) /\ Front(q) # p
        BY <1>2, <2>2, <3>3 DEF TreeOK, Children
      <4> QED
        BY <2>2, <2>3, <4>1 DEF IsDir
    <3>4. IsFiniteSet(DOMAIN u)
      BY <2>2, FS_Subset DEF TreeOK
    <3> QED
      BY <3>1, <3>2, <3>3, <3>4, Zenon DEF TreeOK
  <2> QED
    BY <2>2, <2>3, <2>4 DEF u
<1> QED
  BY <1>1, <1>2

\* With adds or changes one entry.
LEMMA WithFacts ==
  ASSUME NEW t, NEW p, NEW e
  PROVE  /\ With(t, p, e)[p] = e
         /\ \A q \in DOMAIN t : q # p => With(t, p, e)[q] = t[q]
BY Zenon DEF With

\* What With adds exists.
LEMMA WithDomain ==
  ASSUME NEW t, NEW p, NEW e
  PROVE  DOMAIN With(t, p, e) = DOMAIN t \cup {p}
BY Zenon DEF With

\* A new directory, or a file where there is one or can be one.
LEMMA WithKeeps ==
  ASSUME NEW t, TreeOK(t), NEW p \in Paths \cup {Root}, NEW e,
         \/ CanCreate(t, p) /\ e = Dir
         \/ /\ p # Root /\ (IsFile(t, p) \/ CanCreate(t, p))
            /\ \E d \in Seq(Data) : e = File(d)
  PROVE  TreeOK(With(t, p, e))
<1> DEFINE w == With(t, p, e)
<1>1. DOMAIN w = DOMAIN t \cup {p}
  BY WithDomain
<1>2. w[p] = e /\ \A q \in DOMAIN t : q # p => w[q] = t[q]
  BY WithFacts
<1> HIDE DEF w
<1>3. IsDir(t, p) => FALSE
  BY TreeFacts DEF CanCreate, IsDir
<1>4. p # Root => IsDir(t, Front(p)) /\ Front(p) # p
  BY PathFacts, TreeFacts DEF TreeOK, CanCreate, IsFile
<1>5. ASSUME NEW q, IsDir(t, q) PROVE IsDir(w, q)
  <2>1. q \in DOMAIN t /\ q # p
    BY <1>3, <1>5 DEF IsDir
  <2> QED
    BY <1>1, <1>2, <1>5, <2>1 DEF IsDir
<1>6. DOMAIN w \subseteq Paths \cup {Root}
  BY <1>1 DEF TreeOK
<1>7. ASSUME NEW q \in DOMAIN w
      PROVE  w[q] = Dir \/ \E d \in Seq(Data) : w[q] = File(d)
  <2>1. CASE q = p
    BY <1>2, <2>1
  <2>2. CASE q # p
    BY <1>1, <1>2, <2>2 DEF TreeOK
  <2> QED
    BY <2>1, <2>2
<1>8. ASSUME NEW q \in DOMAIN w, q # Root PROVE IsDir(w, Front(q))
  <2>1. IsDir(t, Front(q))
    BY <1>1, <1>4, <1>8 DEF TreeOK
  <2> QED
    BY <1>5, <2>1
<1>9. Root \in DOMAIN w => w[Root] = Dir
  <2>1. CASE p = Root
    BY <1>2, <2>1
  <2>2. CASE p # Root
    BY <1>1, <1>2, <2>2 DEF TreeOK
  <2> QED
    BY <2>1, <2>2
<1>10. IsFiniteSet(DOMAIN w)
  BY <1>1, FS_AddElement DEF TreeOK
<1>11. TreeOK(w)
  BY <1>6, <1>7, <1>8, <1>9, <1>10, Zenon DEF TreeOK
<1> QED
  BY <1>11 DEF w

\* A tree without its root is empty: whatever exists is in a directory, and
\* the shortest path is in none.
LEMMA RootOrNothing ==
  ASSUME NEW t, TreeOK(t), Root \notin DOMAIN t
  PROVE  DOMAIN t = {}
<1> SUFFICES ASSUME DOMAIN t # {} PROVE FALSE
  OBVIOUS
<1> DEFINE Lens == {Len(p) : p \in DOMAIN t}
<1>1. \A p \in DOMAIN t : p \in Paths
  BY DEF TreeOK
<1>2. Lens \in SUBSET Nat /\ Lens # {}
  BY <1>1, PathFacts
<1>3. PICK m \in Lens : \A k \in Lens : m <= k
  <2> HIDE DEF Lens
  <2> QED
    BY <1>2, SmallestElement
<1>4. PICK p \in DOMAIN t : Len(p) = m
  BY <1>3
<1>5. p \in Paths /\ p # Root
  BY <1>1, <1>4
<1>6. Front(p) \in DOMAIN t
  BY <1>5 DEF TreeOK, IsDir
<1>7. Len(Front(p)) \in Lens
  BY <1>6
<1> QED
  BY <1>3, <1>4, <1>5, <1>7, PathFacts

\* What the change of an entry to a file does to the contents of the files.
LEMMA WithFile ==
  ASSUME NEW t, NEW p, NEW d
  PROVE  /\ Content(With(t, p, File(d)), p) = d
         /\ \A q : q # p => Content(With(t, p, File(d)), q) = Content(t, q)
<1>1. DOMAIN With(t, p, File(d)) = DOMAIN t \cup {p}
  BY WithDomain
<1>2. /\ With(t, p, File(d))[p] = File(d)
      /\ \A q \in DOMAIN t : q # p => With(t, p, File(d))[q] = t[q]
  BY WithFacts
<1> QED
  BY <1>1, <1>2, KindFacts DEF Content, IsFile

\* A new directory has no contents.
LEMMA WithDir ==
  ASSUME NEW t, NEW p, NEW q
  PROVE  Content(With(t, p, Dir), q) = <<>> \/ Content(With(t, p, Dir), q) = Content(t, q)
<1>1. DOMAIN With(t, p, Dir) = DOMAIN t \cup {p}
  BY WithDomain
<1>2. /\ With(t, p, Dir)[p] = Dir
      /\ \A r \in DOMAIN t : r # p => With(t, p, Dir)[r] = t[r]
  BY WithFacts
<1> QED
  BY <1>1, <1>2, KindFacts DEF Content, IsFile

\* No file of u is longer than in t, unless it is within MAX_SIZE.
NoLonger(t, u) ==
  \A p \in Paths :
    Len(Content(u, p)) <= Len(Content(t, p)) \/ Len(Content(u, p)) <= MaxSize

\* What does not change gets no longer.
LEMMA NoLongerSame == ASSUME NEW t, TreeOK(t) PROVE NoLonger(t, t)
BY TreeFacts DEF NoLonger

\* Two steps that make nothing longer.
LEMMA NoLongerTransitive ==
  ASSUME NEW t, TreeOK(t), NEW u, TreeOK(u), NEW w, TreeOK(w), NoLonger(t, u), NoLonger(u, w)
  PROVE  NoLonger(t, w)
<1> SUFFICES ASSUME NEW p \in Paths
             PROVE  \/ Len(Content(w, p)) <= Len(Content(t, p))
                    \/ Len(Content(w, p)) <= MaxSize
  BY DEF NoLonger
<1>1. /\ Len(Content(t, p)) \in Nat /\ Len(Content(u, p)) \in Nat /\ Len(Content(w, p)) \in Nat
      /\ MaxSize \in Nat
  BY TreeFacts, StoreFacts
<1>2. /\ Len(Content(u, p)) <= Len(Content(t, p)) \/ Len(Content(u, p)) <= MaxSize
      /\ Len(Content(w, p)) <= Len(Content(u, p)) \/ Len(Content(w, p)) <= MaxSize
  BY DEF NoLonger
<1> QED
  BY <1>1, <1>2

\* A new directory makes no file longer.
LEMMA NewDirNoLonger ==
  ASSUME NEW t, TreeOK(t), NEW p PROVE NoLonger(t, With(t, p, Dir))
<1> SUFFICES ASSUME NEW q \in Paths
             PROVE  \/ Len(Content(With(t, p, Dir), q)) <= Len(Content(t, q))
                    \/ Len(Content(With(t, p, Dir), q)) <= MaxSize
  BY DEF NoLonger
<1>1. Content(With(t, p, Dir), q) = <<>> \/ Content(With(t, p, Dir), q) = Content(t, q)
  BY WithDir
<1> QED
  BY <1>1, TreeFacts, EmptySeq, StoreFacts

\* fs_unlink makes no file longer.
LEMMA UnlinkNoLonger ==
  ASSUME NEW t, TreeOK(t), NEW p PROVE NoLonger(t, Unlink(t, p))
<1> SUFFICES ASSUME NEW q \in Paths
             PROVE  \/ Len(Content(Unlink(t, p), q)) <= Len(Content(t, q))
                    \/ Len(Content(Unlink(t, p), q)) <= MaxSize
  BY DEF NoLonger
<1>1. Content(Unlink(t, p), q) = <<>> \/ Content(Unlink(t, p), q) = Content(t, q)
  BY DEF Unlink, Content, IsFile
<1> QED
  BY <1>1, TreeFacts, EmptySeq, StoreFacts

\* index.html is a path.
LEMMA IndexFacts == <<Index>> \in Paths /\ Front(<<Index>>) = Root
<1>1. <<Index>> \in [1..1 -> Names] /\ 1 \in 0..MaxDepth /\ <<Index>> # <<>>
  BY StoreFacts
<1>2. <<Index>> \in Paths
  BY <1>1, Zenon DEF Paths, SeqOf, Root
<1>3. Len(<<Index>>) = 1
  OBVIOUS
<1>4. Len(Front(<<Index>>)) = 0 /\ Front(<<Index>>) \in Seq(Names)
  BY <1>2, <1>3, PathFacts
<1>5. Front(<<Index>>) = <<>>
  BY <1>4, EmptySeq
<1> QED
  BY <1>2, <1>5 DEF Root

\* The built-in page is written over the start of index.html, which gets no
\* longer than either.
LEMMA PageKeeps ==
  ASSUME NEW t, TreeOK(t), IsDir(t, Root)
  PROVE  TreeOK(WithPage(t)) /\ IsDir(WithPage(t), Root) /\ NoLonger(t, WithPage(t))
<1> DEFINE c == Content(t, <<Index>>)
           rest == SubSeq(c, PageLen + 1, Len(c))
           text == Page \o rest
<1>1. c \in Seq(Data) /\ Len(c) \in Nat
  BY TreeFacts, LenProperties
<1> HIDE DEF c
<1>2. /\ rest \in Seq(Data)
      /\ Len(rest) = IF PageLen + 1 <= Len(c) THEN Len(c) - (PageLen + 1) + 1 ELSE 0
  <2>1. /\ PageLen + 1 \in Int /\ Len(c) \in Int
        /\ \A i \in (PageLen + 1)..Len(c) : i \in 1..Len(c)
    BY <1>1, StoreFacts
  <2>2. \A i \in (PageLen + 1)..Len(c) : c[i] \in Data
    BY <1>1, <2>1, ElementOfSeq
  <2> QED
    BY <2>1, <2>2, SubSeqProperties
<1>3. Page \in Seq(Data) /\ Len(Page) = PageLen
  <2>1. Page \in [1..PageLen -> Data]
    BY StoreFacts DEF Page
  <2>2. Page \in Seq(Data)
    BY <2>1, StoreFacts, SeqDef
  <2> QED
    BY <2>1, <2>2, StoreFacts
<1> HIDE DEF rest
<1>4. text \in Seq(Data) /\ (Len(text) <= Len(c) \/ Len(text) <= MaxSize)
  <2>1. text \in Seq(Data) /\ Len(text) = PageLen + Len(rest)
    BY <1>2, <1>3, ConcatProperties
  <2> HIDE DEF text
  <2> QED
    BY <1>1, <1>2, <2>1, StoreFacts
<1>5. CASE IsFile(t, <<Index>>) \/ CanCreate(t, <<Index>>)
  <2>1. WithPage(t) = With(t, <<Index>>, File(text))
    BY <1>5 DEF WithPage, text, rest, c
  <2>2. TreeOK(WithPage(t))
    BY <1>4, <1>5, <2>1, IndexFacts, PathFacts, WithKeeps
  <2>3. <<Index>> # Root
    BY IndexFacts, PathFacts
  <2>4. Root \in DOMAIN WithPage(t) /\ WithPage(t)[Root] = t[Root]
    <3>1. Root \in DOMAIN t
      BY DEF IsDir
    <3>2. WithPage(t)[Root] = t[Root]
      BY <2>1, <2>3, <3>1, WithFacts
    <3>3. DOMAIN WithPage(t) = DOMAIN t \cup {<<Index>>}
      BY <2>1, WithDomain
    <3> QED
      BY <3>1, <3>2, <3>3
  <2>5. NoLonger(t, WithPage(t))
    <3> HIDE DEF text
    <3> SUFFICES ASSUME NEW p \in Paths
                 PROVE  \/ Len(Content(WithPage(t), p)) <= Len(Content(t, p))
                        \/ Len(Content(WithPage(t), p)) <= MaxSize
      BY DEF NoLonger
    <3>1. CASE p # <<Index>>
      <4>1. Content(WithPage(t), p) = Content(t, p)
        BY <2>1, <3>1, WithFile
      <4> QED
        BY <4>1, TreeFacts
    <3>2. CASE p = <<Index>>
      <4>1. Content(WithPage(t), p) = text
        BY <2>1, <3>2, WithFile
      <4> QED
        BY <1>4, <3>2, <4>1 DEF c
    <3> QED
      BY <3>1, <3>2
  <2> QED
    BY <2>2, <2>4, <2>5 DEF IsDir
<1>6. CASE ~(IsFile(t, <<Index>>) \/ CanCreate(t, <<Index>>))
  BY <1>6, NoLongerSame DEF WithPage
<1> QED
  BY <1>5, <1>6

\* Every boot makes a tree with /lfs/www of a tree, without longer files.
LEMMA BootKeeps ==
  ASSUME NEW t, TreeOK(t)
  PROVE  TreeOK(BootTree(t)) /\ IsDir(BootTree(t), Root) /\ NoLonger(t, BootTree(t))
<1>1. CASE Root \in DOMAIN t
  <2>1. IsDir(t, Root)
    BY <1>1, TreeFacts DEF TreeOK
  <2> QED
    BY <1>1, <2>1, PageKeeps DEF BootTree
<1>2. CASE Root \notin DOMAIN t
  <2> DEFINE w == With(t, Root, Dir)
  <2>1. TreeOK(w)
    BY <1>2, WithKeeps DEF CanCreate
  <2>2. Root \in DOMAIN w /\ w[Root] = Dir
    <3>1. w[Root] = Dir
      BY WithFacts
    <3>2. DOMAIN w = DOMAIN t \cup {Root}
      BY WithDomain
    <3> QED
      BY <3>1, <3>2
  <2> HIDE DEF w
  <2>3. IsDir(w, Root)
    BY <2>2, KindFacts DEF IsDir
  <2>4. BootTree(t) = WithPage(w) /\ NoLonger(t, w)
    BY <1>2, NewDirNoLonger DEF BootTree, w
  <2> QED
    BY <2>1, <2>3, <2>4, PageKeeps, NoLongerTransitive
<1> QED
  BY <1>1, <1>2

\* A formatted partition is a tree without files.
LEMMA NoFilesIsTree ==
  TreeOK(NoFiles) /\ \A t : NoLonger(t, NoFiles)
<1>1. DOMAIN NoFiles = {} /\ IsFiniteSet({})
  BY FS_EmptySet DEF NoFiles
<1>2. \A p : Content(NoFiles, p) = <<>>
  BY <1>1 DEF Content, IsFile
<1> QED
  BY <1>1, <1>2, EmptySeq, StoreFacts DEF TreeOK, NoLonger

\* A boot finds a tree, a corrupted partition or no room for the page.
LEMMA BootsKeep ==
  ASSUME NEW t, TreeOK(t), NEW u \in BootTrees(t)
  PROVE  TreeOK(u) /\ IsDir(u, Root) /\ NoLonger(t, u)
<1>1. CASE \E v \in Mounted(t) : u = BootTree(v)
  <2>1. PICK v : (v = t \/ v = NoFiles) /\ u = BootTree(v)
    BY <1>1 DEF Mounted
  <2>2. TreeOK(v) /\ NoLonger(t, v)
    BY <2>1, NoFilesIsTree, NoLongerSame
  <2> QED
    BY <2>1, <2>2, BootKeeps, NoLongerTransitive
<1>2. CASE u = t /\ Root \in DOMAIN t
  BY <1>2, TreeFacts, NoLongerSame DEF TreeOK
<1> QED
  BY <1>1, <1>2 DEF BootTrees

-----------------------------------------------------------------------------
(* The upload.                                                             *)

\* Whether the offset of the request was the size of the file.
OffsetIsSize == req.offset > 0 /\ old # <<>> => req.offset = Len(old)

UploadInv ==
  /\ UploadTypeOK
  /\ pc # "idle" => reply = NoReply
  /\ InUpload => Fits(req.offset, Len(buff)) /\ "sync" \notin ignored
  /\ pc \in {"body", "truncate"} => ignored = {}
  /\ "unlink" \in ignored => req.offset = 0
  /\ pc = "truncate" => Content(tree, req.file) = old
  /\ pc \in {"open", "write"} => Content(tree, req.file) = Base
  /\ pc = "write" => IsFile(tree, req.file) /\ OffsetIsSize
  /\ reply.code = 200 =>
       /\ Content(tree, req.file) = Base \o Stored
       /\ reply.size = req.offset + Len(buff)
       /\ OffsetIsSize

\* The variables of the upload in their types.
LEMMA UploadFacts ==
  ASSUME UploadTypeOK
  PROVE  /\ req.file \in Paths /\ req.offset \in Nat /\ req.offset <= MaxSize
         /\ buff \in Seq(Data) /\ Len(buff) \in Nat /\ Len(buff) <= BufCap
         /\ old \in Seq(Data) /\ Len(old) \in Nat
<1>1. buff \in Seq(Data) /\ old \in Seq(Data) /\ Len(buff) <= BufCap
  BY DEF UploadTypeOK
<1>2. Len(buff) \in Nat /\ Len(old) \in Nat
  BY <1>1, LenProperties
<1>3. req.file \in Paths /\ req.offset \in 0..MaxSize
  BY DEF UploadTypeOK
<1>4. req.offset \in Nat /\ req.offset <= MaxSize
  BY <1>3, StoreFacts
<1> QED
  BY <1>1, <1>2, <1>3, <1>4

\* Nothing is in progress.
LEMMA NoUpload ==
  /\ NoReq \in [file : Paths, offset : 0..MaxSize]
  /\ NoReply.code = 0
  /\ <<>> \in Seq(Data) /\ Len(<<>>) = 0 /\ 0 \in 0..0 /\ 0 <= BufCap
<1>1. NoReq \in [file : Paths, offset : 0..MaxSize]
  BY IndexFacts, StoreFacts DEF NoReq
<1>2. NoReply.code = 0
  BY DEF NoReply
<1>3. <<>> \in Seq(Data) /\ Len(<<>>) = 0
  BY EmptySeq
<1> QED
  BY <1>1, <1>2, <1>3, StoreFacts

\* Other requests are served between two parts of a body: they leave the
\* upload alone.
LEMMA WaitKeeps ==
  ASSUME UploadInv, UploadWaits PROVE UploadInv'
<1>1. /\ buff' = buff /\ pc' = pc /\ reply' = NoReply /\ pc \in {"idle", "body"}
      /\ \/ req' = req /\ stale' = stale /\ old' = old /\ ignored' = ignored
         \/ pc = "idle" /\ req' = NoReq /\ stale' = 0 /\ old' = <<>> /\ ignored' = {}
  BY DEF UploadWaits, InUpload, UploadInv, UploadTypeOK
<1>2. reply'.code = 0
  BY <1>1, NoUpload
<1>3. 0 \in 0..Len(buff)
  BY UploadFacts DEF UploadInv
<1>4. UploadTypeOK'
  <2>1. CASE req' = req /\ stale' = stale /\ old' = old /\ ignored' = ignored
    BY <1>1, <1>2, <2>1 DEF UploadInv, UploadTypeOK
  <2>2. CASE req' = NoReq /\ stale' = 0 /\ old' = <<>> /\ ignored' = {}
    BY <1>1, <1>2, <1>3, <2>2, NoUpload DEF UploadInv, UploadTypeOK
  <2> QED
    BY <1>1, <2>1, <2>2
<1>5. "unlink" \in ignored' => req'.offset = 0
  BY <1>1 DEF UploadInv
<1> QED
  BY <1>1, <1>2, <1>4, <1>5 DEF UploadInv, InUpload

\* A request begins without an answer.
LEMMA BeginKeeps ==
  ASSUME UploadInv, NEW f \in Paths, NEW off \in 0..MaxSize, Begin(f, off)
  PROVE  UploadInv'
<1>1. /\ pc = "idle" /\ pc' = "body" /\ req' = [file |-> f, offset |-> off]
      /\ stale' = Len(buff) /\ old' = <<>> /\ ignored' = {} /\ reply' = NoReply /\ tree' = tree /\ buff' = buff
  BY DEF Begin
<1>2. reply'.code = 0
  BY <1>1, NoUpload
<1>3. Len(buff) \in 0..Len(buff)
  BY UploadFacts DEF UploadInv
<1>4. UploadTypeOK'
  BY <1>1, <1>2, <1>3, NoUpload DEF UploadInv, UploadTypeOK
<1> QED
  BY <1>1, <1>2, <1>4 DEF UploadInv, InUpload

\* A body that is cut short, or too long for the buffer, is forgotten.
LEMMA DropKeeps ==
  ASSUME UploadInv, pc = "body", Drop PROVE UploadInv'
<1>1. /\ buff' = <<>> /\ stale' = 0 /\ pc' = "idle" /\ req' = NoReq
      /\ tree' = tree /\ old' = old /\ ignored' = ignored /\ reply' = reply
  BY DEF Drop
<1>2. reply = NoReply /\ ignored = {}
  BY DEF UploadInv
<1>3. reply'.code = 0
  BY <1>1, <1>2, NoUpload
<1>4. UploadTypeOK'
  BY <1>1, <1>3, NoUpload DEF UploadInv, UploadTypeOK
<1> QED
  BY <1>1, <1>2, <1>3, <1>4 DEF UploadInv, InUpload

\* The last part of a body fits or is refused.
LEMMA ReceiveKeeps ==
  ASSUME UploadInv, TreeOK(tree), NEW d \in Seq(Data), NEW final \in BOOLEAN, Receive(d, final)
  PROVE  UploadInv'
<1>1. pc = "body" /\ reply = NoReply /\ reply.code = 0 /\ ignored = {}
  BY NoUpload DEF Receive, UploadInv
<1>2. CASE Drop
  BY <1>1, <1>2, DropKeeps
<1>3. CASE /\ Len(buff) + Len(d) <= BufCap /\ buff' = buff \o d
           /\ UNCHANGED <<tree, req, stale, ignored>>
           /\ \/ ~final /\ UNCHANGED <<pc, old, reply>>
              \/ /\ final /\ old' = Content(tree, req.file)
                 /\ \/ Fits(req.offset, Len(buff')) /\ pc' = "truncate" /\ UNCHANGED reply
                    \/ ~Fits(req.offset, Len(buff')) /\ Answer(400, 0)
  <2>1. buff' \in Seq(Data) /\ Len(buff') <= BufCap /\ Len(buff) <= Len(buff') /\ Len(buff') \in Nat
    <3>1. buff' \in Seq(Data) /\ Len(buff') = Len(buff) + Len(d) /\ Len(d) \in Nat
      BY <1>3, UploadFacts, ConcatProperties, LenProperties DEF UploadInv
    <3> QED
      BY <1>3, <3>1, UploadFacts DEF UploadInv
  <2>2. stale \in 0..Len(buff')
    BY <2>1, UploadFacts DEF UploadInv, UploadTypeOK
  <2>3. Content(tree, req.file) \in Seq(Data)
    BY TreeFacts
  <2>4. CASE ~final /\ UNCHANGED <<pc, old, reply>>
    <3>1. UploadTypeOK'
      BY <1>3, <2>1, <2>2, <2>4 DEF UploadInv, UploadTypeOK
    <3> QED
      BY <1>1, <1>3, <2>4, <3>1 DEF UploadInv, InUpload
  <2>5. CASE /\ old' = Content(tree, req.file)
             /\ Fits(req.offset, Len(buff')) /\ pc' = "truncate" /\ UNCHANGED reply
    <3>1. UploadTypeOK'
      BY <1>3, <2>1, <2>2, <2>3, <2>5 DEF UploadInv, UploadTypeOK
    <3> QED
      BY <1>1, <1>3, <2>5, <3>1 DEF UploadInv, InUpload
  <2>6. CASE old' = Content(tree, req.file) /\ Answer(400, 0)
    <3>1. pc' = "idle" /\ reply'.code = 400
      BY <2>6 DEF Answer
    <3>2. UploadTypeOK'
      BY <1>3, <2>1, <2>2, <2>3, <2>6, <3>1 DEF UploadInv, UploadTypeOK
    <3> QED
      BY <1>1, <1>3, <3>1, <3>2 DEF UploadInv, InUpload
  <2> QED
    BY <1>3, <2>4, <2>5, <2>6
<1> QED
  BY <1>2, <1>3 DEF Receive

\* A piece at offset 0 removes the file or fails to, another one nothing.
LEMMA TruncateKeeps ==
  ASSUME UploadInv, TreeOK(tree), Truncate
  PROVE  UploadInv' /\ TreeOK(tree') /\ (IsDir(tree, Root) => IsDir(tree', Root))
<1>1. /\ pc = "truncate" /\ pc' = "open" /\ UNCHANGED <<buff, req, stale, old, reply>>
      /\ \/ /\ tree' = IF req.offset = 0 THEN Unlink(tree, req.file) ELSE tree
            /\ ignored' = ignored
         \/ req.offset = 0 /\ ignored' = {"unlink"} /\ tree' = tree
      /\ ignored = {} /\ Content(tree, req.file) = old
  BY DEF Truncate, UploadInv
<1>2. TreeOK(tree')
  BY <1>1, UnlinkKeeps
<1>3. req.file \in Paths /\ req.file # Root /\ req.offset \in Nat
  BY UploadFacts, PathFacts DEF UploadInv
<1>4. IsDir(tree, Root) => IsDir(tree', Root)
  BY <1>1, <1>3, UnlinkKeeps DEF IsDir
<1>5. UploadTypeOK'
  BY <1>1 DEF UploadInv, UploadTypeOK
<1>6. Content(tree', req.file) = Base'
  <2>1. CASE req.offset = 0 /\ ignored' = ignored
    <3>1. ~IsFile(tree', req.file)
      <4>1. CASE IsFile(tree, req.file)
        <5>1. req.file \notin DOMAIN Unlink(tree, req.file)
          BY <4>1, TreeFacts, UnlinkKeeps
        <5> QED
          BY <1>1, <2>1, <5>1 DEF IsFile
      <4>2. CASE ~IsFile(tree, req.file)
        <5>1. req.file \in DOMAIN tree'
              => req.file \in DOMAIN tree /\ tree'[req.file] = tree[req.file]
          BY <1>1, <2>1 DEF Unlink
        <5> QED
          BY <4>2, <5>1 DEF IsFile
      <4> QED
        BY <4>1, <4>2
    <3> QED
      BY <1>1, <2>1, <3>1 DEF Content, Base
  <2>2. CASE req.offset # 0 \/ ignored' # ignored
    BY <1>1, <2>2 DEF Base
  <2> QED
    BY <2>1, <2>2
<1>7. Fits(req.offset, Len(buff)) /\ reply = NoReply /\ reply.code = 0
  BY <1>1, NoUpload DEF UploadInv, InUpload
<1>8. UploadInv'
  BY <1>1, <1>5, <1>6, <1>7 DEF UploadInv, InUpload
<1> QED
  BY <1>2, <1>4, <1>8

\* A file that is opened has the size the offset asks for, or is new.
LEMMA OpenKeeps ==
  ASSUME UploadInv, TreeOK(tree), Open
  PROVE  UploadInv' /\ TreeOK(tree') /\ (IsDir(tree, Root) => IsDir(tree', Root))
<1>1. pc = "open" /\ UNCHANGED <<buff, req, stale, old, ignored>>
  BY DEF Open
<1>2. /\ req.file \in Paths /\ req.file # Root /\ req.offset \in Nat
      /\ Fits(req.offset, Len(buff)) /\ reply = NoReply /\ reply.code = 0
      /\ Content(tree, req.file) = Base
      /\ "sync" \notin ignored /\ ("unlink" \in ignored => req.offset = 0)
  BY <1>1, UploadFacts, PathFacts, NoUpload DEF UploadInv, InUpload
<1> DEFINE c == Content(tree, req.file)
<1>3. CASE /\ MayMatch /\ (IsFile(tree, req.file) \/ CanCreate(tree, req.file))
           /\ tree' = With(tree, req.file, File(c))
           /\ pc' = "write" /\ UNCHANGED reply
  <2>1. c \in Seq(Data)
    BY TreeFacts
  <2> HIDE DEF c
  <2>2. TreeOK(tree')
    BY <1>2, <1>3, <2>1, WithKeeps
  <2>3. tree'[req.file] = File(c) /\ \A q \in DOMAIN tree : q # req.file => tree'[q] = tree[q]
    BY <1>3, WithFacts
  <2>4. DOMAIN tree' = DOMAIN tree \cup {req.file}
    BY <1>3, WithDomain
  <2>5. IsDir(tree, Root) => IsDir(tree', Root)
    BY <1>2, <2>3, <2>4 DEF IsDir
  <2>6. IsFile(tree', req.file) /\ Content(tree', req.file) = c
    BY <2>3, <2>4, KindFacts DEF IsFile, Content
  <2>7. OffsetIsSize
    <3>1. SUFFICES ASSUME req.offset > 0, old # <<>> PROVE req.offset = Len(old)
      BY DEF OffsetIsSize
    <3>2. Content(tree, req.file) = old
      BY <1>2, <3>1 DEF Base
    <3>3. IsFile(tree, req.file)
      BY <3>1, <3>2 DEF Content
    <3> QED
      BY <1>3, <3>1, <3>2, <3>3 DEF MayMatch
  <2>8. UploadTypeOK'
    BY <1>1, <1>3 DEF UploadInv, UploadTypeOK
  <2>9. UploadInv'
    BY <1>1, <1>2, <1>3, <2>6, <2>7, <2>8 DEF UploadInv, InUpload, Base, OffsetIsSize, c
  <2> QED
    BY <2>2, <2>5, <2>9
<1>4. CASE Answer(400, 0) /\ UNCHANGED tree
  <2>1. pc' = "idle" /\ reply'.code = 400
    BY <1>4 DEF Answer
  <2>2. UploadTypeOK'
    BY <1>1, <2>1 DEF UploadInv, UploadTypeOK
  <2>3. UploadInv'
    BY <1>1, <1>2, <2>1, <2>2 DEF UploadInv, InUpload
  <2> QED
    BY <1>4, <2>3
<1> QED
  BY <1>3, <1>4 DEF Open

\* A file that is to be written to is short enough for the buffer, unless it
\* should have been removed.
LEMMA WriteFits ==
  ASSUME UploadInv, TreeOK(tree), pc = "write"
  PROVE  "unlink" \in ignored \/ Len(Content(tree, req.file)) + Len(buff) <= MaxSize
<1> DEFINE c == Content(tree, req.file)
<1>1. OffsetIsSize /\ c = Base
  BY DEF UploadInv
<1>2. /\ req.offset \in Nat /\ req.offset + Len(buff) <= MaxSize
      /\ Len(buff) \in Nat /\ Len(old) \in Nat
  BY UploadFacts DEF UploadInv, InUpload, Fits
<1>3. CASE c = <<>>
  BY <1>2, <1>3, EmptySeq, StoreFacts
<1>4. CASE c # <<>> /\ "unlink" \notin ignored
  <2>1. c = old /\ req.offset # 0
    BY <1>1, <1>4 DEF Base
  <2> QED
    BY <1>1, <1>2, <1>4, <2>1 DEF OffsetIsSize
<1> QED
  BY <1>3, <1>4

\* Appending the buffer, or what fits of it, or nothing.
LEMMA WriteKeeps ==
  ASSUME UploadInv, TreeOK(tree), Write
  PROVE  /\ UploadInv' /\ TreeOK(tree') /\ (IsDir(tree, Root) => IsDir(tree', Root))
         /\ \A q \in Paths :
              \/ Len(Content(tree', q)) <= Len(Content(tree, q))
              \/ q = req.file /\ Len(Content(tree', q)) <= Len(Content(tree, q)) + Len(buff)
<1> DEFINE c == Content(tree, req.file)
           Sizes == \A q \in Paths :
              \/ Len(Content(tree', q)) <= Len(Content(tree, q))
              \/ q = req.file /\ Len(Content(tree', q)) <= Len(Content(tree, q)) + Len(buff)
<1>1. /\ pc = "write" /\ UNCHANGED <<buff, req, stale, old>>
      /\ IsFile(tree, req.file) /\ OffsetIsSize /\ c = Base
      /\ "sync" \notin ignored /\ ("unlink" \in ignored => req.offset = 0)
      /\ ignored \subseteq {"unlink", "sync"}
  BY DEF Write, UploadInv, UploadTypeOK, InUpload
<1>2. /\ req.file \in Paths /\ req.file # Root /\ req.offset \in Nat
      /\ buff \in Seq(Data) /\ Len(buff) \in Nat
  BY <1>1, UploadFacts, PathFacts DEF UploadInv
<1>3. c \in Seq(Data) /\ Len(c) \in Nat
  BY TreeFacts
<1>4. \A q \in Paths : Len(Content(tree, q)) \in Nat
  BY TreeFacts
<1> HIDE DEF c, Sizes
<1>5. ASSUME NEW d \in Seq(Data), Len(d) <= Len(buff), Extend(d)
      PROVE  /\ TreeOK(tree') /\ (IsDir(tree, Root) => IsDir(tree', Root))
             /\ Content(tree', req.file) = c \o d /\ Sizes
  <2> DEFINE text == c \o d
  <2>1. tree' = With(tree, req.file, File(text))
    BY <1>5 DEF Extend, c
  <2>2. text \in Seq(Data) /\ Len(text) <= Len(c) + Len(buff)
    <3>1. text \in Seq(Data) /\ Len(text) = Len(c) + Len(d) /\ Len(d) \in Nat
      BY <1>3, ConcatProperties, LenProperties
    <3> HIDE DEF text
    <3> QED
      BY <1>2, <1>3, <1>5, <3>1
  <2> HIDE DEF text
  <2>3. TreeOK(tree')
    BY <1>1, <1>2, <2>1, <2>2, WithKeeps
  <2>4. tree'[req.file] = File(text) /\ \A q \in DOMAIN tree : q # req.file => tree'[q] = tree[q]
    BY <2>1, WithFacts
  <2>5. DOMAIN tree' = DOMAIN tree \cup {req.file}
    BY <2>1, WithDomain
  <2>6. IsDir(tree, Root) => IsDir(tree', Root)
    BY <1>2, <2>4, <2>5 DEF IsDir
  <2>7. /\ Content(tree', req.file) = text
        /\ \A q : q # req.file => Content(tree', q) = Content(tree, q)
    BY <2>1, WithFile
  <2>8. Sizes
    BY <1>4, <2>2, <2>7 DEF Sizes, c
  <2> QED
    BY <2>3, <2>6, <2>7, <2>8 DEF text
<1>6. CASE Extend(buff) /\ Answer(200, req.offset + Len(buff)) /\ UNCHANGED ignored
  <2>1. pc' = "idle" /\ reply'.code = 200 /\ reply'.size = req.offset + Len(buff)
    BY <1>6 DEF Answer
  <2>2. UploadTypeOK'
    BY <1>1, <1>6, <2>1 DEF UploadInv, UploadTypeOK
  <2>3. /\ TreeOK(tree') /\ (IsDir(tree, Root) => IsDir(tree', Root))
        /\ Content(tree', req.file) = Base \o buff /\ Sizes
    <3>1. buff \in Seq(Data) /\ Len(buff) <= Len(buff)
      BY <1>2
    <3>2. /\ TreeOK(tree') /\ (IsDir(tree, Root) => IsDir(tree', Root))
          /\ Content(tree', req.file) = c \o buff /\ Sizes
      BY <1>5, <1>6, <3>1
    <3> QED
      BY <1>1, <3>2, Zenon
  <2>4. UploadInv'
    BY <1>1, <1>6, <2>1, <2>2, <2>3 DEF UploadInv, InUpload, Base, Stored, OffsetIsSize
  <2> QED
    BY <2>3, <2>4 DEF Sizes
<1>7. CASE /\ ignored' = ignored \cup {"sync"} /\ Answer(200, req.offset + Len(buff))
           /\ UNCHANGED tree
  <2>1. pc' = "idle" /\ reply'.code = 200 /\ reply'.size = req.offset + Len(buff)
    BY <1>7 DEF Answer
  <2>2. UploadTypeOK'
    BY <1>1, <1>7, <2>1 DEF UploadInv, UploadTypeOK
  <2>3. Base' = Base /\ Stored' = <<>> /\ ("unlink" \in ignored' => req.offset = 0)
    BY <1>1, <1>7 DEF Base, Stored
  <2>4. Content(tree', req.file) = Base' \o Stored'
    <3>1. Content(tree', req.file) = c
      BY <1>7 DEF c
    <3>2. c \o <<>> = c
      BY <1>3, ConcatEmptySeq
    <3> QED
      BY <1>1, <2>3, <3>1, <3>2
  <2>5. UploadInv'
    BY <1>1, <1>7, <2>1, <2>2, <2>3, <2>4 DEF UploadInv, InUpload, OffsetIsSize
  <2>6. Sizes
    BY <1>4, <1>7 DEF Sizes
  <2> QED
    BY <1>7, <2>5, <2>6 DEF Sizes
<1>8. CASE /\ \E n \in 0..Len(buff) : Extend(SubSeq(buff, 1, n))
           /\ Answer(500, 0) /\ UNCHANGED ignored
  <2>1. pc' = "idle" /\ reply'.code = 500
    BY <1>8 DEF Answer
  <2>2. PICK n \in 0..Len(buff) : Extend(SubSeq(buff, 1, n))
    BY <1>8
  <2>3. SubSeq(buff, 1, n) \in Seq(Data) /\ Len(SubSeq(buff, 1, n)) <= Len(buff)
    <3>1. /\ n \in Int /\ 1 \in Int /\ n \in Nat /\ n <= Len(buff)
          /\ \A i \in 1..n : i \in 1..Len(buff)
      BY <1>2
    <3>2. \A i \in 1..n : buff[i] \in Data
      BY <1>2, <3>1, ElementOfSeq
    <3>3. /\ SubSeq(buff, 1, n) \in Seq(Data)
          /\ Len(SubSeq(buff, 1, n)) = IF 1 <= n THEN n - 1 + 1 ELSE 0
      BY <3>1, <3>2, SubSeqProperties
    <3> QED
      BY <1>2, <3>1, <3>3
  <2>4. TreeOK(tree') /\ (IsDir(tree, Root) => IsDir(tree', Root)) /\ Sizes
    BY <1>5, <2>2, <2>3
  <2>5. UploadTypeOK'
    BY <1>1, <1>8, <2>1 DEF UploadInv, UploadTypeOK
  <2>6. UploadInv'
    BY <1>1, <1>8, <2>1, <2>5 DEF UploadInv, InUpload
  <2> QED
    BY <2>4, <2>6 DEF Sizes
<1> QED
  BY <1>6, <1>7, <1>8 DEF Write

-----------------------------------------------------------------------------
(* The deletion.                                                           *)

\* The stack of fs_delete_tree holds paths; between deletions /lfs/www
\* exists, and after a 200 it is all there is.
DeleteInv ==
  /\ DeleteTypeOK
  /\ stack \in Seq(Paths \cup {Root})
  /\ dpc # "idle" => deleted = 0
  /\ dpc = "idle" => IsDir(tree, Root)
  /\ deleted = 200 => DOMAIN tree = {Root}

\* A request that is not a deletion keeps /lfs/www and forgets the answer of
\* the last deletion.
LEMMA OthersKeep ==
  ASSUME DeleteInv, NotDeleting, IsDir(tree, Root) => IsDir(tree', Root)
  PROVE  DeleteInv'
BY DEF DeleteInv, DeleteTypeOK, NotDeleting

\* mkdir_web_ui_files adds a directory or nothing.
LEMMA MkdirKeeps ==
  ASSUME DeleteInv, TreeOK(tree), NEW p \in Paths, Mkdir(p)
  PROVE  DeleteInv' /\ TreeOK(tree')
<1>1. CASE CanCreate(tree, p) /\ tree' = With(tree, p, Dir)
  <2>1. TreeOK(tree')
    BY <1>1, WithKeeps
  <2>2. p # Root
    BY PathFacts
  <2>3. \A q \in DOMAIN tree : q # p => tree'[q] = tree[q]
    BY <1>1, WithFacts
  <2>4. DOMAIN tree' = DOMAIN tree \cup {p}
    BY <1>1, WithDomain
  <2>5. IsDir(tree, Root) => IsDir(tree', Root)
    BY <2>2, <2>3, <2>4 DEF IsDir
  <2> QED
    BY <2>1, <2>5, OthersKeep DEF Mkdir
<1>2. CASE UNCHANGED tree
  BY <1>2, OthersKeep DEF Mkdir
<1> QED
  BY <1>1, <1>2 DEF Mkdir

\* The stack has an innermost call, and what is below it another.
LEMMA StackFacts ==
  ASSUME DeleteInv, stack # <<>>
  PROVE  /\ Top \in Paths \cup {Root} /\ Len(Top) = Len(stack) - 1
         /\ Front(stack) \in Seq(Paths \cup {Root})
         /\ \A i \in DOMAIN Front(stack) : Len(Front(stack)[i]) = i - 1
<1> DEFINE S == Paths \cup {Root}
           n == Len(stack) - 1
<1>1. stack \in Seq(S) /\ \A i \in DOMAIN stack : Len(stack[i]) = i - 1
  BY DEF DeleteInv, DeleteTypeOK
<1> HIDE DEF S
<1>2. Len(stack) \in Nat \ {0} /\ DOMAIN stack = 1..Len(stack)
  BY <1>1, EmptySeq, LenProperties
<1>3. Len(stack) \in 1..Len(stack)
  BY <1>2
<1>4. stack[Len(stack)] \in S /\ Len(stack[Len(stack)]) = Len(stack) - 1
  BY <1>1, <1>2, <1>3, ElementOfSeq
<1>5. n \in Nat /\ n <= Len(stack)
  <2>1. \A k \in Nat \ {0} : k - 1 \in Nat /\ k - 1 <= k
    OBVIOUS
  <2> QED
    BY <1>2, <2>1, Zenon
<1> HIDE DEF n
<1>6. /\ n \in Int /\ 1 \in Int /\ \A i \in 1..n : i \in 1..Len(stack)
      /\ \A i \in 1..n : stack[i] \in S
  <2>1. n \in Int /\ 1 \in Int /\ \A i \in 1..n : i \in 1..Len(stack)
    BY <1>2, <1>5
  <2> QED
    BY <1>1, <2>1, ElementOfSeq
<1>7. /\ SubSeq(stack, 1, n) \in Seq(S)
      /\ Len(SubSeq(stack, 1, n)) = IF 1 <= n THEN n - 1 + 1 ELSE 0
      /\ \A i \in 1..(n - 1 + 1) : SubSeq(stack, 1, n)[i] = stack[1 + i - 1]
  BY <1>6, SubSeqProperties
<1>8. Len(SubSeq(stack, 1, n)) = n /\ \A i \in 1..n : SubSeq(stack, 1, n)[i] = stack[i]
  BY <1>5, <1>7
<1>9. DOMAIN SubSeq(stack, 1, n) = 1..n
  BY <1>7, <1>8, LenProperties
<1>10. \A i \in 1..n : Len(SubSeq(stack, 1, n)[i]) = i - 1
  BY <1>1, <1>2, <1>6, <1>8
<1>11. Front(stack) = SubSeq(stack, 1, n)
  BY DEF Front, n
<1> QED
  BY <1>4, <1>7, <1>9, <1>10, <1>11 DEF Top, Last, S

\* A step of a deletion that is under way and leaves the stack as it is.
LEMMA SameStack ==
  ASSUME DeleteInv, dpc # "idle", UNCHANGED <<stack, ret, dpc, before, deleted>>
  PROVE  DeleteInv'
BY DEF DeleteInv, DeleteTypeOK

\* A call of fs_delete_tree returns.
LEMMA ReturnKeeps ==
  ASSUME DeleteInv, dpc = "delete", stack # <<>>, NEW r \in {"ok", "error"}, Return(r),
         UNCHANGED <<dpc, before, deleted>>
  PROVE  DeleteInv'
<1>1. /\ stack' \in Seq(Paths \cup {Root})
      /\ \A i \in DOMAIN stack' : Len(stack'[i]) = i - 1
  BY StackFacts DEF Return
<1>2. ret' \in {"none", "ok", "error"}
  BY DEF Return
<1> QED
  BY <1>1, <1>2 DEF DeleteInv, DeleteTypeOK

\* The deletion begins, goes on in directory after directory, and ends.
LEMMA DeleteKeeps ==
  ASSUME DeleteInv, TreeOK(tree), DeleteStep
  PROVE  DeleteInv' /\ TreeOK(tree')
<1>1. CASE DeleteRequest
  <2>1. /\ stack' = <<Root>> /\ dpc' = "delete" /\ deleted' = 0 /\ tree' = tree /\ ret' = ret
        /\ before' = Cardinality(DOMAIN tree)
    BY <1>1 DEF DeleteRequest
  <2>2. before' \in Nat
    BY <2>1, FS_CardinalityType DEF TreeOK
  <2>3. \A i \in DOMAIN <<Root>> : Len(<<Root>>[i]) = i - 1
    BY EmptySeq DEF Root
  <2>4. <<Root>> \in Seq(Paths \cup {Root})
    OBVIOUS
  <2> QED
    BY <2>1, <2>2, <2>3, <2>4 DEF DeleteInv, DeleteTypeOK
<1>2. CASE DeleteFile
  <2>1. dpc # "idle" /\ UNCHANGED deleteVars /\ \E c : tree' = Unlink(tree, c)
    BY <1>2 DEF DeleteFile, Listing
  <2> QED
    BY <2>1, SameStack, UnlinkKeeps DEF deleteVars
<1>3. CASE EnterDir
  <2>1. PICK c \in Children(tree, Top) : stack' = Append(stack, c)
    BY <1>3 DEF EnterDir
  <2>2. /\ stack # <<>> /\ dpc = "delete" /\ UNCHANGED <<tree, ret, dpc, before, deleted>>
    BY <1>3 DEF EnterDir, Listing
  <2>3. c \in Paths /\ Front(c) = Top
    BY <2>1 DEF Children, TreeOK
  <2>4. Len(c) = Len(stack)
    <3>1. Len(stack) \in Nat
      BY LenProperties DEF DeleteInv
    <3> QED
      BY <2>2, <2>3, <3>1, StackFacts, PathFacts
  <2>5. stack \in Seq(Paths \cup {Root}) /\ \A i \in DOMAIN stack : Len(stack[i]) = i - 1
    BY DEF DeleteInv, DeleteTypeOK
  <2>6. /\ stack' \in Seq(Paths \cup {Root})
        /\ Len(stack') = Len(stack) + 1
        /\ \A i \in 1..Len(stack) : stack'[i] = stack[i]
        /\ stack'[Len(stack) + 1] = c
    BY <2>1, <2>3, <2>5, AppendProperties
  <2>7. \A i \in DOMAIN stack' : Len(stack'[i]) = i - 1
    <3>1. DOMAIN stack' = 1..Len(stack') /\ DOMAIN stack = 1..Len(stack) /\ Len(stack) \in Nat
      BY <2>5, <2>6, LenProperties
    <3> SUFFICES ASSUME NEW i \in 1..(Len(stack) + 1) PROVE Len(stack'[i]) = i - 1
      BY <2>6, <3>1
    <3>2. CASE i \in 1..Len(stack)
      BY <2>5, <2>6, <3>1, <3>2
    <3>3. CASE i = Len(stack) + 1
      BY <2>4, <2>6, <3>1, <3>3
    <3> QED
      BY <3>1, <3>2, <3>3
  <2> QED
    BY <2>2, <2>6, <2>7 DEF DeleteInv, DeleteTypeOK
<1>4. CASE AfterDir
  <2>1. /\ dpc = "delete" /\ stack # <<>> /\ Return("error") /\ UNCHANGED <<dpc, before, deleted>>
        /\ tree' = Unlink(tree, Top) \/ tree' = tree
    BY <1>4 DEF AfterDir
  <2> QED
    BY <2>1, ReturnKeeps, UnlinkKeeps
<1>5. CASE EndOfDir
  <2>1. /\ dpc = "delete" /\ stack # <<>> /\ UNCHANGED <<dpc, before, deleted>>
        /\ Return("ok") \/ Return("error")
        /\ tree' = Unlink(tree, Top)
    BY <1>5 DEF EndOfDir, Listing
  <2> QED
    BY <2>1, ReturnKeeps, UnlinkKeeps
<1>6. CASE UnlinkRoot
  <2>1. /\ dpc = "delete" /\ dpc' = "mkdir" /\ ret' = "none" /\ UNCHANGED <<stack, before, deleted>>
        /\ tree' = Unlink(tree, Root)
    BY <1>6 DEF UnlinkRoot
  <2>2. TreeOK(tree')
    BY <2>1, UnlinkKeeps
  <2> QED
    BY <2>1, <2>2 DEF DeleteInv, DeleteTypeOK
<1>7. CASE MkdirRoot
  <2>1. /\ dpc = "mkdir" /\ dpc' = "idle" /\ UNCHANGED <<stack, ret, before>>
    BY <1>7 DEF MkdirRoot
  <2>2. CASE CanCreate(tree, Root) /\ tree' = With(tree, Root, Dir) /\ deleted' = 200
    <3>1. TreeOK(tree')
      BY <2>2, WithKeeps
    <3>2. tree'[Root] = Dir
      BY <2>2, WithFacts
    <3>3. DOMAIN tree' = DOMAIN tree \cup {Root}
      BY <2>2, WithDomain
    <3>4. DOMAIN tree = {}
      BY <2>2, RootOrNothing DEF CanCreate
    <3>5. IsDir(tree', Root) /\ DOMAIN tree' = {Root}
      BY <3>2, <3>3, <3>4, KindFacts DEF IsDir
    <3> QED
      BY <2>1, <2>2, <3>1, <3>5 DEF DeleteInv, DeleteTypeOK
  <2>3. CASE ~CanCreate(tree, Root) /\ UNCHANGED tree /\ deleted' = 500
    <3>1. IsDir(tree, Root)
      BY <2>3, TreeFacts DEF CanCreate, TreeOK
    <3> QED
      BY <2>1, <2>3, <3>1 DEF DeleteInv, DeleteTypeOK
  <2> QED
    BY <1>7, <2>2, <2>3 DEF MkdirRoot
<1> QED
  BY <1>1, <1>2, <1>3, <1>4, <1>5, <1>6, <1>7 DEF DeleteStep

-----------------------------------------------------------------------------
(* All of it.                                                              *)

FilesInv == TreeOK(tree) /\ UploadInv /\ DeleteInv

\* The first boot makes a tree, and nothing is in progress.
LEMMA FilesInit == Init => FilesInv
<1> SUFFICES ASSUME Init PROVE FilesInv
  OBVIOUS
<1>1. TreeOK(tree) /\ IsDir(tree, Root)
  BY NoFilesIsTree, BootKeeps DEF Init, StoreInit
<1>2. UploadTypeOK
  <2>1. 0 \in 0..Len(<<>>)
    BY NoUpload
  <2> QED
    BY <2>1, NoUpload DEF Init, UploadInit, UploadTypeOK
<1>3. UploadInv
  BY <1>2, NoUpload DEF Init, UploadInit, UploadInv, InUpload
<1>4. DeleteInv
  <2>1. DOMAIN <<>> = {} /\ <<>> \in Seq(Paths \cup {Root})
    BY EmptySeq
  <2> QED
    BY <1>1, <2>1 DEF Init, DeleteInit, DeleteInv, DeleteTypeOK
<1> QED
  BY <1>1, <1>3, <1>4 DEF FilesInv

\* A reset cuts everything short.
LEMMA RestartKeeps == ASSUME FilesInv, Restart PROVE FilesInv'
<1>1. /\ tree' \in BootTrees(tree)
      /\ buff' = <<>> /\ pc' = "idle" /\ req' = NoReq /\ stale' = 0 /\ old' = <<>>
      /\ ignored' = {} /\ reply' = NoReply
      /\ stack' = <<>> /\ ret' = "none" /\ dpc' = "idle" /\ before' = 0 /\ deleted' = 0
  BY DEF Restart
<1>2. TreeOK(tree') /\ IsDir(tree', Root)
  BY <1>1, BootsKeep DEF FilesInv
<1>3. UploadTypeOK'
  <2>1. 0 \in 0..Len(<<>>)
    BY NoUpload
  <2> QED
    BY <1>1, <2>1, NoUpload DEF UploadTypeOK
<1>4. UploadInv'
  BY <1>1, <1>3, NoUpload DEF UploadInv, InUpload
<1>5. DeleteInv'
  <2>1. DOMAIN <<>> = {} /\ <<>> \in Seq(Paths \cup {Root})
    BY EmptySeq
  <2> QED
    BY <1>1, <1>2, <2>1 DEF DeleteInv, DeleteTypeOK
<1> QED
  BY <1>2, <1>4, <1>5 DEF FilesInv

\* A step of the upload.
LEMMA UploadKeeps == ASSUME FilesInv, Upload PROVE FilesInv'
<1>1. UploadInv /\ TreeOK(tree) /\ DeleteInv /\ NotDeleting /\ UploadStep
  BY DEF FilesInv, Upload
<1>2. UploadInv' /\ TreeOK(tree') /\ (IsDir(tree, Root) => IsDir(tree', Root))
  <2>1. ASSUME NEW f \in Paths, NEW off \in 0..MaxSize, Begin(f, off)
        PROVE  UploadInv' /\ tree' = tree
    BY <1>1, <2>1, BeginKeeps DEF Begin
  <2>2. ASSUME NEW d \in Parts, NEW final \in BOOLEAN, Receive(d, final)
        PROVE  UploadInv' /\ tree' = tree
    <3>1. d \in Seq(Data)
      <4>1. PICK m \in 0..BufCap : d \in [1..m -> Data]
        BY Zenon DEF Parts, SeqOf
      <4>2. m \in Nat
        BY <4>1, StoreFacts
      <4> QED
        BY <4>1, <4>2, SeqDef
    <3> QED
      BY <1>1, <2>2, <3>1, ReceiveKeeps DEF Receive, Drop
  <2>3. ASSUME Abort PROVE UploadInv' /\ tree' = tree
    BY <1>1, <2>3, DropKeeps DEF Abort, Drop
  <2> QED
    BY <1>1, <2>1, <2>2, <2>3, TruncateKeeps, OpenKeeps, WriteKeeps DEF UploadStep
<1>3. DeleteInv'
  BY <1>1, <1>2, OthersKeep
<1> QED
  BY <1>2, <1>3 DEF FilesInv

\* A request about directories.
LEMMA DirectoriesKeep == ASSUME FilesInv, Directories PROVE FilesInv'
<1>1. UploadInv'
  BY WaitKeeps DEF FilesInv, Directories
<1>2. DeleteInv' /\ TreeOK(tree')
  BY MkdirKeeps, DeleteKeeps DEF FilesInv, Directories
<1> QED
  BY <1>1, <1>2 DEF FilesInv

\* The invariant holds always.
LEMMA FilesKept == Spec => []FilesInv
<1>1. FilesInv /\ [Next]_vars => FilesInv'
  <2> SUFFICES ASSUME FilesInv, [Next]_vars PROVE FilesInv'
    OBVIOUS
  <2>1. CASE UNCHANGED vars
    <3> USE <2>1 DEF vars, uploadVars, deleteVars, FilesInv
    <3>1. TreeOK(tree')
      OBVIOUS
    <3>2. UploadInv'
      <4>1. UploadTypeOK' /\ Base' = Base /\ Stored' = Stored
        BY DEF UploadInv, UploadTypeOK, Base, Stored
      <4> QED
        BY <4>1 DEF UploadInv, InUpload, OffsetIsSize
    <3>3. DeleteInv'
      BY DEF DeleteInv, DeleteTypeOK
    <3> QED
      BY <3>1, <3>2, <3>3
  <2> QED
    BY <2>1, UploadKeeps, DirectoriesKeep, RestartKeeps DEF Next
<1> QED
  BY <1>1, FilesInit, PTL DEF Spec

\* What exists is a tree, and every variable keeps its type.
THEOREM FilesTypeCorrect == Spec => []TypeOK
<1>1. FilesInv => TypeOK
  <2> SUFFICES ASSUME FilesInv PROVE TypeOK
    OBVIOUS
  <2>1. TreeOK(tree)
    BY DEF FilesInv
  <2>2. StoreTypeOK
    <3>1. ASSUME NEW p \in DOMAIN tree
          PROVE  /\ IsDir(tree, p) => tree[p] = Dir
                 /\ IsFile(tree, p) => tree[p].data \in Seq(Data)
                 /\ p # Root => IsDir(tree, Front(p))
      BY <2>1, TreeFacts DEF TreeOK, Content
    <3> QED
      BY <2>1, <3>1 DEF TreeOK, StoreTypeOK
  <2> QED
    BY <2>2 DEF FilesInv, UploadInv, DeleteInv, TypeOK
<1> QED
  BY <1>1, FilesKept, PTL

\* No file outgrows MAX_SIZE, not even one written at an offset it does not
\* have, unless the flash refused to remove it.
THEOREM FilesAreBounded == Spec => SizeBounded
<1> DEFINE Grows(p) ==
             \/ Len(Content(tree', p)) <= Len(Content(tree, p))
             \/ Len(Content(tree', p)) <= MaxSize
             \/ p = req.file /\ req.offset = 0 /\ "unlink" \in ignored
<1>1. ASSUME FilesInv, FilesInv', Next PROVE \A p \in Paths : Grows(p)
  <2>1. TreeOK(tree) /\ UploadInv
    BY <1>1 DEF FilesInv
  <2>2. NoLonger(tree, tree') => \A p \in Paths : Grows(p)
    BY DEF NoLonger
  <2>3. CASE Write
    <3> SUFFICES ASSUME NEW p \in Paths PROVE Grows(p)
      OBVIOUS
    <3>1. \/ Len(Content(tree', p)) <= Len(Content(tree, p))
          \/ p = req.file /\ Len(Content(tree', p)) <= Len(Content(tree, p)) + Len(buff)
      BY <2>1, <2>3, WriteKeeps
    <3>2. /\ "unlink" \in ignored \/ Len(Content(tree, req.file)) + Len(buff) <= MaxSize
          /\ "unlink" \in ignored => req.offset = 0
      BY <2>1, <2>3, WriteFits DEF Write, UploadInv
    <3>3. Len(Content(tree, p)) \in Nat /\ Len(Content(tree', p)) \in Nat
          /\ Len(buff) \in Nat /\ MaxSize \in Nat
      BY <1>1, <2>1, TreeFacts, UploadFacts, StoreFacts DEF FilesInv, UploadInv
    <3> QED
      BY <3>1, <3>2, <3>3
  <2>4. CASE Open
    <3>1. tree' = tree \/ tree' = With(tree, req.file, File(Content(tree, req.file)))
      BY <2>4 DEF Open
    <3>2. ASSUME NEW p PROVE Content(tree', p) = Content(tree, p)
      <4>1. CASE p # req.file
        BY <3>1, <4>1, WithFile
      <4>2. CASE p = req.file
        BY <3>1, <4>2, WithFile
      <4> QED
        BY <4>1, <4>2
    <3> QED
      BY <2>1, <2>2, <3>2, TreeFacts DEF NoLonger
  <2>5. ASSUME \/ tree' = tree
               \/ \E p : tree' = Unlink(tree, p) \/ tree' = With(tree, p, Dir)
               \/ tree' \in BootTrees(tree)
        PROVE  NoLonger(tree, tree')
    BY <2>1, <2>5, NoLongerSame, UnlinkNoLonger, NewDirNoLonger, BootsKeep
  <2>6. CASE Upload /\ ~Write /\ ~Open
    <3>1. tree' = tree \/ tree' = Unlink(tree, req.file)
      BY <2>6 DEF Upload, UploadStep, Begin, Receive, Abort, Drop, Truncate
    <3> QED
      BY <2>2, <2>5, <3>1
  <2>7. CASE Directories
    <3>1. \/ tree' = tree
          \/ \E p : tree' = Unlink(tree, p) \/ tree' = With(tree, p, Dir)
      BY <2>7
      DEF Directories, Mkdir, DeleteStep, DeleteRequest, DeleteFile, EnterDir, AfterDir,
          EndOfDir, UnlinkRoot, MkdirRoot
    <3> QED
      BY <2>2, <2>5, <3>1
  <2>8. CASE Restart
    BY <2>2, <2>5, <2>8 DEF Restart
  <2> QED
    BY <1>1, <2>3, <2>4, <2>6, <2>7, <2>8 DEF Next
<1>2. FilesInv /\ FilesInv' /\ [Next]_vars
        => [\A p \in Paths :
              Len(Content(tree', p)) > MaxSize
                => \/ Len(Content(tree', p)) <= Len(Content(tree, p))
                   \/ p = req.file /\ req.offset = 0 /\ "unlink" \in ignored]_vars
  <2> SUFFICES ASSUME FilesInv, FilesInv', Next, NEW p \in Paths,
                      Len(Content(tree', p)) > MaxSize
               PROVE  \/ Len(Content(tree', p)) <= Len(Content(tree, p))
                      \/ p = req.file /\ req.offset = 0 /\ "unlink" \in ignored
    OBVIOUS
  <2>1. Len(Content(tree', p)) \in Nat /\ MaxSize \in Nat
    BY TreeFacts, StoreFacts DEF FilesInv
  <2> QED
    BY <1>1, <2>1
<1> QED
  BY <1>2, FilesKept, PTL DEF Spec, SizeBounded

\* A 200 means that the file is what it was and the body, but for the errors
\* that are ignored.
THEOREM UploadsAreExact == Spec => []CleanUploadIsExact
<1>1. FilesInv => CleanUploadIsExact
  BY DEF FilesInv, UploadInv, CleanUploadIsExact
<1> QED
  BY <1>1, FilesKept, PTL

\* The size that is answered is the size of the file, unless an error was
\* ignored.
THEOREM SizesAreTrue == Spec => []AnsweredSizeIsNext
<1>1. FilesInv => AnsweredSizeIsNext
  <2> SUFFICES ASSUME FilesInv, reply.code = 200, ignored = {}, req.offset > 0 => old # <<>>
               PROVE  reply.size = Len(Content(tree, req.file))
    BY DEF AnsweredSizeIsNext
  <2>1. /\ Content(tree, req.file) = Base \o buff /\ reply.size = req.offset + Len(buff)
        /\ OffsetIsSize /\ UploadTypeOK
    BY DEF FilesInv, UploadInv, Stored
  <2>2. /\ buff \in Seq(Data) /\ old \in Seq(Data) /\ <<>> \in Seq(Data) /\ Len(<<>>) = 0
        /\ req.offset \in Nat
    BY <2>1, UploadFacts, EmptySeq
  <2>3. Base \in Seq(Data) /\ Len(Base) = req.offset
    BY <2>1, <2>2 DEF Base, OffsetIsSize
  <2>4. Len(Base \o buff) = Len(Base) + Len(buff)
    BY <2>2, <2>3, ConcatProperties
  <2> QED
    BY <2>1, <2>3, <2>4
<1> QED
  BY <1>1, FilesKept, PTL

\* Whenever no deletion is under way, /lfs/www exists.
THEOREM RootIsKept == Spec => []RootIsThere
<1>1. FilesInv => RootIsThere
  BY DEF FilesInv, DeleteInv, RootIsThere
<1> QED
  BY <1>1, FilesKept, PTL

\* A deletion that is answered with 200 has removed everything.
THEOREM DeletionsAreTruthful == Spec => []DeletedMeansEmpty
<1>1. FilesInv => DeletedMeansEmpty
  BY DEF FilesInv, DeleteInv, DeletedMeansEmpty
<1> QED
  BY <1>1, FilesKept, PTL

-----------------------------------------------------------------------------
(* How far a deletion gets.                                                *)

Exists == Cardinality(DOMAIN tree)

\* Whatever call of fs_delete_tree returns, something has been removed by
\* then: the innermost call has removed its directory.
ProgressInv ==
  /\ deleted = 500 => Exists < before
  /\ dpc # "idle" => Exists <= before
  /\ dpc = "mkdir" => Exists < before
  /\ dpc # "delete" => ret = "none"
  /\ dpc = "delete" /\ ret # "none" => Exists < before
  /\ dpc = "delete" /\ ret = "none" =>
       stack # <<>> /\ \A i \in DOMAIN stack : IsDir(tree, stack[i])

\* fs_unlink never adds anything, and removes what has nothing in it.
LEMMA UnlinkShrinks ==
  ASSUME NEW t, TreeOK(t), NEW p
  PROVE  /\ Cardinality(DOMAIN t) \in Nat
         /\ Cardinality(DOMAIN Unlink(t, p)) \in Nat
         /\ Cardinality(DOMAIN Unlink(t, p)) <= Cardinality(DOMAIN t)
         /\ p \in DOMAIN t /\ Children(t, p) = {}
              => Cardinality(DOMAIN Unlink(t, p)) < Cardinality(DOMAIN t)
<1>1. IsFiniteSet(DOMAIN t) /\ Cardinality(DOMAIN t) \in Nat
  BY FS_CardinalityType DEF TreeOK
<1>2. CASE Children(t, p) # {}
  BY <1>1, <1>2 DEF Unlink
<1>3. CASE Children(t, p) = {}
  <2>1. DOMAIN Unlink(t, p) = DOMAIN t \ {p}
    BY <1>3, Zenon DEF Unlink
  <2>2. /\ Cardinality(DOMAIN t \ {p}) \in Nat
        /\ Cardinality(DOMAIN t \ {p}) =
             IF p \in DOMAIN t THEN Cardinality(DOMAIN t) - 1 ELSE Cardinality(DOMAIN t)
    BY <1>1, FS_RemoveElement, FS_CardinalityType
  <2> QED
    BY <1>1, <2>1, <2>2
<1> QED
  BY <1>2, <1>3

\* At the first boot no deletion is under way.
LEMMA ProgressInit == Init => ProgressInv
BY DEF Init, DeleteInit, ProgressInv

\* Only a deletion that is under way has anything to keep.
LEMMA ProgressElsewhere ==
  ASSUME dpc' = "idle", ret' = "none", deleted' = 0
  PROVE  ProgressInv'
BY DEF ProgressInv

\* One step of a deletion.
LEMMA ProgressStep ==
  ASSUME FilesInv, ProgressInv, DeleteStep
  PROVE  ProgressInv'
<1>0. TreeOK(tree) /\ DeleteInv /\ before \in Nat
  BY DEF FilesInv, DeleteInv, DeleteTypeOK
<1>1. Exists \in Nat
  BY <1>0, UnlinkShrinks DEF Exists
<1>2. CASE DeleteRequest
  <2>1. /\ stack' = <<Root>> /\ dpc' = "delete" /\ deleted' = 0 /\ tree' = tree
        /\ ret' = "none" /\ before' = Exists
    BY <1>2 DEF DeleteRequest, ProgressInv, Exists
  <2>2. IsDir(tree', Root)
    BY <1>0, <1>2, <2>1 DEF DeleteRequest, DeleteInv
  <2>3. \A i \in DOMAIN <<Root>> : <<Root>>[i] = Root
    OBVIOUS
  <2> QED
    BY <1>1, <2>1, <2>2, <2>3 DEF ProgressInv, Exists
<1>3. CASE DeleteFile
  <2>1. PICK c \in Children(tree, Top) : IsFile(tree, c) /\ tree' = Unlink(tree, c)
    BY <1>3 DEF DeleteFile
  <2>2. dpc = "delete" /\ ret = "none" /\ UNCHANGED deleteVars
    BY <1>3 DEF DeleteFile, Listing
  <2>3. c \in DOMAIN tree /\ Children(tree, c) = {} /\ ~IsDir(tree, c)
    BY <1>0, <2>1, TreeFacts
  <2>4. Exists' < Exists /\ Exists' \in Nat
    BY <1>0, <2>1, <2>3, UnlinkShrinks DEF Exists
  <2>5. ASSUME NEW i \in DOMAIN stack PROVE IsDir(tree', stack[i])
    <3>1. IsDir(tree, stack[i])
      BY <2>2 DEF ProgressInv
    <3>2. stack[i] # c
      BY <2>3, <3>1
    <3> QED
      BY <1>0, <2>1, <3>1, <3>2, UnlinkKeeps DEF IsDir
  <2>6. deleted' = 0 /\ before' = before /\ dpc' = "delete" /\ ret' = "none" /\ stack' = stack
    BY <1>0, <2>2 DEF DeleteInv, deleteVars
  <2>7. Exists <= before /\ stack # <<>>
    BY <2>2 DEF ProgressInv
  <2> QED
    BY <1>0, <1>1, <2>4, <2>5, <2>6, <2>7 DEF ProgressInv
<1>4. CASE EnterDir
  <2>1. PICK c \in Children(tree, Top) : IsDir(tree, c) /\ stack' = Append(stack, c)
    BY <1>4 DEF EnterDir
  <2>2. dpc = "delete" /\ ret = "none" /\ UNCHANGED <<tree, ret, dpc, before, deleted>>
    BY <1>4 DEF EnterDir, Listing
  <2>3. stack \in Seq(Paths \cup {Root}) /\ c \in Paths \cup {Root}
    BY <1>0, <2>1 DEF DeleteInv, TreeOK, Children
  <2>4. /\ stack' # <<>> /\ DOMAIN stack' = 1..(Len(stack) + 1) /\ DOMAIN stack = 1..Len(stack)
        /\ \A i \in 1..Len(stack) : stack'[i] = stack[i]
        /\ stack'[Len(stack) + 1] = c /\ Len(stack) \in Nat
    BY <2>1, <2>3, AppendProperties, LenProperties
  <2>5. ASSUME NEW i \in DOMAIN stack' PROVE IsDir(tree', stack'[i])
    <3>1. CASE i = Len(stack) + 1
      BY <2>1, <2>2, <2>4, <3>1
    <3>2. CASE i # Len(stack) + 1
      <4>1. i \in DOMAIN stack /\ stack'[i] = stack[i]
        BY <2>4, <3>2
      <4> QED
        BY <2>2, <4>1 DEF ProgressInv
    <3> QED
      BY <3>1, <3>2
  <2>6. Exists' = Exists
    BY <2>2 DEF Exists
  <2> QED
    BY <1>0, <2>2, <2>4, <2>5, <2>6 DEF ProgressInv, DeleteInv
<1>5. CASE AfterDir
  <2>1. /\ dpc = "delete" /\ ret # "none" /\ ret' # "none" /\ UNCHANGED <<dpc, before, deleted>>
        /\ tree' = Unlink(tree, Top) \/ tree' = tree
    BY <1>5 DEF AfterDir, Return
  <2>2. Exists' \in Nat /\ Exists' <= Exists
    BY <1>0, <1>1, <2>1, UnlinkShrinks DEF Exists
  <2> QED
    BY <1>0, <1>1, <2>1, <2>2 DEF ProgressInv, DeleteInv
<1>6. CASE EndOfDir
  <2>1. /\ dpc = "delete" /\ ret = "none" /\ ret' # "none" /\ UNCHANGED <<dpc, before, deleted>>
        /\ Children(tree, Top) = {} /\ tree' = Unlink(tree, Top)
    BY <1>6 DEF EndOfDir, Listing, Return
  <2>2. Top \in DOMAIN tree
    <3>1. stack # <<>> /\ \A i \in DOMAIN stack : stack[i] \in DOMAIN tree
      BY <2>1 DEF ProgressInv, IsDir
    <3>2. stack \in Seq(Paths \cup {Root})
      BY <1>0 DEF DeleteInv
    <3>3. Len(stack) \in DOMAIN stack
      BY <3>1, <3>2, EmptySeq, LenProperties
    <3> QED
      BY <3>1, <3>3 DEF Top, Last
  <2>3. Exists' \in Nat /\ Exists' < Exists
    BY <1>0, <2>1, <2>2, UnlinkShrinks DEF Exists
  <2> QED
    BY <1>0, <1>1, <2>1, <2>3 DEF ProgressInv, DeleteInv
<1>7. CASE UnlinkRoot
  <2>1. /\ dpc = "delete" /\ stack = <<>> /\ dpc' = "mkdir" /\ ret' = "none"
        /\ UNCHANGED <<before, deleted>> /\ tree' = Unlink(tree, Root)
    BY <1>7 DEF UnlinkRoot
  <2>2. Exists' \in Nat /\ Exists' <= Exists /\ Exists < before
    BY <1>0, <2>1, UnlinkShrinks DEF Exists, ProgressInv
  <2> QED
    BY <1>0, <1>1, <2>1, <2>2 DEF ProgressInv, DeleteInv
<1>8. CASE MkdirRoot
  <2>1. /\ dpc = "mkdir" /\ dpc' = "idle" /\ UNCHANGED <<ret, before>>
        /\ deleted' = 200 \/ UNCHANGED tree
    BY <1>8 DEF MkdirRoot
  <2> QED
    BY <2>1 DEF ProgressInv, Exists
<1> QED
  BY <1>2, <1>3, <1>4, <1>5, <1>6, <1>7, <1>8 DEF DeleteStep

\* The invariant holds always.
LEMMA ProgressKept == Spec => []ProgressInv
<1>1. FilesInv /\ ProgressInv /\ [Next]_vars => ProgressInv'
  <2> SUFFICES ASSUME FilesInv, ProgressInv, [Next]_vars PROVE ProgressInv'
    OBVIOUS
  <2>1. CASE NotDeleting
    BY <2>1, ProgressElsewhere DEF NotDeleting, ProgressInv
  <2>2. CASE Restart
    BY <2>2, ProgressElsewhere DEF Restart
  <2>3. CASE DeleteStep
    BY <2>3, ProgressStep
  <2>4. CASE UNCHANGED vars
    BY <2>4 DEF vars, deleteVars, ProgressInv, Exists
  <2> QED
    BY <2>1, <2>2, <2>3, <2>4 DEF Next, Upload, Directories, Mkdir
<1> QED
  BY <1>1, ProgressInit, FilesKept, PTL DEF Spec

\* A deletion of anything leaves less than it found, also when it fails.
THEOREM DeletionsProgress == Spec => []DeletionProgresses
<1>1. FilesInv /\ ProgressInv => DeletionProgresses
  <2> SUFFICES ASSUME FilesInv, ProgressInv, deleted # 0, before > 1
               PROVE  Cardinality(DOMAIN tree) < before
    BY DEF DeletionProgresses
  <2>1. deleted \in {0, 200, 500} /\ (deleted = 200 => DOMAIN tree = {Root}) /\ before \in Nat
    BY DEF FilesInv, DeleteInv, DeleteTypeOK
  <2>2. CASE deleted = 200
    BY <2>1, <2>2, FS_Singleton
  <2>3. CASE deleted = 500
    BY <2>3 DEF ProgressInv, Exists
  <2> QED
    BY <2>1, <2>2, <2>3
<1> QED
  BY <1>1, FilesKept, ProgressKept, PTL

\* How many steps a deletion still has before it, at most: entries to remove
\* and directories to enter while no call has returned, and then calls to
\* return from.
Effort ==
  CASE dpc = "idle" -> 0
    [] dpc = "mkdir" -> 1
    [] dpc = "delete" /\ ret # "none" -> Len(stack) + 2
    [] OTHER -> Exists + 2 * MaxDepth + 5 - Len(stack)

\* fs_delete_tree calls itself at most as deep as paths are long.
LEMMA StackBounded ==
  ASSUME DeleteInv
  PROVE  Len(stack) \in Nat /\ Len(stack) <= MaxDepth + 1
<1>1. Len(stack) \in Nat
  BY LenProperties DEF DeleteInv
<1>2. CASE stack = <<>>
  BY <1>1, <1>2, EmptySeq, StoreFacts
<1>3. CASE stack # <<>>
  <2>1. Top \in Paths \cup {Root} /\ Len(Top) = Len(stack) - 1
    BY <1>3, StackFacts
  <2>2. Len(Top) <= MaxDepth
    <3>1. CASE Top = Root
      BY <3>1, EmptySeq, StoreFacts DEF Root
    <3>2. CASE Top \in Paths
      <4>1. PICK m \in 0..MaxDepth : Top \in [1..m -> Names]
        BY <3>2, Zenon DEF Paths, SeqOf
      <4>2. Top \in Seq(Names) /\ m \in Nat /\ m <= MaxDepth
        BY <4>1, StoreFacts, SeqDef
      <4>3. DOMAIN Top = 1..m /\ DOMAIN Top = 1..Len(Top) /\ Len(Top) \in Nat
        BY <4>1, <4>2, LenProperties
      <4>4. Len(Top) = m
        BY <4>2, <4>3
      <4> QED
        BY <4>2, <4>4
    <3> QED
      BY <2>1, <3>1, <3>2
  <2> QED
    BY <1>1, <2>1, <2>2, StoreFacts
<1> QED
  BY <1>2, <1>3

\* Effort, case by case.
LEMMA EffortIs ==
  /\ dpc = "idle" => Effort = 0
  /\ dpc = "mkdir" => Effort = 1
  /\ dpc = "delete" /\ ret # "none" => Effort = Len(stack) + 2
  /\ dpc = "delete" /\ ret = "none" => Effort = Exists + 2 * MaxDepth + 5 - Len(stack)
BY DEF Effort

\* Effort is the number of a step that is left.
LEMMA EffortType == ASSUME FilesInv PROVE Effort \in Nat /\ Exists \in Nat
<1>1. TreeOK(tree) /\ dpc \in {"idle", "delete", "mkdir"} /\ DeleteInv
  BY DEF FilesInv, DeleteInv, DeleteTypeOK
<1>2. Exists \in Nat
  BY <1>1, UnlinkShrinks DEF Exists
<1>3. Len(stack) \in Nat /\ Len(stack) <= MaxDepth + 1 /\ MaxDepth \in Nat
  BY <1>1, StackBounded, StoreFacts
<1> QED
  BY <1>1, <1>2, <1>3, EffortIs

\* A step of a deletion brings it nearer to its end.
LEMMA EffortStep ==
  ASSUME FilesInv, FilesInv', ProgressInv, DeleteStep, dpc # "idle"
  PROVE  Effort' < Effort
<1>1. TreeOK(tree) /\ DeleteInv /\ DeleteInv' /\ MaxDepth \in Nat
  BY StoreFacts DEF FilesInv
<1>2. Effort \in Nat /\ Exists \in Nat
  BY EffortType
<1>3. /\ Len(stack) \in Nat /\ Len(stack) <= MaxDepth + 1
      /\ Len(stack') \in Nat
  BY <1>1, StackBounded, LenProperties DEF DeleteInv
<1>4. /\ dpc' = "mkdir" => Effort' = 1
      /\ dpc' = "idle" => Effort' = 0
      /\ dpc' = "delete" /\ ret' # "none" => Effort' = Len(stack') + 2
      /\ dpc' = "delete" /\ ret' = "none" => Effort' = Exists' + 2 * MaxDepth + 5 - Len(stack')
  BY DEF Effort
<1>5. CASE DeleteFile
  <2>1. PICK c \in Children(tree, Top) : IsFile(tree, c) /\ tree' = Unlink(tree, c)
    BY <1>5 DEF DeleteFile
  <2>2. c \in DOMAIN tree /\ Children(tree, c) = {}
    BY <1>1, <2>1, TreeFacts
  <2>3. Exists' < Exists /\ Exists' \in Nat
    BY <1>1, <2>1, <2>2, UnlinkShrinks DEF Exists
  <2>4. dpc = "delete" /\ ret = "none" /\ dpc' = dpc /\ ret' = ret /\ stack' = stack
    BY <1>5 DEF DeleteFile, Listing, deleteVars
  <2> QED
    BY <1>1, <1>2, <1>3, <1>4, <2>3, <2>4, EffortIs
<1>6. CASE EnterDir
  <2>1. PICK c \in Children(tree, Top) : stack' = Append(stack, c)
    BY <1>6 DEF EnterDir
  <2>2. stack \in Seq(Paths \cup {Root}) /\ c \in Paths \cup {Root}
    BY <1>1, <2>1 DEF DeleteInv, TreeOK, Children
  <2>3. Len(stack') = Len(stack) + 1
    BY <2>1, <2>2, AppendProperties
  <2>4. dpc = "delete" /\ ret = "none" /\ dpc' = dpc /\ ret' = ret /\ Exists' = Exists
    BY <1>6 DEF EnterDir, Listing, Exists
  <2> QED
    BY <1>1, <1>2, <1>3, <1>4, <2>3, <2>4, EffortIs
<1>7. ASSUME NEW r \in {"ok", "error"}, Return(r), stack # <<>>
      PROVE  Len(stack') = Len(stack) - 1 /\ ret' # "none"
  <2>1. stack \in Seq(Paths \cup {Root}) /\ Len(stack) # 0 /\ Len(stack) \in Nat
    BY <1>1, <1>3, <1>7, EmptySeq DEF DeleteInv
  <2> DEFINE n == Len(stack) - 1
  <2>2. n \in Int /\ 1 \in Int /\ (\A i \in 1..n : i \in 1..Len(stack)) /\ n \in Nat
    BY <2>1
  <2>3. \A i \in 1..n : stack[i] \in Paths \cup {Root}
    BY <2>1, <2>2, ElementOfSeq
  <2>4. Len(SubSeq(stack, 1, n)) = IF 1 <= n THEN n - 1 + 1 ELSE 0
    BY <2>2, <2>3, SubSeqProperties
  <2>5. Len(SubSeq(stack, 1, n)) = n
    <3> HIDE DEF n
    <3> QED
      BY <2>2, <2>4
  <2> QED
    BY <1>7, <2>5 DEF Return, Front
<1>8. CASE AfterDir
  <2>1. /\ dpc = "delete" /\ ret # "none" /\ dpc' = "delete" /\ ret' # "none"
        /\ Len(stack') = Len(stack) - 1
    BY <1>7, <1>8 DEF AfterDir
  <2> QED
    BY <1>2, <1>3, <1>4, <2>1, EffortIs
<1>9. CASE EndOfDir
  <2>1. /\ dpc = "delete" /\ ret = "none" /\ dpc' = "delete" /\ ret' # "none"
        /\ Len(stack') = Len(stack) - 1
    BY <1>7, <1>9 DEF EndOfDir, Listing
  <2> QED
    BY <1>1, <1>2, <1>3, <1>4, <2>1, EffortIs
<1>10. CASE UnlinkRoot
  <2>1. dpc = "delete" /\ stack = <<>> /\ dpc' = "mkdir"
    BY <1>10 DEF UnlinkRoot
  <2>2. ret # "none"
    BY <2>1 DEF ProgressInv
  <2> QED
    BY <1>3, <1>4, <2>1, <2>2, EffortIs
<1>11. CASE MkdirRoot
  <2>1. dpc = "mkdir" /\ dpc' = "idle"
    BY <1>11 DEF MkdirRoot
  <2> QED
    BY <1>4, <2>1, EffortIs
<1> QED
  BY <1>5, <1>6, <1>8, <1>9, <1>10, <1>11 DEF DeleteStep, DeleteRequest

\* A deletion ends: each of its steps, and each reset, leaves fewer steps to
\* do, and from the request on there are never more than one per entry and
\* four more than twice the depth.
THEOREM DeletionsEnd ==
  Spec => /\ [](Effort \in Nat /\ (dpc # "idle" => Effort <= before + 2 * MaxDepth + 4))
          /\ [][dpc # "idle" => Effort' < Effort]_vars
<1>1. FilesInv /\ ProgressInv
        => Effort \in Nat /\ (dpc # "idle" => Effort <= before + 2 * MaxDepth + 4)
  <2> SUFFICES ASSUME FilesInv, ProgressInv, dpc # "idle" PROVE Effort <= before + 2 * MaxDepth + 4
    BY EffortType
  <2>1. /\ Effort \in Nat /\ Exists \in Nat /\ before \in Nat /\ MaxDepth \in Nat
        /\ dpc \in {"delete", "mkdir"} /\ DeleteInv
    BY EffortType, StoreFacts DEF FilesInv, DeleteInv, DeleteTypeOK
  <2>2. Len(stack) \in Nat /\ Len(stack) <= MaxDepth + 1 /\ Exists <= before
    BY <2>1, StackBounded DEF ProgressInv
  <2>3. dpc = "delete" /\ ret = "none" => Len(stack) # 0
    BY <2>1, EmptySeq DEF ProgressInv, DeleteInv
  <2> QED
    BY <2>1, <2>2, <2>3, EffortIs
<1>2. FilesInv /\ FilesInv' /\ ProgressInv /\ [Next]_vars
        => [dpc # "idle" => Effort' < Effort]_vars
  <2> SUFFICES ASSUME FilesInv, FilesInv', ProgressInv, Next, dpc # "idle"
               PROVE  Effort' < Effort
    OBVIOUS
  <2>1. CASE DeleteStep
    BY <2>1, EffortStep
  <2>2. CASE Restart
    <3>1. Effort' = 0
      BY <2>2 DEF Restart, Effort
    <3>2. Effort # 0 /\ Effort \in Nat
      <4>1. dpc \in {"delete", "mkdir"} /\ DeleteInv /\ MaxDepth \in Nat
        BY StoreFacts DEF FilesInv, DeleteInv, DeleteTypeOK
      <4>2. Len(stack) \in Nat /\ Len(stack) <= MaxDepth + 1 /\ Exists \in Nat
        BY <4>1, StackBounded, EffortType
      <4> QED
        BY <4>1, <4>2, EffortIs, EffortType
    <3> QED
      BY <3>1, <3>2
  <2> QED
    BY <2>1, <2>2 DEF Next, Upload, Directories, Mkdir, NotDeleting
<1> QED
  BY <1>1, <1>2, FilesKept, ProgressKept, PTL DEF Spec

-----------------------------------------------------------------------------
(* What the two findings come from.  The run WebFilesTruncate violates     *)
(* TruncateSemantics, the run WebFilesDelete DeletionIsComplete.           *)

\* The whole of a sequence.
LEMMA WholeSeq ==
  ASSUME NEW S, NEW q \in Seq(S)
  PROVE  SubSeq(q, 1, Len(q)) = q
<1>1. Len(q) \in Nat /\ DOMAIN q = 1..Len(q)
  BY LenProperties
<1>2. \A i \in 1..Len(q) : q[i] \in S
  BY ElementOfSeq
<1>3. /\ Len(SubSeq(q, 1, Len(q))) = IF 1 <= Len(q) THEN Len(q) - 1 + 1 ELSE 0
      /\ SubSeq(q, 1, Len(q)) \in Seq(S)
      /\ \A i \in 1..(Len(q) - 1 + 1) : SubSeq(q, 1, Len(q))[i] = q[1 + i - 1]
  BY <1>1, <1>2, SubSeqProperties
<1> DEFINE p == SubSeq(q, 1, Len(q))
           n == Len(q)
<1> HIDE DEF p, n
<1>4. n \in Nat /\ p \in Seq(S) /\ (Len(p) = IF 1 <= n THEN n - 1 + 1 ELSE 0)
      /\ \A i \in 1..(n - 1 + 1) : p[i] = q[1 + i - 1]
  BY <1>1, <1>3 DEF p, n
<1>5. Len(p) = n /\ \A i \in 1..n : p[i] = q[i]
  BY <1>4
<1>6. Len(p) = Len(q) /\ \A i \in 1..Len(p) : p[i] = q[i]
  BY <1>5 DEF n
<1>7. p = q
  BY <1>4, <1>6, SeqEqual
<1> QED
  BY <1>7 DEF p

\* An upload replaces the file as documented whenever the cursor of the
\* handler was at 0 when the request began and the flash did what it was
\* asked: bytes of an earlier request and the errors that are ignored are the
\* only ways in which it can fail to.
THEOREM TruncatesUnlessStale ==
  Spec => [](stale = 0 /\ ignored = {} => TruncateSemantics)
<1>1. FilesInv /\ stale = 0 /\ ignored = {} => TruncateSemantics
  <2> SUFFICES ASSUME FilesInv, stale = 0, ignored = {}, reply.code = 200, req.offset = 0
               PROVE  Content(tree, req.file) = SubSeq(buff, stale + 1, Len(buff))
    BY DEF TruncateSemantics
  <2>1. Content(tree, req.file) = <<>> \o buff /\ UploadTypeOK
    BY DEF FilesInv, UploadInv, Base, Stored
  <2>2. buff \in Seq(Data)
    BY <2>1, UploadFacts
  <2>3. <<>> \o buff = buff /\ SubSeq(buff, 1, Len(buff)) = buff
    BY <2>2, WholeSeq, ConcatEmptySeq
  <2> QED
    BY <2>1, <2>3
<1> QED
  BY <1>1, FilesKept, PTL

\* There is no directory below /lfs/www.
Flat == \A p \in DOMAIN tree : IsDir(tree, p) => p = Root

\* In a flat tree the first call of fs_delete_tree is the only one, and
\* leaves nothing.
FlatInv ==
  /\ dpc = "delete" /\ ret = "none" => stack = <<Root>>
  /\ dpc = "delete" /\ ret # "none" => stack = <<>> /\ DOMAIN tree = {}
  /\ dpc = "mkdir" => DOMAIN tree = {}
  /\ deleted # 0 => DOMAIN tree = {Root}

\* One step, if there is no directory before it.
LEMMA FlatStep ==
  ASSUME FilesInv, ProgressInv, Flat, FlatInv, [Next]_vars
  PROVE  FlatInv'
<1>1. TreeOK(tree) /\ DeleteInv
  BY DEF FilesInv
<1>2. CASE dpc' = "idle" /\ deleted' = 0
  BY <1>2 DEF FlatInv
<1>3. CASE DeleteRequest
  <2>1. dpc' = "delete" /\ stack' = <<Root>> /\ ret' = "none" /\ deleted' = 0
    BY <1>3 DEF DeleteRequest, ProgressInv
  <2> QED
    BY <2>1 DEF FlatInv
<1>4. CASE DeleteFile
  <2>1. dpc = "delete" /\ ret = "none" /\ UNCHANGED deleteVars
    BY <1>4 DEF DeleteFile, Listing
  <2> QED
    BY <1>1, <2>1 DEF FlatInv, deleteVars, DeleteInv
<1>5. ~EnterDir
  <2> SUFFICES ASSUME NEW c \in Children(tree, Top), IsDir(tree, c) PROVE FALSE
    BY DEF EnterDir
  <2> QED
    BY DEF Flat, Children
<1>6. ~AfterDir
  BY DEF AfterDir, FlatInv
<1>7. CASE EndOfDir
  <2>1. /\ dpc = "delete" /\ ret = "none" /\ dpc' = "delete" /\ ret' # "none"
        /\ stack' = Front(stack) /\ deleted' = deleted
        /\ Children(tree, Top) = {} /\ tree' = Unlink(tree, Top)
    BY <1>7 DEF EndOfDir, Listing, Return
  <2>2. stack = <<Root>>
    BY <2>1 DEF FlatInv
  <2>3. Top = Root /\ stack' = <<>>
    <3>1. Len(stack) = 1 /\ stack[1] = Root
      BY <2>2
    <3>2. Len(stack) - 1 = 0
      BY <3>1
    <3>3. SubSeq(stack, 1, 0) = <<>>
      BY SubSeqEmpty
    <3>4. Front(stack) = SubSeq(stack, 1, 0)
      BY <3>2, Zenon DEF Front
    <3> QED
      BY <2>1, <3>1, <3>3, <3>4 DEF Top, Last
  <2>4. Root \notin DOMAIN tree' /\ TreeOK(tree')
    BY <1>1, <2>1, <2>3, UnlinkKeeps
  <2>5. DOMAIN tree' = {} /\ deleted' = 0
    BY <1>1, <2>1, <2>4, RootOrNothing DEF DeleteInv
  <2> QED
    BY <2>1, <2>3, <2>5 DEF FlatInv
<1>8. CASE UnlinkRoot
  <2>1. /\ dpc = "delete" /\ stack = <<>> /\ dpc' = "mkdir"
        /\ deleted' = deleted /\ tree' = Unlink(tree, Root)
    BY <1>8 DEF UnlinkRoot
  <2>2. DOMAIN tree = {}
    BY <2>1 DEF FlatInv
  <2>3. DOMAIN tree' = {} /\ deleted' = 0
    BY <1>1, <2>1, <2>2, UnlinkKeeps DEF DeleteInv
  <2> QED
    BY <2>1, <2>3 DEF FlatInv
<1>9. CASE MkdirRoot
  <2>1. /\ dpc = "mkdir" /\ dpc' = "idle"
        /\ \/ CanCreate(tree, Root) /\ tree' = With(tree, Root, Dir)
           \/ ~CanCreate(tree, Root)
    BY <1>9 DEF MkdirRoot
  <2>2. DOMAIN tree = {}
    BY <2>1 DEF FlatInv
  <2>3. DOMAIN tree' = {Root}
    <3>1. CanCreate(tree, Root)
      BY <2>2 DEF CanCreate
    <3>2. tree' = With(tree, Root, Dir)
      BY <2>1, <3>1
    <3>3. DOMAIN tree' = DOMAIN tree \cup {Root}
      BY <3>2, WithDomain, Zenon
    <3> QED
      BY <2>2, <3>3
  <2> QED
    BY <2>1, <2>3 DEF FlatInv
<1>10. CASE UNCHANGED vars
  BY <1>10 DEF vars, deleteVars, FlatInv
<1>11. CASE NotDeleting \/ Restart
  <2>1. dpc' = "idle" /\ deleted' = 0
    BY <1>11 DEF NotDeleting, Restart
  <2> QED
    BY <1>2, <2>1
<1> QED
  BY <1>3, <1>4, <1>5, <1>6, <1>7, <1>8, <1>9, <1>10, <1>11
  DEF Next, Upload, Directories, Mkdir, DeleteStep

\* A deletion is complete as long as no client creates a directory: the
\* directories below /lfs/www are the only thing that can stop it early.
THEOREM CompleteWithoutDirectories == Spec /\ []Flat => []DeletionIsComplete
<1>1. Init => FlatInv
  BY DEF Init, DeleteInit, FlatInv
<1>2. FilesInv /\ ProgressInv /\ Flat /\ FlatInv /\ [Next]_vars => FlatInv'
  BY FlatStep
<1>3. FlatInv => DeletionIsComplete
  BY DEF FlatInv, DeletionIsComplete
<1> QED
  BY <1>1, <1>2, <1>3, FilesKept, ProgressKept, PTL DEF Spec
=============================================================================
