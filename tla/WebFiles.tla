------------------------------ MODULE WebFiles ------------------------------
(***************************************************************************)
(* The web UI's files: uploads, directories and deletions by the clients   *)
(* of the HTTP server, whose one thread runs one handler at a time but may *)
(* serve other requests between two parts of an upload's body, and resets  *)
(* at any point.                                                           *)
(***************************************************************************)
EXTENDS WebUpload, WebTree

vars == <<tree, uploadVars, deleteVars>>

Init == StoreInit /\ UploadInit /\ DeleteInit

Upload == UploadStep /\ NotDeleting

Directories == ((\E p \in Paths : Mkdir(p)) \/ DeleteStep) /\ UploadWaits

\* A reset at any point, and the next boot; the network comes up after it.
Restart ==
  /\ tree' \in BootTrees(tree)
  /\ buff' = <<>> /\ pc' = "idle" /\ req' = NoReq
  /\ stale' = 0 /\ old' = <<>> /\ ignored' = {} /\ reply' = NoReply
  /\ stack' = <<>> /\ ret' = "none" /\ dpc' = "idle"
  /\ before' = 0 /\ deleted' = 0

Next == Upload \/ Directories \/ Restart

Spec == Init /\ [][Next]_vars

-----------------------------------------------------------------------------
TypeOK == StoreTypeOK /\ UploadTypeOK /\ DeleteTypeOK

\* No file outgrows MAX_SIZE, although the check adds an offset to a length
\* before the size of the file is looked at, and a file that does not exist
\* may be taken to have any size; only a piece at offset 0 can make one too
\* long, when the fs_unlink before it has failed unnoticed.
SizeBounded ==
  [][\A p \in Paths :
       Len(Content(tree', p)) > MaxSize
         => \/ Len(Content(tree', p)) <= Len(Content(tree, p))
            \/ p = req.file /\ req.offset = 0 /\ "unlink" \in ignored]_vars

\* What a piece is appended to, and what of it is kept.
Base == IF req.offset = 0 /\ "unlink" \notin ignored THEN <<>> ELSE old
Stored == IF "sync" \in ignored THEN <<>> ELSE buff

\* When the buffer was empty at the start of a request, a 200 means that
\* the file is what it was, or nothing at offset 0, followed by exactly the
\* body of this request, in however many parts the body came and whatever
\* was served between them.  The two errors http_upload ignores are the only
\* exceptions, and each takes or leaves the whole of one of the two.
CleanUploadIsExact ==
  reply.code = 200 /\ stale = 0 => Content(tree, req.file) = Base \o Stored

\* The size a 200 reports is the size of the file, so the client can use it
\* as its next offset; except when a file that did not exist was written at
\* a positive offset, or an error was ignored.
AnsweredSizeIsNext ==
  reply.code = 200 /\ ignored = {} /\ (req.offset > 0 => old # <<>>)
    => reply.size = Len(Content(tree, req.file))

\* Between two requests /lfs/www exists, whatever a deletion did and where
\* power was cut.
RootIsThere == dpc = "idle" => IsDir(tree, Root)

\* A deletion answered with 200 has removed everything: the errors of
\* fs_delete_tree are ignored, yet what it leaves makes fs_mkdir fail.
DeletedMeansEmpty == deleted = 200 => DOMAIN tree = {Root}

\* A deletion that fails has still removed something, so repeating the
\* request gets to the end.
DeletionProgresses == deleted # 0 /\ before > 1 => Cardinality(DOMAIN tree) < before

\* "truncate semantics" (http_common.c line 158): after a 200 at offset 0
\* the file holds what the request carried.
TruncateSemantics ==
  reply.code = 200 /\ req.offset = 0
    => Content(tree, req.file) = SubSeq(buff, stale + 1, Len(buff))

\* "recursively delete the subdirectory, then rmdir" (filesystem_helpers.c
\* line 72): a deletion removes the directories below /lfs/www as well.
DeletionIsComplete == deleted # 0 => DOMAIN tree = {Root}
=============================================================================
