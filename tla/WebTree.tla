------------------------------- MODULE WebTree -------------------------------
(***************************************************************************)
(* Creating directories (webui_mkdir.c) and the deletion of everything     *)
(* below /lfs/www (webui_delete.c, fs_delete_tree in filesystem_helpers.c) *)
(* step by step, because power may be cut between two of its flash         *)
(* operations.  The recursion of fs_delete_tree is the stack of the paths  *)
(* it has entered; fs_readdir may return the entries of a directory in any *)
(* order.                                                                  *)
(***************************************************************************)
EXTENDS WebStore

VARIABLES
  stack,        \* the calls of fs_delete_tree in progress, innermost last
  ret,          \* what the call that ended last returned, until it is used
  dpc,          \* where the deletion in progress is
  before,       \* history: how much existed when the deletion began
  deleted       \* history: the code a deletion was just answered with, or 0

deleteVars == <<stack, ret, dpc, before, deleted>>

DeleteInit ==
  /\ stack = <<>>
  /\ ret = "none"
  /\ dpc = "idle"
  /\ before = 0
  /\ deleted = 0

\* No deletion is in progress, and the answer to the last one is forgotten.
NotDeleting ==
  /\ dpc = "idle"
  /\ before' = 0
  /\ deleted' = 0
  /\ UNCHANGED <<stack, ret, dpc>>

-----------------------------------------------------------------------------
\* mkdir_web_ui_files.
Mkdir(p) ==
  /\ \/ CanCreate(tree, p) /\ tree' = With(tree, p, Dir)
     \/ (~CanCreate(tree, p) \/ FlashFull) /\ UNCHANGED tree
  /\ NotDeleting

Top == Last(stack)

Return(result) == stack' = Front(stack) /\ ret' = result

\* delete_web_ui_files calls fs_delete_tree(/lfs/www).
DeleteRequest ==
  /\ dpc = "idle"
  /\ dpc' = "delete"
  /\ stack' = <<Root>>
  /\ before' = Cardinality(DOMAIN tree)
  /\ deleted' = 0
  /\ UNCHANGED <<tree, ret>>

\* A call of fs_delete_tree reads the next entry.
Listing == dpc = "delete" /\ stack # <<>> /\ ret = "none"

\* An entry that is a file is unlinked.
DeleteFile ==
  /\ Listing
  /\ \E c \in Children(tree, Top) : IsFile(tree, c) /\ tree' = Unlink(tree, c)
  /\ UNCHANGED deleteVars

\* An entry that is a directory: the function calls itself.
EnterDir ==
  /\ Listing
  /\ \E c \in Children(tree, Top) : IsDir(tree, c) /\ stack' = Append(stack, c)
  /\ UNCHANGED <<tree, ret, dpc, before, deleted>>

\* The inner call returned.  On success the directory that is being listed,
\* and not the one below it, is unlinked: that fails while something is
\* left in it, and otherwise makes the last fs_unlink of the call fail.
AfterDir ==
  /\ dpc = "delete" /\ stack # <<>> /\ ret # "none"
  /\ tree' = IF ret = "ok" THEN Unlink(tree, Top) ELSE tree
  /\ Return("error")
  /\ UNCHANGED <<dpc, before, deleted>>

\* Mutant: the emptied directory itself is left in place.
EndOfDir_KeepsDir ==
  /\ Listing
  /\ Children(tree, Top) = {}
  /\ Return("ok")
  /\ UNCHANGED <<tree, dpc, before, deleted>>

\* The end of the directory: it is unlinked and the call returns.
EndOfDir ==
  /\ Listing
  /\ Children(tree, Top) = {}
  /\ tree' = Unlink(tree, Top)
  /\ Return(IF Top \in DOMAIN tree THEN "ok" ELSE "error")
  /\ UNCHANGED <<dpc, before, deleted>>

\* The outermost call returned, result ignored; fs_unlink(/lfs/www).
UnlinkRoot ==
  /\ dpc = "delete" /\ stack = <<>>
  /\ tree' = Unlink(tree, Root)
  /\ dpc' = "mkdir"
  /\ ret' = "none"
  /\ UNCHANGED <<stack, before, deleted>>

\* Mutant: a directory that exists already counts as success.
MkdirRoot_ExistsIsFine ==
  /\ dpc = "mkdir"
  /\ tree' = IF Root \in DOMAIN tree THEN tree ELSE With(tree, Root, Dir)
  /\ deleted' = 200
  /\ dpc' = "idle"
  /\ UNCHANGED <<stack, ret, before>>

\* fs_mkdir(/lfs/www): its result is the result of the request.  It finds
\* room, for /lfs/www itself has just been removed.
MkdirRoot ==
  /\ dpc = "mkdir"
  /\ \/ CanCreate(tree, Root) /\ tree' = With(tree, Root, Dir) /\ deleted' = 200
     \/ ~CanCreate(tree, Root) /\ UNCHANGED tree /\ deleted' = 500
  /\ dpc' = "idle"
  /\ UNCHANGED <<stack, ret, before>>

DeleteStep ==
  \/ DeleteRequest
  \/ DeleteFile
  \/ EnterDir
  \/ AfterDir
  \/ EndOfDir
  \/ UnlinkRoot
  \/ MkdirRoot

DeleteTypeOK ==
  /\ \A i \in DOMAIN stack : Len(stack[i]) = i - 1
  /\ ret \in {"none", "ok", "error"}
  /\ dpc \in {"idle", "delete", "mkdir"}
  /\ before \in Nat
  /\ deleted \in {0, 200, 500}
=============================================================================
