------------------------------ MODULE WebUpload ------------------------------
(***************************************************************************)
(* The upload of web UI files (webui_upload.c, http_upload in              *)
(* http_common.c).  A client sends a file in pieces; each request carries  *)
(* the offset of its piece, and its body arrives in one or more calls of   *)
(* the handler, which collects it in a static buffer.                      *)
(*                                                                         *)
(* The server lets one client at a time use the resource, so one request   *)
(* is in progress at most; other resources are served between two parts    *)
(* of its body.                                                            *)
(***************************************************************************)
EXTENDS WebStore

CONSTANTS
  BufCap,       \* CHUNK_BUF_CAP, in units
  FlashFails,   \* may the fs_unlink, fs_sync and fs_close fail whose results
                \*   http_upload ignores?
  MaxKept       \* bound: the longest file that such an fs_unlink keeps

ASSUME WebUploadAssumption ==
  /\ BufCap \in Nat \ {0}
  /\ FlashFails \in BOOLEAN
  /\ MaxKept \in Nat

VARIABLES
  buff,         \* post_request_buff up to cursor, static in the handler
  pc,           \* where the request in progress is
  req,          \* its query: file and offset
  stale,        \* history: how much of buff is left from earlier requests
  old,          \* history: the file when its last part had arrived
  ignored,      \* history: the calls of this request that failed unnoticed
  reply         \* history: the answer just given, with the size it reports

uploadVars == <<buff, pc, req, stale, old, ignored, reply>>

NoReq == [file |-> <<Index>>, offset |-> 0]
NoReply == [code |-> 0, size |-> 0]

UploadInit ==
  /\ buff = <<>>
  /\ pc = "idle"
  /\ req = NoReq
  /\ stale = 0
  /\ old = <<>>
  /\ ignored = {}
  /\ reply = NoReply

-----------------------------------------------------------------------------
\* The server has parsed the headers of a request for the resource.
Begin(f, off) ==
  /\ pc = "idle"
  /\ pc' = "body"
  /\ req' = [file |-> f, offset |-> off]
  /\ stale' = Len(buff)
  /\ old' = <<>>
  /\ ignored' = {}
  /\ reply' = NoReply
  /\ UNCHANGED <<tree, buff>>

Answer(code, size) ==
  /\ pc' = "idle"
  /\ reply' = [code |-> code, size |-> size]

\* HTTP_SERVER_DATA_ABORTED, or data that does not fit: the buffer is
\* emptied and the connection ends.
Drop ==
  /\ buff' = <<>>
  /\ stale' = 0
  /\ pc' = "idle"
  /\ req' = NoReq
  /\ UNCHANGED <<tree, old, ignored, reply>>

Abort == pc = "body" /\ Drop

\* Mutant: the size of the body is not counted.
Fits_OffsetOnly(off, len) == off <= MaxSize

\* "over max size": the whole buffer is about to be written.
Fits(off, len) == off + len <= MaxSize

\* Mutant: only the new data is compared with the capacity of the buffer.
Receive_NoCursor(d, final) ==
  /\ pc = "body"
  /\ buff' = buff \o d
  /\ IF ~final
       THEN UNCHANGED <<pc, old, reply>>
       ELSE /\ old' = Content(tree, req.file)
            /\ IF Fits(req.offset, Len(buff'))
                 THEN pc' = "truncate" /\ UNCHANGED reply
                 ELSE Answer(400, 0)
  /\ UNCHANGED <<tree, req, stale, ignored>>

\* webui_chunk_put with HTTP_SERVER_DATA_MORE or FINAL: the last data goes
\* on to http_upload, which refuses a piece beyond the maximal size.  The
\* buffer is not emptied after the last data.
Receive(d, final) ==
  /\ pc = "body"
  /\ \/ Len(buff) + Len(d) > BufCap /\ Drop
     \/ /\ Len(buff) + Len(d) <= BufCap
        /\ buff' = buff \o d
        /\ \/ ~final /\ UNCHANGED <<pc, old, reply>>
           \/ /\ final
              /\ old' = Content(tree, req.file)
              /\ \/ Fits(req.offset, Len(buff')) /\ pc' = "truncate" /\ UNCHANGED reply
                 \/ ~Fits(req.offset, Len(buff')) /\ Answer(400, 0)
        /\ UNCHANGED <<tree, req, stale, ignored>>

\* Mutant: a piece at offset 0 does not remove the file.
Truncate_Keeps ==
  /\ pc = "truncate"
  /\ pc' = "open"
  /\ UNCHANGED <<tree, buff, req, stale, old, ignored, reply>>

\* A piece at offset 0 first unlinks its path ("truncate semantics"), an
\* empty directory included; that the flash may refuse it is ignored.
Truncate ==
  /\ pc = "truncate"
  /\ \/ /\ tree' = IF req.offset = 0 THEN Unlink(tree, req.file) ELSE tree
        /\ UNCHANGED ignored
     \/ /\ FlashFails /\ req.offset = 0
        /\ req.file \in DOMAIN tree /\ Len(Content(tree, req.file)) <= MaxKept
        /\ ignored' = {"unlink"}
        /\ UNCHANGED tree
  /\ pc' = "open"
  /\ UNCHANGED <<buff, req, stale, old, reply>>

\* fs_stat leaves the size uninitialised when there is no such file: the
\* comparison with it may come out either way.
MayMatch ==
  req.offset > 0 /\ IsFile(tree, req.file) => req.offset = Len(Content(tree, req.file))
MayMismatch ==
  req.offset > 0 /\ (IsFile(tree, req.file) => req.offset # Len(Content(tree, req.file)))

\* fs_stat, which finds a directory or not, the comparison of the offset
\* with the size, and fs_open, which creates the file when there is none.
Open ==
  /\ pc = "open"
  /\ \/ /\ ~IsDir(tree, req.file) /\ MayMatch
        /\ IsFile(tree, req.file) \/ CanCreate(tree, req.file)
        /\ tree' = With(tree, req.file, File(Content(tree, req.file)))
        /\ pc' = "write"
        /\ UNCHANGED reply
     \/ /\ \/ IsDir(tree, req.file) \/ MayMismatch
           \/ ~IsFile(tree, req.file) /\ (FlashFull \/ ~CanCreate(tree, req.file))
        /\ Answer(400, 0)
        /\ UNCHANGED tree
  /\ UNCHANGED <<buff, req, stale, old, ignored>>

Extend(d) == tree' = With(tree, req.file, File(Content(tree, req.file) \o d))

\* Mutant: the answer reports the number of units written.
Write_AnswersWritten ==
  /\ pc = "write"
  /\ Extend(buff)
  /\ Answer(200, Len(buff))
  /\ UNCHANGED <<buff, req, stale, old, ignored>>

\* fs_write appends the buffer to the file; a full flash takes a prefix.  The
\* file system may keep what it took in memory: when fs_sync and fs_close
\* fail, which is ignored, the file is what it was when it was opened.
Write ==
  /\ pc = "write"
  /\ \/ /\ Extend(buff)
        /\ Answer(200, req.offset + Len(buff))
        /\ UNCHANGED ignored
     \/ /\ FlashFails
        /\ ignored' = ignored \cup {"sync"}
        /\ Answer(200, req.offset + Len(buff))
        /\ UNCHANGED tree
     \/ /\ FlashFull
        /\ \E n \in 0..Len(buff) : Extend(SubSeq(buff, 1, n))
        /\ Answer(500, 0)
        /\ UNCHANGED ignored
  /\ UNCHANGED <<buff, req, stale, old>>

\* Bodies are sent in parts.
Parts == SeqOf(Data, BufCap)

UploadStep ==
  \/ \E f \in Paths, off \in 0..MaxSize : Begin(f, off)
  \/ \E d \in Parts, final \in BOOLEAN : Receive(d, final)
  \/ Abort
  \/ Truncate
  \/ Open
  \/ Write

\* http_upload runs: the server's thread does nothing else.
InUpload == pc \in {"truncate", "open", "write"}

\* What another request leaves of an upload: the buffer, and a body that is
\* still arriving.
UploadWaits ==
  /\ ~InUpload
  /\ UNCHANGED <<buff, pc>>
  /\ reply' = NoReply
  /\ IF pc = "body"
       THEN UNCHANGED <<req, stale, old, ignored>>
       ELSE req' = NoReq /\ stale' = 0 /\ old' = <<>> /\ ignored' = {}

UploadTypeOK ==
  /\ buff \in Seq(Data) /\ Len(buff) <= BufCap
  /\ pc \in {"idle", "body", "truncate", "open", "write"}
  /\ req \in [file : Paths, offset : 0..MaxSize]
  /\ stale \in 0..Len(buff)
  /\ old \in Seq(Data)
  /\ ignored \subseteq {"unlink", "sync"}
  /\ reply.code \in {0, 200, 400, 500}
=============================================================================
