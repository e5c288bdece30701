------------------------------ MODULE ObjectStorage ------------------------------
(***************************************************************************)
(* The local object storage (tools/storage.py): calls of one process that  *)
(* overlap, and its restart, which keeps the files and loses the metadata. *)
(* Every operation is authorised for the tenant of the context             *)
(* (tools/authorization.py).  A content is two chunks, written to a        *)
(* temporary file that one step makes the object; its checksum, size and   *)
(* type are the content itself.  Symbolic links and key syntax are left    *)
(* out.                                                                    *)
(***************************************************************************)
EXTENDS Naturals, Sequences, Authorization

CONSTANTS
    Callers,        \* the calls that can overlap
    Tenants, Keys,
    Uploads,        \* the contents that are uploaded
    Principals,     \* authenticated principals
    Policy,
    MaxCalls,       \* bound: calls of a caller
    MaxRestarts     \* bound: restarts of the process

Objects == Tenants \X Keys
NoContent == <<>>
Content(u) == <<u, u>>
Contents == {Content(u) : u \in Uploads}

VARIABLES
    files,          \* what the file of each object holds
    metadata,       \* what the metadata of each object describes
    call,           \* the call of each caller
    calls, restarts

storageVars == <<files, metadata, call, calls, restarts>>

NoCall == [at |-> "idle"]

StorageInit ==
    /\ files = [o \in Objects |-> NoContent]
    /\ metadata = [o \in Objects |-> NoContent]
    /\ call = [c \in Callers |-> NoCall]
    /\ calls = [c \in Callers |-> 0]
    /\ restarts = 0

Begin(c, p, action, o, at, content) ==
    /\ call[c].at \in {"idle", "done"} /\ calls[c] < MaxCalls
    /\ Authorize(Policy, p, action, o[1], Nobody)
    /\ call' = [call EXCEPT ![c] = [at |-> at, object |-> o, by |-> p, content |-> content,
                                    written |-> <<>>, result |-> "none"]]
    /\ calls' = [calls EXCEPT ![c] = @ + 1]

GoTo(c, at) == call' = [call EXCEPT ![c].at = at]
Answer(c, result) == call' = [call EXCEPT ![c].at = "done", ![c].result = result]

(* Only the check of an upload that creates sees the object that is there. *)
StartUpload(c, p, o, u, replace) ==
    /\ Begin(c, p, IF replace THEN "update" ELSE "create", o, "write", Content(u))
    /\ replace \/ files[o] = NoContent
    /\ UNCHANGED <<files, metadata, restarts>>

\* mutant: the chunks are written into the object itself
WriteChunkInPlace(c) ==
    LET written == Append(call[c].written, call[c].content[Len(call[c].written) + 1])
        o == call[c].object
    IN  /\ call' = [call EXCEPT ![c].written = written,
                                ![c].at = IF written = call[c].content THEN "replace" ELSE "write"]
        /\ files' = [files EXCEPT ![o] = written \o SubSeq(@, Len(written) + 1, Len(@))]

WriteChunk(c) ==
    LET written == Append(call[c].written, call[c].content[Len(call[c].written) + 1])
    IN  /\ call' = [call EXCEPT ![c].written = written,
                                ![c].at = IF written = call[c].content THEN "replace" ELSE "write"]
        /\ UNCHANGED files

\* a stream that fails, or is too large: the temporary file is removed
BreakOff(c) ==
    /\ Answer(c, "failed") /\ UNCHANGED files

WriteNext(c) ==
    /\ call[c].at = "write"
    /\ WriteChunk(c) \/ BreakOff(c)
    /\ UNCHANGED <<metadata, calls, restarts>>

ReplaceFile(c) ==
    /\ call[c].at = "replace"
    /\ files' = [files EXCEPT ![call[c].object] = call[c].written]
    /\ GoTo(c, "record")
    /\ UNCHANGED <<metadata, calls, restarts>>

RecordMetadata(c) ==
    /\ call[c].at = "record"
    /\ metadata' = [metadata EXCEPT ![call[c].object] = call[c].content]
    /\ Answer(c, "stored")
    /\ UNCHANGED <<files, calls, restarts>>

Stored(o) == metadata[o] # NoContent /\ files[o] # NoContent

StartDownload(c, p, o) ==
    /\ Begin(c, p, "read", o, "read", NoContent)
    /\ Stored(o)
    /\ UNCHANGED <<files, metadata, restarts>>

\* the file is read through, whatever replaces it meanwhile
ReadThrough(c) ==
    /\ call[c].at = "read"
    /\ IF files[call[c].object] = NoContent THEN Answer(c, "missing")
       ELSE call' = [call EXCEPT ![c].at = "verify", ![c].content = files[call[c].object]]
    /\ UNCHANGED <<files, metadata, calls, restarts>>

Check(c) ==
    /\ call[c].at = "verify"
    /\ CASE metadata[call[c].object] = NoContent            -> Answer(c, "missing")
         [] metadata[call[c].object] = call[c].content -> GoTo(c, "open")
         [] OTHER                                      -> Answer(c, "corrupt")
    /\ UNCHANGED <<files, metadata, calls, restarts>>

\* what is returned is the file opened once more
Reopen(c) ==
    /\ call[c].at = "open"
    /\ IF files[call[c].object] = NoContent THEN Answer(c, "missing")
       ELSE call' = [call EXCEPT ![c].at = "done", ![c].result = "opened",
                                 ![c].content = files[call[c].object]]
    /\ UNCHANGED <<files, metadata, calls, restarts>>

StartDelete(c, p, o) ==
    /\ Begin(c, p, "delete", o, "unlink", NoContent)
    /\ Stored(o)
    /\ UNCHANGED <<files, metadata, restarts>>

UnlinkFile(c) ==
    /\ call[c].at = "unlink"
    /\ IF files[call[c].object] = NoContent THEN Answer(c, "missing") /\ UNCHANGED files
       ELSE GoTo(c, "forget") /\ files' = [files EXCEPT ![call[c].object] = NoContent]
    /\ UNCHANGED <<metadata, calls, restarts>>

Forget(c) ==
    /\ call[c].at = "forget"
    /\ metadata' = [metadata EXCEPT ![call[c].object] = NoContent]
    /\ Answer(c, IF metadata[call[c].object] = NoContent THEN "missing" ELSE "deleted")
    /\ UNCHANGED <<files, calls, restarts>>

Restart ==
    /\ restarts < MaxRestarts
    /\ restarts' = restarts + 1
    /\ metadata' = [o \in Objects |-> NoContent]
    /\ call' = [c \in Callers |-> NoCall]
    /\ UNCHANGED <<files, calls>>

StorageNext ==
    \/ \E c \in Callers, p \in Principals, o \in Objects :
          \/ \E u \in Uploads, replace \in BOOLEAN : StartUpload(c, p, o, u, replace)
          \/ StartDownload(c, p, o)
          \/ StartDelete(c, p, o)
    \/ \E c \in Callers : \/ WriteNext(c) \/ ReplaceFile(c) \/ RecordMetadata(c) \/ ReadThrough(c) \/ Check(c)
                          \/ Reopen(c) \/ UnlinkFile(c) \/ Forget(c)
    \/ Restart

-----------------------------------------------------------------------------
\* However uploads, deletes and restarts interleave, what a download returns
\* is one upload and all of it, although the object may have been replaced
\* after it was verified.
WholeObjects ==
    \A c \in Callers :
        call[c].at = "done" /\ call[c].result = "opened" => call[c].content \in Contents
=============================================================================
