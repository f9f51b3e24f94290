---------------------------- MODULE ContentStores ----------------------------
(***************************************************************************)
(* The two content stores of kish: a directory on the local file system    *)
(* (infrastructure/storage/local) and an S3 bucket (infrastructure/        *)
(* storage/s3).  Several requests call the store of one process at once.   *)
(*                                                                         *)
(* The file system is modelled by files (inodes), which live as long as a  *)
(* name or a descriptor refers to them: a rename gives the file of a       *)
(* descriptor a new name, and a reader goes on reading the file it opened. *)
(* The system survives a crash of the process; what a crash of the machine *)
(* does to data that was never synced is not modelled.  The bucket is      *)
(* modelled by what S3 promises: each call is atomic.                      *)
(*                                                                         *)
(* An object is Chunks pieces long; pieces are what one write or read      *)
(* moves.  Sizes, media types and directories are left out, and keys are   *)
(* those of StorageKeyFor, which safeJoin and validateKey accept.          *)
(***************************************************************************)
EXTENDS Naturals, Sequences

CONSTANTS
    Keys,
    Contents,
    Callers,    \* the requests that may call the store at once
    Chunks,
    FileIds,    \* bounds the files on the disk, temporary ones included
    None

ASSUME ChunksAssumption == Chunks \in Nat \ {0}
ASSUME NoneAssumption == None \notin Contents \cup FileIds \cup Keys

VARIABLES
    backend,    \* the store the configuration names
    files,      \* files: what was written to each
    dir,        \* local: the file under the name of each key
    temps,      \* local: the files that have a temporary name
    bucket,     \* s3: the objects
    calls,      \* the calls being made
    orphans     \* history: the temporary files a crash left behind

vars == <<backend, files, dir, temps, bucket, calls, orphans>>

-----------------------------------------------------------------------------
\* A file or an object: the pieces of contents it is made of.
Data == UNION {[1..n -> Contents] : n \in 0..Chunks}

ASSUME NoneIsNoData == None \notin Data

Whole(c) == [i \in 1..Chunks |-> c]

PutSteps == {"put:create", "put:copy", "put:rename", "put:send"}
GetSteps == {"get:stat", "get:open", "get:fetch", "get:read"}
DeleteSteps == {"delete"}

Call ==
    [at : {"idle", "return"} \cup PutSteps \cup GetSteps \cup DeleteSteps,
     operation : {"put", "get", "delete", None},
     key : Keys \cup {None},
     content : Contents \cup {None},   \* what is to be put
     file : FileIds \cup {None},       \* local: the open descriptor
     object : Data \cup {None},        \* s3: the body of the response
     read : Data]                      \* what a reader has read

Idle == [at |-> "idle", operation |-> None, key |-> None, content |-> None,
         file |-> None, object |-> None, read |-> <<>>]

At(p, step) == calls[p].at = step
Advance(p, step) == calls' = [calls EXCEPT ![p].at = step]
Finish(p) == calls' = [calls EXCEPT ![p] = Idle]

\* The file has a name or a descriptor.
InUse(f) ==
    \/ f \in temps
    \/ \E k \in Keys : dir[k] = f
    \/ \E p \in Callers : calls[p].file = f

-----------------------------------------------------------------------------
\* Calls come from the artifact service, with the key of case and name.
BeginPut(p, k, c) ==
    /\ At(p, "idle")
    /\ calls' = [calls EXCEPT ![p] =
           [Idle EXCEPT !.at = IF backend = "local" THEN "put:create" ELSE "put:send",
                        !.operation = "put", !.key = k, !.content = c]]
    /\ UNCHANGED <<backend, files, dir, temps, bucket, orphans>>

BeginGet(p, k) ==
    /\ At(p, "idle")
    /\ calls' = [calls EXCEPT ![p] =
           [Idle EXCEPT !.at = IF backend = "local" THEN "get:stat" ELSE "get:fetch",
                        !.operation = "get", !.key = k]]
    /\ UNCHANGED <<backend, files, dir, temps, bucket, orphans>>

BeginDelete(p, k) ==
    /\ At(p, "idle")
    /\ calls' = [calls EXCEPT ![p] =
           [Idle EXCEPT !.at = "delete", !.operation = "delete", !.key = k]]
    /\ UNCHANGED <<backend, files, dir, temps, bucket, orphans>>

-----------------------------------------------------------------------------
\* local.Store.PutObject.

\* Fault: the file of the key is opened and truncated, if there is one.
PutCreateInPlace(p) ==
    /\ At(p, "put:create")
    /\ \E f \in FileIds :
          /\ IF dir[calls[p].key] = None THEN ~InUse(f) ELSE f = dir[calls[p].key]
          /\ files' = [files EXCEPT ![f] = <<>>]
          /\ temps' = IF dir[calls[p].key] = None THEN temps \cup {f} ELSE temps
          /\ calls' = [calls EXCEPT ![p].at = "put:copy", ![p].file = f]
    /\ UNCHANGED <<backend, dir, bucket, orphans>>

\* Fault: all uploads use one temporary name.
PutCreateSharedName(p) ==
    /\ At(p, "put:create")
    /\ \E f \in FileIds :
          /\ IF temps = {} THEN ~InUse(f) ELSE f \in temps
          /\ files' = [files EXCEPT ![f] = <<>>]
          /\ temps' = temps \cup {f}
          /\ calls' = [calls EXCEPT ![p].at = "put:copy", ![p].file = f]
    /\ UNCHANGED <<backend, dir, bucket, orphans>>

\* CreateTemp makes a new file, beside the object, under a name of its own.
PutCreate(p) ==
    /\ At(p, "put:create")
    /\ \E f \in FileIds :
          /\ ~InUse(f)
          /\ files' = [files EXCEPT ![f] = <<>>]
          /\ temps' = temps \cup {f}
          /\ calls' = [calls EXCEPT ![p].at = "put:copy", ![p].file = f]
    /\ UNCHANGED <<backend, dir, bucket, orphans>>

\* io.Copy, piece by piece as the upload arrives; then the file is closed.
PutCopy(p) ==
    /\ At(p, "put:copy")
    /\ LET f == calls[p].file IN
       /\ Len(files[f]) < Chunks
       /\ files' = [files EXCEPT ![f] = Append(@, calls[p].content)]
       /\ IF Len(files'[f]) = Chunks THEN Advance(p, "put:rename") ELSE UNCHANGED calls
    /\ UNCHANGED <<backend, dir, temps, bucket, orphans>>

\* Rename replaces the file under the name of the key.
PutRename(p) ==
    /\ At(p, "put:rename")
    /\ dir' = [dir EXCEPT ![calls[p].key] = calls[p].file]
    /\ temps' = temps \ {calls[p].file}
    /\ calls' = [calls EXCEPT ![p].at = "return", ![p].file = None]
    /\ UNCHANGED <<backend, files, bucket, orphans>>

\* Fault: the cleanup removes the destination instead of the temporary file.
PutFailsRemovingObject(p) ==
    /\ calls[p].at \in {"put:create", "put:copy", "put:rename"}
    /\ dir' = [dir EXCEPT ![calls[p].key] = None]
    /\ Finish(p)
    /\ UNCHANGED <<backend, files, temps, bucket, orphans>>

\* Fault: the temporary file stays.
PutFailsNoCleanup(p) ==
    /\ calls[p].at \in {"put:create", "put:copy", "put:rename"}
    /\ Finish(p)
    /\ UNCHANGED <<backend, files, dir, temps, bucket, orphans>>

\* The disk is full, the upload breaks off, or a call of the system fails: the
\* temporary file is removed.
PutFails(p) ==
    /\ calls[p].at \in {"put:create", "put:copy", "put:rename"}
    /\ temps' = temps \ {calls[p].file}
    /\ Finish(p)
    /\ UNCHANGED <<backend, files, dir, bucket, orphans>>

-----------------------------------------------------------------------------
\* local.Store.GetObject, and the reader it returns.

\* Stat tells whether there is an object (and its size).
GetStat(p) ==
    /\ At(p, "get:stat")
    /\ Advance(p, IF dir[calls[p].key] = None THEN "return" ELSE "get:open")
    /\ UNCHANGED <<backend, files, dir, temps, bucket, orphans>>

\* Open, by name again: the object may be another one by now, or gone.
GetOpen(p) ==
    /\ At(p, "get:open")
    /\ LET f == dir[calls[p].key]
       IN  calls' = [calls EXCEPT ![p].at = IF f = None THEN "return" ELSE "get:read",
                                  ![p].file = f]
    /\ UNCHANGED <<backend, files, dir, temps, bucket, orphans>>

\* What a reader reads from: an open file, or the body of a response.
Source(p) == IF calls[p].file # None THEN files[calls[p].file] ELSE calls[p].object

\* The handler copies the next piece to the client.
GetRead(p) ==
    /\ At(p, "get:read")
    /\ LET n == Len(calls[p].read) + 1 IN
       /\ n <= Len(Source(p))
       /\ calls' = [calls EXCEPT ![p].read = Append(@, Source(p)[n])]
    /\ UNCHANGED <<backend, files, dir, temps, bucket, orphans>>

\* The end of the file; the handler closes the reader.
GetClose(p) ==
    /\ At(p, "get:read")
    /\ Len(calls[p].read) = Len(Source(p))
    /\ Finish(p)
    /\ UNCHANGED <<backend, files, dir, temps, bucket, orphans>>

-----------------------------------------------------------------------------
\* DeleteObject of both stores; an object that is missing is no error.
Delete(p) ==
    /\ At(p, "delete")
    /\ IF backend = "local"
         THEN dir' = [dir EXCEPT ![calls[p].key] = None] /\ UNCHANGED bucket
         ELSE bucket' = [bucket EXCEPT ![calls[p].key] = None] /\ UNCHANGED dir
    /\ Advance(p, "return")
    /\ UNCHANGED <<backend, files, temps, orphans>>

\* s3.Store.PutObject reads the whole upload (seekableBody), then sends it.
PutSend(p) ==
    /\ At(p, "put:send")
    /\ bucket' = [bucket EXCEPT ![calls[p].key] = Whole(calls[p].content)]
    /\ Advance(p, "return")
    /\ UNCHANGED <<backend, files, dir, temps, orphans>>

\* s3.Store.GetObject: the body is that of one version of the object.
GetFetch(p) ==
    /\ At(p, "get:fetch")
    /\ LET object == bucket[calls[p].key]
       IN  calls' = [calls EXCEPT ![p].at = IF object = None THEN "return" ELSE "get:read",
                                  ![p].object = object]
    /\ UNCHANGED <<backend, files, dir, temps, bucket, orphans>>

-----------------------------------------------------------------------------
\* The call returns; the answer of S3 may be lost, so that a put or delete that
\* took effect is reported as failed.
Return(p) ==
    /\ At(p, "return")
    /\ Finish(p)
    /\ UNCHANGED <<backend, files, dir, temps, bucket, orphans>>

\* A call of the system or of S3 fails, or the client of a reader hangs up.
Fail(p) ==
    /\ calls[p].at \in {"put:send", "delete"} \cup GetSteps
    /\ Finish(p)
    /\ UNCHANGED <<backend, files, dir, temps, bucket, orphans>>

\* The process dies: no cleanup runs, and temporary files stay for ever.
Crash ==
    /\ calls' = [p \in Callers |-> Idle]
    /\ orphans' = orphans \cup temps
    /\ UNCHANGED <<backend, files, dir, temps, bucket>>

Init ==
    /\ backend \in {"local", "s3"}
    /\ files = [f \in FileIds |-> <<>>]
    /\ dir = [k \in Keys |-> None]
    /\ temps = {}
    /\ bucket = [k \in Keys |-> None]
    /\ calls = [p \in Callers |-> Idle]
    /\ orphans = {}

Begin(p) ==
    \E k \in Keys :
        \/ \E c \in Contents : BeginPut(p, k, c)
        \/ BeginGet(p, k)
        \/ BeginDelete(p, k)

Next ==
    \/ \E p \in Callers :
          \/ Begin(p) \/ Return(p) \/ Fail(p)
          \/ PutCreate(p) \/ PutCopy(p) \/ PutRename(p) \/ PutFails(p) \/ PutSend(p)
          \/ GetStat(p) \/ GetOpen(p) \/ GetFetch(p) \/ GetRead(p) \/ GetClose(p)
          \/ Delete(p)
    \/ Crash

Spec == Init /\ [][Next]_vars

-----------------------------------------------------------------------------
\* Properties.

\* The file a put is writing has a temporary name, and no other call has it open.
OwnFile(p) ==
    /\ calls[p].file \in temps
    /\ \A q \in Callers \ {p} : calls[q].file # calls[p].file

\* Types, and what a call has in its hands at each step.
TypeOK ==
    /\ backend \in {"local", "s3"}
    /\ files \in [FileIds -> Data]
    /\ dir \in [Keys -> FileIds \cup {None}]
    /\ temps \subseteq FileIds
    /\ bucket \in [Keys -> Data \cup {None}]
    /\ calls \in [Callers -> Call]
    /\ orphans \subseteq FileIds
    /\ \A p \in Callers : calls[p].at \in {"put:copy", "put:rename"} => OwnFile(p)
    /\ \A p \in Callers : At(p, "get:read") => calls[p].file # None \/ calls[p].object # None

\* A reader that has come to the end has read one whole object, whatever puts and
\* deletes ran meanwhile: "This prevents partial reads on concurrent access"
\* (storage/local/store.go:8).
ReadersSeeWholeObjects ==
    \A p \in Callers :
        At(p, "get:read") /\ Len(calls[p].read) = Len(Source(p))
          => \E c \in Contents : calls[p].read = Whole(c)

\* "Always clean up the temp file on failure" (store.go:60): a temporary file
\* belongs to a put under way, or is what a crash left.  (That removing it can fail
\* as well is not modelled.)
OnlyCrashesLeaveTempFiles ==
    temps \subseteq orphans \cup {calls[p].file : p \in Callers}

\* The object of a key, for the refinement: "torn" if it is not one whole content.
ObjectOf(data) ==
    IF data = None THEN None
    ELSE IF \E c \in Contents : data = Whole(c) THEN data[1]
    ELSE "torn"

StoredObject(k) ==
    ObjectOf(IF backend = "s3" THEN bucket[k]
             ELSE IF dir[k] = None THEN None ELSE files[dir[k]])

AbstractCall(p) ==
    LET call == calls[p]
        phase == IF call.at = "idle" THEN "idle"
                 ELSE IF call.at \in {"return", "get:read"} THEN "taken" ELSE "running"
    IN  [phase |-> phase, operation |-> call.operation, key |-> call.key,
         content |-> IF At(p, "get:read") THEN ObjectOf(Source(p)) ELSE call.content]

Store == INSTANCE ObjectStore WITH
    stored <- [k \in Keys |-> StoredObject(k)],
    calls <- [p \in Callers |-> AbstractCall(p)]

\* Both stores are what the artifact service takes them for, with crashes: puts are
\* atomic, a get answers with the object of one moment of the call, and a crash
\* leaves no half-written object.
ImplementsObjectStore == Store!Spec
===============================================================================
