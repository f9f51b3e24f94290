--------------------------- MODULE ContentStoresProofs ---------------------------
(***************************************************************************)
(* Proofs about ContentStores: both stores implement ObjectStore, for any  *)
(* number of overlapping calls, keys, files and pieces, with failures and  *)
(* crashes.                                                                *)
(***************************************************************************)
EXTENDS ContentStores, SequenceTheorems, TLAPS

-----------------------------------------------------------------------------
\* Files and objects are n pieces of one content.

Fill(n, c) == [i \in 1..n |-> c]

IsWhole(data) == \E c \in Contents : data = Fill(Chunks, c)

LEMMA FillFacts ==
    ASSUME NEW n \in 0..Chunks, NEW c \in Contents
    PROVE  /\ Fill(n, c) \in Data
           /\ Fill(n, c) # None
           /\ Len(Fill(n, c)) = n
           /\ \A i \in 1..n : Fill(n, c)[i] = c
           /\ n < Chunks => Append(Fill(n, c), c) = Fill(n + 1, c)
<1>1. n \in Nat /\ Chunks \in Nat
  BY ChunksAssumption
<1>2. Fill(n, c) \in [1..n -> Contents]
  BY DEF Fill
<1>3. Fill(n, c) \in Data
  BY <1>2 DEF Data
<1>4. Fill(n, c) \in Seq(Contents) /\ Len(Fill(n, c)) = n
  BY <1>1 DEF Fill
<1>5. \A i \in 1..n : Fill(n, c)[i] = c
  BY DEF Fill
<1>6. Append(Fill(n, c), c) = Fill(n + 1, c)
  <2>1. /\ Append(Fill(n, c), c) \in Seq(Contents)
        /\ Len(Append(Fill(n, c), c)) = n + 1
        /\ \A i \in 1..n : Append(Fill(n, c), c)[i] = c
        /\ Append(Fill(n, c), c)[n + 1] = c
    BY <1>4, <1>5, AppendProperties
  <2>2. Fill(n + 1, c) \in Seq(Contents) /\ Len(Fill(n + 1, c)) = n + 1
    BY <1>1 DEF Fill
  <2>3. \A i \in 1..(n + 1) : Append(Fill(n, c), c)[i] = Fill(n + 1, c)[i]
    BY <1>1, <2>1 DEF Fill
  <2>4. QED
    BY <2>1, <2>2, <2>3, SeqEqual
<1>7. QED
  BY <1>3, <1>4, <1>5, <1>6, NoneIsNoData

LEMMA WholeFacts ==
    /\ Chunks \in 0..Chunks /\ 0 \in 0..Chunks /\ 0 < Chunks
    /\ \A c : Whole(c) = Fill(Chunks, c)
    /\ \A c : Fill(0, c) = <<>>
<1>1. Chunks \in 0..Chunks /\ 0 \in 0..Chunks /\ 0 < Chunks
  BY ChunksAssumption
<1>2. \A c : Whole(c) = Fill(Chunks, c)
  BY DEF Whole, Fill
<1>3. ASSUME NEW c
      PROVE  Fill(0, c) = <<>>
  <2>1. 1..0 = {}
    OBVIOUS
  <2>2. Fill(0, c) \in Seq({c}) /\ Len(Fill(0, c)) = 0
    BY <2>1 DEF Fill
  <2>3. QED
    BY <2>2, EmptySeq
<1>4. QED
  BY <1>1, <1>2, <1>3

-----------------------------------------------------------------------------
\* The inductive invariant.

Writing == {"put:copy", "put:rename"}

\* The arguments of a call are there until it ends, and it has a file or a response
\* only while it uses it.
ArgsOK(call) ==
    /\ call.at = "idle" => call = Idle
    /\ call.at # "idle" => /\ call.key \in Keys
                          /\ \/ call.operation = "put" /\ call.content \in Contents
                             \/ call.operation \in {"get", "delete"} /\ call.content = None
    /\ call.at \in PutSteps => call.operation = "put"
    /\ call.at \in GetSteps => call.operation = "get"
    /\ call.at \in DeleteSteps => call.operation = "delete"
    /\ call.file # None => call.at \in Writing \cup {"get:read"}
    /\ call.object # None => call.at = "get:read"
    /\ call.at \in GetSteps \ {"get:read"} => call.read = <<>>

\* The store a step belongs to.
BackendOK(call, store) ==
    /\ call.at \in Writing \cup {"put:create", "get:stat", "get:open"} => store = "local"
    /\ call.at \in {"put:send", "get:fetch"} => store = "s3"

SourceOf(call, data) == IF call.file # None THEN data[call.file] ELSE call.object

\* What a put has written and a reader has read, if the files hold data and those
\* in unnamed have temporary names: a reader's file is not one of them.
ProgressOK(call, data, unnamed) ==
    /\ call.at \in Writing => call.file \in unnamed
    /\ call.at = "put:copy" =>
         \E n \in 0..Chunks : n < Chunks /\ data[call.file] = Fill(n, call.content)
    /\ call.at = "put:rename" => data[call.file] = Fill(Chunks, call.content)
    /\ call.at = "get:read" =>
         /\ call.file \notin unnamed
         /\ \E c \in Contents, n \in 0..Chunks :
               call.read = Fill(n, c) /\ SourceOf(call, data) = Fill(Chunks, c)

\* The file under the name of a key is whole and no put works on it.
NameOK(f, data, unnamed) == f # None => f \notin unnamed /\ IsWhole(data[f])

Types ==
    /\ backend \in {"local", "s3"}
    /\ files \in [FileIds -> Data]
    /\ dir \in [Keys -> FileIds \cup {None}]
    /\ temps \subseteq FileIds
    /\ bucket \in [Keys -> Data \cup {None}]
    /\ calls \in [Callers -> Call]
    /\ orphans \subseteq FileIds

Inv ==
    /\ Types
    /\ \A p \in Callers : /\ ArgsOK(calls[p])
                          /\ BackendOK(calls[p], backend)
                          /\ ProgressOK(calls[p], files, temps)
    /\ \A p, q \in Callers : p # q /\ calls[p].at \in Writing => calls[q].file # calls[p].file
    /\ \A k \in Keys : NameOK(dir[k], files, temps)
    /\ \A k \in Keys : bucket[k] # None => IsWhole(bucket[k])
    /\ OnlyCrashesLeaveTempFiles

LEMMA NoneFacts ==
    None \notin FileIds /\ None \notin Contents /\ None \notin Keys /\ None \notin Data
  BY NoneAssumption, NoneIsNoData

-----------------------------------------------------------------------------
\* A step of one call.

\* What the step of one call may do to the others: it leaves their files alone.
LEMMA OneCallStep ==
    ASSUME Inv, NEW p \in Callers, NEW new \in Call,
           calls' = [calls EXCEPT ![p] = new],
           backend' = backend,
           files' \in [FileIds -> Data], dir' \in [Keys -> FileIds \cup {None}],
           temps' \subseteq FileIds, bucket' \in [Keys -> Data \cup {None}],
           orphans' = orphans,
           ArgsOK(new), BackendOK(new, backend), ProgressOK(new, files', temps'),
           \A q \in Callers \ {p} : calls[q].file # None =>
               /\ files'[calls[q].file] = files[calls[q].file]
               /\ calls[q].file \in temps' <=> calls[q].file \in temps,
           \A q \in Callers \ {p} :
               new.at \in Writing \/ calls[q].at \in Writing => new.file # calls[q].file,
           \A k \in Keys : NameOK(dir'[k], files', temps'),
           \A k \in Keys : bucket'[k] # None => IsWhole(bucket'[k]),
           \A f \in temps' : f = new.file \/ (f \in temps /\ f # calls[p].file)
    PROVE  Inv'
<1>1. /\ calls \in [Callers -> Call] /\ temps \subseteq FileIds /\ backend \in {"local", "s3"}
      /\ orphans \subseteq FileIds
  BY DEF Inv, Types
<1>2. calls'[p] = new /\ \A q \in Callers \ {p} : calls'[q] = calls[q]
  BY <1>1
<1>3. Types'
  <2>1. calls' \in [Callers -> Call]
    BY <1>1
  <2>2. QED
    BY <1>1, <2>1 DEF Types
<1>4. ASSUME NEW q \in Callers
      PROVE  /\ ArgsOK(calls'[q])
             /\ BackendOK(calls'[q], backend')
             /\ ProgressOK(calls'[q], files', temps')
  <2>1. CASE q = p
    BY <1>2, <2>1
  <2>2. CASE q # p
    <3>1. /\ ArgsOK(calls[q]) /\ BackendOK(calls[q], backend)
          /\ ProgressOK(calls[q], files, temps)
      BY DEF Inv
    <3>2. calls[q].at \in Writing => calls[q].file # None
      BY <1>1, <3>1, NoneFacts DEF ProgressOK
    <3>3. ProgressOK(calls[q], files', temps')
      <4>1. CASE calls[q].file # None
        BY <2>2, <3>1, <4>1 DEF ProgressOK, SourceOf
      <4>2. CASE calls[q].file = None
        <5>1. calls[q].at \notin Writing
          BY <3>2, <4>2
        <5>2. calls[q].file \notin temps'
          BY <4>2, NoneFacts
        <5>3. QED
          BY <3>1, <4>2, <5>1, <5>2 DEF ProgressOK, SourceOf, Writing
      <4>3. QED
        BY <4>1, <4>2
    <3>4. QED
      BY <1>2, <2>2, <3>1, <3>3
  <2>3. QED
    BY <2>1, <2>2
<1>5. \A q, h \in Callers : q # h /\ calls'[q].at \in Writing => calls'[h].file # calls'[q].file
  BY <1>2 DEF Inv
<1>6. OnlyCrashesLeaveTempFiles'
  <2>1. ASSUME NEW f \in temps', f \notin orphans
        PROVE  \E q \in Callers : f = calls'[q].file
    <3>1. CASE f = new.file
      BY <1>2, <3>1
    <3>2. CASE f \in temps /\ f # calls[p].file
      <4>1. PICK q \in Callers : f = calls[q].file
        BY <2>1, <3>2 DEF Inv, OnlyCrashesLeaveTempFiles
      <4>2. QED
        BY <1>2, <3>2, <4>1
    <3>3. QED
      BY <3>1, <3>2
  <2>2. QED
    BY <2>1 DEF OnlyCrashesLeaveTempFiles
<1>7. QED
  BY <1>3, <1>4, <1>5, <1>6 DEF Inv

LEMMA EmptyIsData == <<>> \in Data
<1>1. <<>> \in Seq(Contents) /\ Len(<<>>) = 0
  OBVIOUS
<1>2. <<>> \in [1..0 -> Contents]
  BY <1>1, LenProperties
<1>3. 0 \in 0..Chunks
  BY ChunksAssumption
<1>4. QED
  BY <1>2, <1>3 DEF Data

\* A call that is over.
LEMMA IdleFacts ==
    /\ Idle \in Call /\ Idle.at = "idle" /\ Idle.file = None
    /\ ArgsOK(Idle)
    /\ \A store : BackendOK(Idle, store)
    /\ \A data, unnamed : ProgressOK(Idle, data, unnamed)
<1>1. Idle \in Call /\ Idle.at = "idle" /\ Idle.file = None /\ Idle.object = None
  BY EmptyIsData DEF Idle, Call
<1>2. QED
  BY <1>1 DEF ArgsOK, BackendOK, ProgressOK, PutSteps, GetSteps, DeleteSteps, Writing

\* What the invariant says of one call.
LEMMA CallFacts ==
    ASSUME Inv, NEW p \in Callers
    PROVE  /\ calls \in [Callers -> Call] /\ calls[p] \in Call
           /\ ArgsOK(calls[p]) /\ BackendOK(calls[p], backend)
           /\ ProgressOK(calls[p], files, temps)
           /\ calls[p].at \notin Writing => calls[p].file \notin temps
           /\ calls[p].at \in Writing =>
                /\ calls[p].file \in temps /\ calls[p].file \in FileIds
                /\ \A q \in Callers \ {p} : calls[q].file # calls[p].file
<1>1. /\ calls \in [Callers -> Call] /\ calls[p] \in Call /\ temps \subseteq FileIds
      /\ ArgsOK(calls[p]) /\ BackendOK(calls[p], backend)
      /\ ProgressOK(calls[p], files, temps)
  BY DEF Inv, Types
<1>2. calls[p].at \notin Writing => calls[p].file \notin temps
  BY <1>1, NoneFacts DEF ArgsOK, ProgressOK
<1>3. calls[p].at \in Writing =>
        /\ calls[p].file \in temps /\ calls[p].file \in FileIds
        /\ \A q \in Callers \ {p} : calls[q].file # calls[p].file
  BY <1>1 DEF ProgressOK, Inv
<1>4. QED
  BY <1>1, <1>2, <1>3

\* A step that changes nothing but a call that is not writing.
LEMMA QuietStep ==
    ASSUME Inv, NEW p \in Callers, NEW new \in Call,
           calls' = [calls EXCEPT ![p] = new],
           UNCHANGED <<backend, files, dir, temps, bucket, orphans>>,
           calls[p].at \notin Writing, new.at \notin Writing, new.file \notin temps,
           ArgsOK(new), BackendOK(new, backend), ProgressOK(new, files, temps)
    PROVE  Inv'
<1>1. Types
  BY DEF Inv
<1>2. calls[p].file \notin temps
  BY CallFacts
<1>3. \A q \in Callers \ {p} : calls[q].at \in Writing => new.file # calls[q].file
  BY CallFacts
<1>4. ProgressOK(new, files', temps')
  OBVIOUS
<1>5. /\ \A k \in Keys : NameOK(dir'[k], files', temps')
      /\ \A k \in Keys : bucket'[k] # None => IsWhole(bucket'[k])
  BY DEF Inv
<1>6. /\ files' \in [FileIds -> Data] /\ dir' \in [Keys -> FileIds \cup {None}]
      /\ temps' \subseteq FileIds /\ bucket' \in [Keys -> Data \cup {None}]
  BY <1>1 DEF Types
<1>7. \A f \in temps' : f = new.file \/ (f \in temps /\ f # calls[p].file)
  BY <1>2
<1>8. QED
  BY <1>3, <1>4, <1>5, <1>6, <1>7, OneCallStep

-----------------------------------------------------------------------------
\* The steps.

LEMMA BeginStep ==
    ASSUME Inv, NEW p \in Callers, Begin(p)
    PROVE  Inv'
<1>1. PICK k \in Keys : \/ \E c \in Contents : BeginPut(p, k, c)
                        \/ BeginGet(p, k) \/ BeginDelete(p, k)
  BY DEF Begin
<1>2. calls \in [Callers -> Call] /\ backend \in {"local", "s3"}
  BY DEF Inv, Types
<1>3. PICK new : /\ calls' = [calls EXCEPT ![p] = new]
                 /\ \/ \E c \in Contents :
                         new = [Idle EXCEPT !.at = IF backend = "local"
                                                     THEN "put:create" ELSE "put:send",
                                            !.operation = "put", !.key = k, !.content = c]
                    \/ new = [Idle EXCEPT !.at = IF backend = "local"
                                                   THEN "get:stat" ELSE "get:fetch",
                                          !.operation = "get", !.key = k]
                    \/ new = [Idle EXCEPT !.at = "delete", !.operation = "delete", !.key = k]
  BY <1>1 DEF BeginPut, BeginGet, BeginDelete
<1>4. new \in Call /\ new.at \notin Writing /\ new.file = None
  BY <1>2, <1>3, EmptyIsData DEF Idle, Call, PutSteps, GetSteps, DeleteSteps, Writing
<1>5. ArgsOK(new) /\ BackendOK(new, backend) /\ ProgressOK(new, files, temps)
  <2>1. new.at \in {"put:create", "put:send", "get:stat", "get:fetch", "delete"}
    BY <1>2, <1>3 DEF Idle
  <2>2. new.object = None /\ new.key \in Keys /\ new.read = <<>>
    BY <1>3 DEF Idle
  <2>3. \/ new.at \in PutSteps /\ new.operation = "put" /\ new.content \in Contents
        \/ new.at \in GetSteps /\ new.operation = "get" /\ new.content = None
        \/ new.at \in DeleteSteps /\ new.operation = "delete" /\ new.content = None
    BY <1>2, <1>3 DEF Idle, PutSteps, GetSteps, DeleteSteps
  <2>4. BackendOK(new, backend)
    BY <1>2, <1>3 DEF BackendOK, Idle, Writing
  <2>5. ArgsOK(new)
    BY <1>4, <2>1, <2>2, <2>3 DEF ArgsOK, PutSteps, GetSteps, DeleteSteps
  <2>6. ProgressOK(new, files, temps)
    BY <1>4, <2>1 DEF ProgressOK
  <2>7. QED
    BY <2>4, <2>5, <2>6
<1>6. /\ UNCHANGED <<backend, files, dir, temps, bucket, orphans>>
      /\ calls[p].at \notin Writing
  BY <1>1 DEF BeginPut, BeginGet, BeginDelete, At, Writing
<1>7. new.file \notin temps
  BY <1>4, NoneFacts DEF Inv, Types
<1>8. QED
  BY <1>3, <1>4, <1>5, <1>6, <1>7, QuietStep

LEMMA EndStep ==
    ASSUME Inv, NEW p \in Callers, Return(p) \/ Fail(p) \/ GetClose(p)
    PROVE  Inv'
<1>1. /\ calls' = [calls EXCEPT ![p] = Idle] /\ calls[p].at \notin Writing
      /\ UNCHANGED <<backend, files, dir, temps, bucket, orphans>>
  BY DEF Return, Fail, GetClose, Finish, At, Writing, GetSteps
<1>2. PICK new : new = Idle
  OBVIOUS
<1>3. new.file \notin temps
  BY <1>2, IdleFacts, NoneFacts DEF Inv, Types
<1>4. new \in Call /\ new.at \notin Writing
  BY <1>2, IdleFacts DEF Writing
<1>5. ArgsOK(new) /\ BackendOK(new, backend) /\ ProgressOK(new, files, temps)
  BY <1>2, IdleFacts
<1>6. calls' = [calls EXCEPT ![p] = new]
  BY <1>1, <1>2
<1>7. QED
  BY <1>1, <1>3, <1>4, <1>5, <1>6, QuietStep

LEMMA FindStep ==
    ASSUME Inv, NEW p \in Callers, GetStat(p) \/ GetOpen(p) \/ GetFetch(p)
    PROVE  Inv'
<1>1. /\ calls \in [Callers -> Call] /\ calls[p] \in Call /\ ArgsOK(calls[p])
      /\ BackendOK(calls[p], backend)
  BY CallFacts
<1>2. /\ UNCHANGED <<backend, files, dir, temps, bucket, orphans>>
      /\ calls[p].at \in {"get:stat", "get:open", "get:fetch"}
  BY DEF GetStat, GetOpen, GetFetch, At
<1>3. /\ calls[p].file = None /\ calls[p].object = None /\ calls[p].operation = "get"
      /\ calls[p].key \in Keys /\ calls[p].content = None
  BY <1>1, <1>2 DEF ArgsOK, Writing, GetSteps
<1>4. /\ temps \subseteq FileIds /\ dir \in [Keys -> FileIds \cup {None}]
      /\ bucket \in [Keys -> Data \cup {None}]
  BY DEF Inv, Types
<1>5. /\ NameOK(dir[calls[p].key], files, temps)
      /\ bucket[calls[p].key] # None => IsWhole(bucket[calls[p].key])
  BY <1>3 DEF Inv
<1>6. ASSUME NEW new,
             calls' = [calls EXCEPT ![p] = new],
             new \in [at : {"return", "get:open", "get:read"}, operation : {"get"},
                      key : Keys, content : {None}, file : FileIds \cup {None},
                      object : Data \cup {None}, read : Data],
             new.at = "get:open" => backend = "local" /\ new.read = <<>>,
             new.at # "get:read" => new.file = None /\ new.object = None,
             new.at = "get:read" => ProgressOK(new, files, temps)
      PROVE  Inv'
  <2>1. new \in Call /\ new.at \notin Writing
    BY <1>6 DEF Call, GetSteps, Writing
  <2>2. ArgsOK(new)
    BY <1>6 DEF ArgsOK, PutSteps, GetSteps, DeleteSteps
  <2>3. BackendOK(new, backend)
    BY <1>6, <2>1 DEF BackendOK
  <2>4. ProgressOK(new, files, temps)
    BY <1>6, <2>1 DEF ProgressOK
  <2>5. new.file \notin temps
    BY <1>4, <1>6, NoneFacts DEF ProgressOK
  <2>6. calls[p].at \notin Writing
    BY <1>2 DEF Writing
  <2>7. QED
    BY <1>2, <1>6, <2>1, <2>2, <2>3, <2>4, <2>5, <2>6, QuietStep
<1>7. CASE GetStat(p)
  <2>1. PICK new : new = [calls[p] EXCEPT !.at = IF dir[calls[p].key] = None
                                                   THEN "return" ELSE "get:open"]
    OBVIOUS
  <2>2. calls' = [calls EXCEPT ![p] = new]
    BY <1>1, <1>7, <2>1 DEF GetStat, Advance
  <2>3. backend = "local" /\ calls[p].read = <<>>
    BY <1>1, <1>7 DEF GetStat, At, BackendOK, ArgsOK, GetSteps
  <2>4. /\ new.at = IF dir[calls[p].key] = None THEN "return" ELSE "get:open"
        /\ new.operation = "get" /\ new.key \in Keys /\ new.content = None
        /\ new.file = None /\ new.object = None /\ new.read = <<>>
    BY <1>1, <1>3, <2>1, <2>3 DEF Call
  <2>5. new \in [at : {"return", "get:open", "get:read"}, operation : {"get"},
                 key : Keys, content : {None}, file : FileIds \cup {None},
                 object : Data \cup {None}, read : Data]
    BY <1>1, <1>3, <2>1, <2>3 DEF Call
  <2>6. QED
    BY <1>6, <2>2, <2>3, <2>4, <2>5
<1>8. CASE GetOpen(p)
  <2>1. PICK new : new = [calls[p] EXCEPT !.at = IF dir[calls[p].key] = None
                                                   THEN "return" ELSE "get:read",
                                          !.file = dir[calls[p].key]]
    OBVIOUS
  <2>2. calls' = [calls EXCEPT ![p] = new]
    BY <1>1, <1>8, <2>1 DEF GetOpen
  <2>3. new.at = "get:read" => ProgressOK(new, files, temps)
    <3>1. SUFFICES ASSUME new.at = "get:read" PROVE ProgressOK(new, files, temps)
      OBVIOUS
    <3>2. new.file = dir[calls[p].key] /\ new.file # None /\ new.read = calls[p].read
      BY <1>1, <2>1, <3>1 DEF Call
    <3>3. PICK c \in Contents : files[new.file] = Fill(Chunks, c)
      BY <1>5, <3>2 DEF NameOK, IsWhole
    <3>4. new.read = Fill(0, c)
      BY <3>2, <1>8, WholeFacts, <1>1 DEF GetOpen, At, ArgsOK, GetSteps
    <3>5. QED
      BY <1>5, <3>1, <3>2, <3>3, <3>4, WholeFacts DEF ProgressOK, SourceOf, NameOK, Writing
  <2>4. QED
    BY <1>1, <1>3, <1>4, <1>6, <2>1, <2>2, <2>3 DEF Call
<1>9. CASE GetFetch(p)
  <2>1. PICK new : new = [calls[p] EXCEPT !.at = IF bucket[calls[p].key] = None
                                                   THEN "return" ELSE "get:read",
                                          !.object = bucket[calls[p].key]]
    OBVIOUS
  <2>2. calls' = [calls EXCEPT ![p] = new]
    BY <1>1, <1>9, <2>1 DEF GetFetch
  <2>3. new.at = "get:read" => ProgressOK(new, files, temps)
    <3>1. SUFFICES ASSUME new.at = "get:read" PROVE ProgressOK(new, files, temps)
      OBVIOUS
    <3>2. /\ new.object = bucket[calls[p].key] /\ new.object # None
          /\ new.file = None /\ new.read = calls[p].read
      BY <1>1, <1>3, <2>1, <3>1 DEF Call
    <3>3. PICK c \in Contents : new.object = Fill(Chunks, c)
      BY <1>5, <3>2 DEF IsWhole
    <3>4. new.read = Fill(0, c)
      BY <3>2, <1>9, WholeFacts, <1>1 DEF GetFetch, At, ArgsOK, GetSteps
    <3>5. new.file \notin temps
      BY <1>4, <3>2, NoneFacts
    <3>6. QED
      BY <3>1, <3>2, <3>3, <3>4, <3>5, WholeFacts DEF ProgressOK, SourceOf, Writing
  <2>4. QED
    BY <1>1, <1>3, <1>4, <1>6, <2>1, <2>2, <2>3 DEF Call
<1>10. QED
  BY <1>7, <1>8, <1>9

LEMMA ReadStep ==
    ASSUME Inv, NEW p \in Callers, GetRead(p)
    PROVE  Inv'
<1>1. /\ calls \in [Callers -> Call] /\ calls[p] \in Call /\ ArgsOK(calls[p])
      /\ BackendOK(calls[p], backend) /\ ProgressOK(calls[p], files, temps)
  BY CallFacts
<1>2. /\ UNCHANGED <<backend, files, dir, temps, bucket, orphans>>
      /\ calls[p].at = "get:read"
  BY DEF GetRead, At
<1>3. PICK c \in Contents, n \in 0..Chunks :
          calls[p].read = Fill(n, c) /\ SourceOf(calls[p], files) = Fill(Chunks, c)
  BY <1>1, <1>2 DEF ProgressOK
<1>4. n \in Nat /\ Chunks \in Nat /\ Len(Fill(n, c)) = n /\ Len(Fill(Chunks, c)) = Chunks
  BY FillFacts, WholeFacts, ChunksAssumption
<1>5. n + 1 <= Chunks
  BY <1>3, <1>4 DEF GetRead, Source, SourceOf
<1>6. n + 1 \in 1..Chunks /\ n < Chunks /\ n + 1 \in 0..Chunks
  BY <1>4, <1>5
<1>7. Append(Fill(n, c), Fill(Chunks, c)[n + 1]) = Fill(n + 1, c)
  BY <1>6, FillFacts, WholeFacts
<1>8. calls' = [calls EXCEPT ![p].read = Fill(n + 1, c)]
  BY <1>1, <1>3, <1>4, <1>7 DEF GetRead, Source, SourceOf
<1>9. PICK new : new = [calls[p] EXCEPT !.read = Fill(n + 1, c)]
  OBVIOUS
<1>10. calls' = [calls EXCEPT ![p] = new]
  BY <1>1, <1>8, <1>9
<1>11. /\ new.at = "get:read" /\ new.operation = calls[p].operation
       /\ new.key = calls[p].key /\ new.content = calls[p].content
       /\ new.file = calls[p].file /\ new.object = calls[p].object
       /\ new.read = Fill(n + 1, c)
  BY <1>1, <1>2, <1>9 DEF Call
<1>12. new \in Call
  BY <1>1, <1>6, <1>9, FillFacts DEF Call
<1>13. ArgsOK(new) /\ BackendOK(new, backend)
  BY <1>1, <1>2, <1>11
     DEF ArgsOK, BackendOK, Idle, Writing, PutSteps, GetSteps, DeleteSteps
<1>14. ProgressOK(new, files, temps)
  BY <1>1, <1>2, <1>3, <1>6, <1>11 DEF ProgressOK, SourceOf, Writing
<1>15. /\ calls[p].at \notin Writing /\ new.at \notin Writing /\ new.file \notin temps
  BY <1>1, <1>2, <1>11 DEF ProgressOK, Writing
<1>16. QED
  BY <1>2, <1>10, <1>12, <1>13, <1>14, <1>15, QuietStep

\* A delete, or a put of S3, takes effect.
LEMMA TakeStep ==
    ASSUME Inv, NEW p \in Callers, Delete(p) \/ PutSend(p)
    PROVE  Inv'
<1>1. /\ calls \in [Callers -> Call] /\ calls[p] \in Call /\ ArgsOK(calls[p])
  BY CallFacts
<1>2. Types
  BY DEF Inv
<1>3. PICK new : new = [calls[p] EXCEPT !.at = "return"]
  OBVIOUS
<1>4. calls' = [calls EXCEPT ![p] = new]
  BY <1>1, <1>3 DEF Delete, PutSend, Advance
<1>5. calls[p].at \in {"delete", "put:send"}
  BY DEF Delete, PutSend, At
<1>6. calls[p].file = None /\ calls[p].object = None /\ calls[p].key \in Keys
  BY <1>1, <1>5 DEF ArgsOK, Writing
<1>7. /\ new.at = "return" /\ new.operation = calls[p].operation
      /\ new.key = calls[p].key /\ new.content = calls[p].content
      /\ new.file = None /\ new.object = None
  BY <1>1, <1>3, <1>6 DEF Call
<1>8. new \in Call
  BY <1>1, <1>3 DEF Call
<1>9. ArgsOK(new) /\ BackendOK(new, backend) /\ ProgressOK(new, files, temps)
  BY <1>1, <1>5, <1>7
     DEF ArgsOK, BackendOK, ProgressOK, Writing, PutSteps, GetSteps, DeleteSteps
<1>10. UNCHANGED <<backend, files, temps, orphans>>
  BY DEF Delete, PutSend
<1>11. /\ dir' \in [Keys -> FileIds \cup {None}]
       /\ \A k \in Keys : dir'[k] = dir[k] \/ dir'[k] = None
  BY <1>2 DEF Types, Delete, PutSend
<1>12. /\ bucket' \in [Keys -> Data \cup {None}]
       /\ \A k \in Keys : bucket'[k] # None => IsWhole(bucket'[k])
  <2>1. CASE Delete(p)
    BY <1>2, <2>1 DEF Types, Inv, Delete
  <2>2. CASE PutSend(p)
    <3>1. calls[p].content \in Contents
      BY <1>1, <2>2, NoneFacts DEF ArgsOK, PutSend, At, PutSteps
    <3>2. Whole(calls[p].content) \in Data /\ IsWhole(Whole(calls[p].content))
      BY <3>1, FillFacts, WholeFacts DEF IsWhole
    <3>3. QED
      BY <1>2, <2>2, <3>2 DEF Types, Inv, PutSend
  <2>3. QED
    BY <2>1, <2>2
<1>13. \A k \in Keys : NameOK(dir'[k], files', temps')
  BY <1>10, <1>11 DEF Inv, NameOK
<1>14. /\ files' \in [FileIds -> Data] /\ temps' \subseteq FileIds
       /\ ProgressOK(new, files', temps')
  BY <1>2, <1>9, <1>10 DEF Types
<1>15. \A q \in Callers \ {p} : calls[q].at \in Writing => calls[q].file # None
  BY CallFacts, NoneFacts
<1>16. \A q \in Callers \ {p} :
           new.at \in Writing \/ calls[q].at \in Writing => new.file # calls[q].file
  BY <1>7, <1>15 DEF Writing
<1>17. \A f \in temps' : f = new.file \/ (f \in temps /\ f # calls[p].file)
  BY <1>6, <1>10, <1>2, NoneFacts DEF Types
<1>18. \A q \in Callers \ {p} : calls[q].file # None =>
               /\ files'[calls[q].file] = files[calls[q].file]
               /\ calls[q].file \in temps' <=> calls[q].file \in temps
  BY <1>10
<1>19. QED
  BY <1>4, <1>8, <1>9, <1>10, <1>11, <1>12, <1>13, <1>14, <1>16, <1>17, <1>18, OneCallStep

LEMMA CreateStep ==
    ASSUME Inv, NEW p \in Callers, PutCreate(p)
    PROVE  Inv'
<1>1. /\ calls \in [Callers -> Call] /\ calls[p] \in Call /\ ArgsOK(calls[p])
      /\ BackendOK(calls[p], backend) /\ calls[p].file \notin temps
  BY CallFacts DEF PutCreate, At, Writing
<1>2. Types
  BY DEF Inv
<1>3. PICK f \in FileIds :
          /\ ~InUse(f)
          /\ files' = [files EXCEPT ![f] = <<>>]
          /\ temps' = temps \cup {f}
          /\ calls' = [calls EXCEPT ![p].at = "put:copy", ![p].file = f]
  BY DEF PutCreate
<1>4. PICK new : new = [calls[p] EXCEPT !.at = "put:copy", !.file = f]
  OBVIOUS
<1>5. calls' = [calls EXCEPT ![p] = new]
  BY <1>1, <1>3, <1>4
<1>6. /\ calls[p].at = "put:create" /\ calls[p].operation = "put" /\ calls[p].key \in Keys
      /\ calls[p].content \in Contents /\ calls[p].object = None /\ backend = "local"
  BY <1>1, NoneFacts DEF PutCreate, At, ArgsOK, BackendOK, PutSteps
<1>7. /\ new.at = "put:copy" /\ new.operation = "put" /\ new.key \in Keys
      /\ new.content \in Contents /\ new.file = f /\ new.object = None /\ new \in Call
  BY <1>1, <1>4, <1>6 DEF Call, PutSteps
<1>8. /\ UNCHANGED <<backend, dir, bucket, orphans>>
      /\ files' \in [FileIds -> Data] /\ temps' \subseteq FileIds
      /\ files'[f] = <<>> /\ \A g \in FileIds \ {f} : files'[g] = files[g]
  BY <1>2, <1>3, EmptyIsData DEF PutCreate, Types
<1>9. ArgsOK(new) /\ BackendOK(new, backend)
  BY <1>6, <1>7 DEF ArgsOK, BackendOK, Writing, PutSteps, GetSteps, DeleteSteps
<1>10. ProgressOK(new, files', temps')
  BY <1>3, <1>7, <1>8, WholeFacts DEF ProgressOK, Writing
<1>11. \A q \in Callers : calls[q].file # f
  BY <1>3 DEF InUse
<1>12. \A q \in Callers \ {p} : calls[q].file # None =>
           /\ files'[calls[q].file] = files[calls[q].file]
           /\ calls[q].file \in temps' <=> calls[q].file \in temps
  BY <1>1, <1>3, <1>8, <1>11 DEF Call
<1>13. \A k \in Keys : NameOK(dir'[k], files', temps')
  <2>1. ASSUME NEW k \in Keys, dir[k] # None
        PROVE  NameOK(dir[k], files', temps')
    <3>1. dir[k] # f /\ dir[k] \in FileIds
      BY <1>2, <1>3, <2>1 DEF InUse, Types
    <3>2. dir[k] \notin temps /\ IsWhole(files[dir[k]])
      BY <2>1 DEF Inv, NameOK
    <3>3. QED
      BY <1>3, <1>8, <3>1, <3>2 DEF NameOK
  <2>2. QED
    BY <1>8, <2>1 DEF NameOK
<1>14. /\ \A k \in Keys : bucket'[k] # None => IsWhole(bucket'[k])
       /\ dir' \in [Keys -> FileIds \cup {None}] /\ bucket' \in [Keys -> Data \cup {None}]
  BY <1>2, <1>8 DEF Inv, Types
<1>15. \A g \in temps' : g = new.file \/ (g \in temps /\ g # calls[p].file)
  BY <1>1, <1>3, <1>7
<1>16. \A q \in Callers \ {p} :
           new.at \in Writing \/ calls[q].at \in Writing => new.file # calls[q].file
  BY <1>7, <1>11
<1>17. QED
  BY <1>5, <1>7, <1>8, <1>9, <1>10, <1>12, <1>13, <1>14, <1>15, <1>16, OneCallStep

LEMMA CopyStep ==
    ASSUME Inv, NEW p \in Callers, PutCopy(p)
    PROVE  Inv'
<1>1. /\ calls \in [Callers -> Call] /\ calls[p] \in Call /\ ArgsOK(calls[p])
      /\ BackendOK(calls[p], backend) /\ ProgressOK(calls[p], files, temps)
      /\ calls[p].at = "put:copy"
  BY CallFacts DEF PutCopy, At
<1>2. Types
  BY DEF Inv
<1>3. /\ calls[p].file \in temps /\ calls[p].file \in FileIds
      /\ \A q \in Callers \ {p} : calls[q].file # calls[p].file
  BY <1>1, CallFacts DEF Writing
<1>4. PICK f : f = calls[p].file
  OBVIOUS
<1>5. PICK c : c = calls[p].content
  OBVIOUS
<1>6. /\ calls[p].operation = "put" /\ calls[p].key \in Keys /\ c \in Contents
      /\ calls[p].object = None /\ backend = "local"
  BY <1>1, <1>5, NoneFacts DEF ArgsOK, BackendOK, PutSteps, Writing
<1>7. PICK n \in 0..Chunks : n < Chunks /\ files[f] = Fill(n, c)
  BY <1>1, <1>4, <1>5 DEF ProgressOK
<1>8. n + 1 \in 0..Chunks /\ n \in Nat /\ Chunks \in Nat /\ Len(Fill(n + 1, c)) = n + 1
  BY <1>6, <1>7, ChunksAssumption, FillFacts
<1>9. files' = [files EXCEPT ![f] = Fill(n + 1, c)]
  <2>1. Append(files[f], c) = Fill(n + 1, c)
    BY <1>6, <1>7, FillFacts
  <2>2. QED
    BY <1>2, <1>3, <1>4, <1>5, <2>1 DEF PutCopy, Types
<1>10. /\ files' \in [FileIds -> Data] /\ files'[f] = Fill(n + 1, c)
       /\ \A g \in FileIds \ {f} : files'[g] = files[g]
  BY <1>2, <1>3, <1>4, <1>6, <1>8, <1>9, FillFacts DEF Types
<1>11. PICK new : new = [calls[p] EXCEPT !.at = IF n + 1 = Chunks THEN "put:rename" ELSE "put:copy"]
  OBVIOUS
<1>12. calls' = [calls EXCEPT ![p] = new]
  <2>1. CASE n + 1 = Chunks
    BY <1>1, <1>4, <1>8, <1>10, <1>11, <2>1 DEF PutCopy, Advance
  <2>2. CASE n + 1 # Chunks
    <3>1. calls' = calls
      BY <1>4, <1>8, <1>10, <2>2 DEF PutCopy
    <3>2. new = calls[p]
      BY <1>1, <1>11, <2>2 DEF Call
    <3>3. QED
      BY <1>1, <3>1, <3>2
  <2>3. QED
    BY <2>1, <2>2
<1>13. /\ new.at = IF n + 1 = Chunks THEN "put:rename" ELSE "put:copy"
       /\ new.operation = "put" /\ new.key \in Keys /\ new.content = c
       /\ new.file = f /\ new.object = None /\ new \in Call
  BY <1>1, <1>4, <1>5, <1>6, <1>11 DEF Call, PutSteps
<1>14. UNCHANGED <<backend, dir, temps, bucket, orphans>>
  BY DEF PutCopy
<1>15. ArgsOK(new) /\ BackendOK(new, backend)
  BY <1>6, <1>13 DEF ArgsOK, BackendOK, Writing, PutSteps, GetSteps, DeleteSteps
<1>16. ProgressOK(new, files', temps')
  BY <1>3, <1>4, <1>8, <1>10, <1>13, <1>14 DEF ProgressOK, Writing
<1>17. \A q \in Callers \ {p} : calls[q].file # None =>
           /\ files'[calls[q].file] = files[calls[q].file]
           /\ calls[q].file \in temps' <=> calls[q].file \in temps
  BY <1>1, <1>3, <1>4, <1>10, <1>14 DEF Call
<1>18. \A k \in Keys : NameOK(dir'[k], files', temps')
  BY <1>2, <1>3, <1>4, <1>10, <1>14 DEF Inv, NameOK, Types
<1>19. /\ \A k \in Keys : bucket'[k] # None => IsWhole(bucket'[k])
       /\ dir' \in [Keys -> FileIds \cup {None}] /\ bucket' \in [Keys -> Data \cup {None}]
       /\ temps' \subseteq FileIds
  BY <1>2, <1>14 DEF Inv, Types
<1>20. /\ \A q \in Callers \ {p} :
             new.at \in Writing \/ calls[q].at \in Writing => new.file # calls[q].file
       /\ \A g \in temps' : g = new.file \/ (g \in temps /\ g # calls[p].file)
  BY <1>3, <1>4, <1>13, <1>14
<1>21. QED
  BY <1>10, <1>12, <1>13, <1>14, <1>15, <1>16, <1>17, <1>18, <1>19, <1>20, OneCallStep

LEMMA RenameStep ==
    ASSUME Inv, NEW p \in Callers, PutRename(p)
    PROVE  Inv'
<1>1. /\ calls \in [Callers -> Call] /\ calls[p] \in Call /\ ArgsOK(calls[p])
      /\ ProgressOK(calls[p], files, temps) /\ calls[p].at = "put:rename"
  BY CallFacts DEF PutRename, At
<1>2. Types
  BY DEF Inv
<1>3. /\ calls[p].file \in temps /\ calls[p].file \in FileIds
      /\ \A q \in Callers \ {p} : calls[q].file # calls[p].file
  BY <1>1, CallFacts DEF Writing
<1>4. PICK f : f = calls[p].file
  OBVIOUS
<1>5. /\ calls[p].operation = "put" /\ calls[p].key \in Keys
      /\ calls[p].content \in Contents /\ calls[p].object = None
  BY <1>1, NoneFacts DEF ArgsOK, PutSteps
<1>6. PICK new : new = [calls[p] EXCEPT !.at = "return", !.file = None]
  OBVIOUS
<1>7. calls' = [calls EXCEPT ![p] = new]
  BY <1>1, <1>6 DEF PutRename
<1>8. /\ new.at = "return" /\ new.operation = "put" /\ new.key \in Keys
      /\ new.content \in Contents /\ new.file = None /\ new.object = None /\ new \in Call
  BY <1>1, <1>5, <1>6 DEF Call
<1>9. /\ UNCHANGED <<backend, files, bucket, orphans>>
      /\ dir' = [dir EXCEPT ![calls[p].key] = f] /\ temps' = temps \ {f}
  BY <1>4 DEF PutRename
<1>10. /\ ArgsOK(new) /\ BackendOK(new, backend) /\ ProgressOK(new, files', temps')
  BY <1>8 DEF ArgsOK, BackendOK, ProgressOK, Writing, PutSteps, GetSteps, DeleteSteps
<1>11. /\ dir' \in [Keys -> FileIds \cup {None}]
       /\ \A k \in Keys : dir'[k] = dir[k] \/ dir'[k] = f
  BY <1>2, <1>3, <1>4, <1>9 DEF Types
<1>12. IsWhole(files[f])
  BY <1>1, <1>4, <1>5 DEF ProgressOK, IsWhole
<1>13. \A k \in Keys : NameOK(dir'[k], files', temps')
  BY <1>9, <1>11, <1>12 DEF Inv, NameOK
<1>14. \A q \in Callers \ {p} : calls[q].file # None =>
           /\ files'[calls[q].file] = files[calls[q].file]
           /\ calls[q].file \in temps' <=> calls[q].file \in temps
  BY <1>3, <1>4, <1>9
<1>15. \A q \in Callers \ {p} :
           new.at \in Writing \/ calls[q].at \in Writing => new.file # calls[q].file
  <2>1. \A q \in Callers : calls[q].at \in Writing => calls[q].file # None
    BY CallFacts, NoneFacts
  <2>2. QED
    BY <1>8, <2>1 DEF Writing
<1>16. /\ \A k \in Keys : bucket'[k] # None => IsWhole(bucket'[k])
       /\ files' \in [FileIds -> Data] /\ bucket' \in [Keys -> Data \cup {None}]
       /\ temps' \subseteq FileIds
  BY <1>2, <1>9 DEF Inv, Types
<1>17. \A g \in temps' : g = new.file \/ (g \in temps /\ g # calls[p].file)
  BY <1>4, <1>9
<1>18. QED
  BY <1>7, <1>8, <1>9, <1>10, <1>11, <1>13, <1>14, <1>15, <1>16, <1>17, OneCallStep

LEMMA FailStep ==
    ASSUME Inv, NEW p \in Callers, PutFails(p)
    PROVE  Inv'
<1>1. /\ calls \in [Callers -> Call] /\ calls[p] \in Call /\ ArgsOK(calls[p])
  BY CallFacts
<1>2. Types
  BY DEF Inv
<1>3. /\ UNCHANGED <<backend, files, dir, bucket, orphans>>
      /\ temps' = temps \ {calls[p].file}
      /\ calls' = [calls EXCEPT ![p] = Idle]
      /\ calls[p].at \in Writing \cup {"put:create"}
  BY DEF PutFails, Finish, Writing
<1>4. \A q \in Callers \ {p} : calls[q].file # None => calls[q].file # calls[p].file
  <2>1. CASE calls[p].at \in Writing
    BY <2>1, CallFacts
  <2>2. CASE calls[p].at = "put:create"
    BY <1>1, <2>2 DEF ArgsOK, Writing
  <2>3. QED
    BY <1>3, <2>1, <2>2
<1>5. PICK new : new = Idle
  OBVIOUS
<1>6. /\ new \in Call /\ new.at = "idle" /\ new.file = None
      /\ ArgsOK(new) /\ BackendOK(new, backend) /\ ProgressOK(new, files', temps')
  BY <1>5, IdleFacts
<1>7. \A q \in Callers \ {p} : calls[q].file # None =>
           /\ files'[calls[q].file] = files[calls[q].file]
           /\ calls[q].file \in temps' <=> calls[q].file \in temps
  BY <1>3, <1>4
<1>8. \A q \in Callers \ {p} :
           new.at \in Writing \/ calls[q].at \in Writing => new.file # calls[q].file
  <2>1. \A q \in Callers : calls[q].at \in Writing => calls[q].file # None
    BY CallFacts, NoneFacts
  <2>2. QED
    BY <1>6, <2>1 DEF Writing
<1>9. /\ \A k \in Keys : NameOK(dir'[k], files', temps')
      /\ \A k \in Keys : bucket'[k] # None => IsWhole(bucket'[k])
  BY <1>3 DEF Inv, NameOK
<1>10. /\ files' \in [FileIds -> Data] /\ bucket' \in [Keys -> Data \cup {None}]
       /\ temps' \subseteq FileIds /\ dir' \in [Keys -> FileIds \cup {None}]
  BY <1>2, <1>3 DEF Types
<1>11. \A g \in temps' : g = new.file \/ (g \in temps /\ g # calls[p].file)
  BY <1>3
<1>12. calls' = [calls EXCEPT ![p] = new]
  BY <1>3, <1>5
<1>13. QED
  BY <1>3, <1>6, <1>7, <1>8, <1>9, <1>10, <1>11, <1>12, OneCallStep

LEMMA CrashStep ==
    ASSUME Inv, Crash
    PROVE  Inv'
<1>1. /\ calls' = [p \in Callers |-> Idle] /\ orphans' = orphans \cup temps
      /\ UNCHANGED <<backend, files, dir, temps, bucket>>
  BY DEF Crash
<1>2. Types'
  BY <1>1, IdleFacts DEF Inv, Types
<1>3. \A p \in Callers : calls'[p] = Idle
  BY <1>1
<1>4. \A p \in Callers : /\ ArgsOK(calls'[p])
                         /\ BackendOK(calls'[p], backend')
                         /\ ProgressOK(calls'[p], files', temps')
  BY <1>3, IdleFacts
<1>5. \A p, q \in Callers : p # q /\ calls'[p].at \in Writing => calls'[q].file # calls'[p].file
  BY <1>3, IdleFacts DEF Writing
<1>6. /\ \A k \in Keys : NameOK(dir'[k], files', temps')
      /\ \A k \in Keys : bucket'[k] # None => IsWhole(bucket'[k])
  BY <1>1 DEF Inv
<1>7. OnlyCrashesLeaveTempFiles'
  BY <1>1 DEF OnlyCrashesLeaveTempFiles
<1>8. QED
  BY <1>2, <1>4, <1>5, <1>6, <1>7 DEF Inv

-----------------------------------------------------------------------------
\* The invariant holds.

LEMMA InvInit == Init => Inv
<1> SUFFICES ASSUME Init PROVE Inv
  OBVIOUS
<1>1. Types
  BY EmptyIsData, IdleFacts DEF Init, Types
<1>2. \A p \in Callers : calls[p] = Idle
  BY DEF Init
<1>3. \A p \in Callers : /\ ArgsOK(calls[p])
                         /\ BackendOK(calls[p], backend)
                         /\ ProgressOK(calls[p], files, temps)
  BY <1>2, IdleFacts
<1>4. \A p, q \in Callers : p # q /\ calls[p].at \in Writing => calls[q].file # calls[p].file
  BY <1>2, IdleFacts DEF Writing
<1>5. /\ \A k \in Keys : NameOK(dir[k], files, temps)
      /\ \A k \in Keys : bucket[k] # None => IsWhole(bucket[k])
  BY DEF Init, NameOK
<1>6. OnlyCrashesLeaveTempFiles
  BY DEF Init, OnlyCrashesLeaveTempFiles
<1>7. QED
  BY <1>1, <1>3, <1>4, <1>5, <1>6 DEF Inv

LEMMA InvStep == Inv /\ [Next]_vars => Inv'
<1> SUFFICES ASSUME Inv, [Next]_vars PROVE Inv'
  OBVIOUS
<1>1. CASE UNCHANGED vars
  <2>1. /\ backend' = backend /\ files' = files /\ dir' = dir /\ temps' = temps
        /\ bucket' = bucket /\ calls' = calls /\ orphans' = orphans
    BY <1>1 DEF vars
  <2>2. Types'
    BY <2>1 DEF Inv, Types
  <2>3. OnlyCrashesLeaveTempFiles'
    BY <2>1 DEF Inv, OnlyCrashesLeaveTempFiles
  <2>4. QED
    BY <2>1, <2>2, <2>3 DEF Inv
<1>2. CASE Crash
  BY <1>2, CrashStep
<1>3. ASSUME NEW p \in Callers, Begin(p) PROVE Inv'
  BY <1>3, BeginStep
<1>4. ASSUME NEW p \in Callers, Return(p) \/ Fail(p) \/ GetClose(p) PROVE Inv'
  BY <1>4, EndStep
<1>5. ASSUME NEW p \in Callers, PutCreate(p) PROVE Inv'
  BY <1>5, CreateStep
<1>6. ASSUME NEW p \in Callers, PutCopy(p) PROVE Inv'
  BY <1>6, CopyStep
<1>7. ASSUME NEW p \in Callers, PutRename(p) PROVE Inv'
  BY <1>7, RenameStep
<1>8. ASSUME NEW p \in Callers, PutFails(p) PROVE Inv'
  BY <1>8, FailStep
<1>9. ASSUME NEW p \in Callers, Delete(p) \/ PutSend(p) PROVE Inv'
  BY <1>9, TakeStep
<1>10. ASSUME NEW p \in Callers, GetStat(p) \/ GetOpen(p) \/ GetFetch(p) PROVE Inv'
  BY <1>10, FindStep
<1>11. ASSUME NEW p \in Callers, GetRead(p) PROVE Inv'
  BY <1>11, ReadStep
<1>12. QED
  BY <1>1, <1>2, <1>3, <1>4, <1>5, <1>6, <1>7, <1>8, <1>9, <1>10, <1>11 DEF Next

LEMMA InvHolds == Spec => []Inv
  BY InvInit, InvStep, PTL DEF Spec

LEMMA InvTypes == Inv => TypeOK
<1> SUFFICES ASSUME Inv PROVE TypeOK
  OBVIOUS
<1>1. \A p \in Callers : calls[p].at \in {"put:copy", "put:rename"} => OwnFile(p)
  BY CallFacts DEF OwnFile, Writing
<1>2. ASSUME NEW p \in Callers, At(p, "get:read")
      PROVE  calls[p].file # None \/ calls[p].object # None
  <2>1. PICK c \in Contents : SourceOf(calls[p], files) = Fill(Chunks, c)
    BY <1>2, CallFacts DEF ProgressOK, At
  <2>2. Fill(Chunks, c) # None
    BY FillFacts, WholeFacts
  <2>3. QED
    BY <2>1, <2>2 DEF SourceOf
<1>3. Types
  BY DEF Inv
<1>4. QED
  BY <1>1, <1>2, <1>3 DEF TypeOK, Types

\* Types; a put works on a file that is its own, a reader has a source.
THEOREM StoreTypes == Spec => []TypeOK
  BY InvHolds, InvTypes, PTL

LEMMA InvWhole == Inv => ReadersSeeWholeObjects
<1> SUFFICES ASSUME Inv, NEW p \in Callers, At(p, "get:read"),
                      Len(calls[p].read) = Len(Source(p))
               PROVE  \E c \in Contents : calls[p].read = Whole(c)
  BY DEF ReadersSeeWholeObjects
<1>1. PICK c \in Contents, n \in 0..Chunks :
          calls[p].read = Fill(n, c) /\ SourceOf(calls[p], files) = Fill(Chunks, c)
  BY CallFacts DEF ProgressOK, At
<1>2. n = Chunks
  BY <1>1, FillFacts, WholeFacts DEF Source, SourceOf
<1>3. QED
  BY <1>1, <1>2, WholeFacts

\* A reader that has come to the end has read one whole object.
THEOREM WholeObjects == Spec => []ReadersSeeWholeObjects
  BY InvHolds, InvWhole, PTL

\* Failed uploads clean up: only a crash leaves a temporary file.
THEOREM TempFiles == Spec => []OnlyCrashesLeaveTempFiles
<1>1. Inv => OnlyCrashesLeaveTempFiles
  BY DEF Inv
<1>2. QED
  BY <1>1, InvHolds, PTL

-----------------------------------------------------------------------------
\* The refinement: every step of a store is a step of ObjectStore, or none.

Stored == [k \in Keys |-> StoredObject(k)]
Seen == [p \in Callers |-> AbstractCall(p)]

LEMMA ObjectFacts ==
    /\ ObjectOf(None) = None
    /\ \A c \in Contents : ObjectOf(Fill(Chunks, c)) = c
<1>1. ASSUME NEW c \in Contents PROVE ObjectOf(Fill(Chunks, c)) = c
  <2>1. Fill(Chunks, c) # None /\ Fill(Chunks, c)[1] = c
    BY FillFacts, WholeFacts, ChunksAssumption
  <2>2. QED
    BY <2>1, WholeFacts DEF ObjectOf
<1>2. QED
  BY <1>1 DEF ObjectOf

LEMMA StoredSame ==
    ASSUME backend' = backend, bucket' = bucket, dir' = dir,
           \A k \in Keys : dir[k] # None => files'[dir[k]] = files[dir[k]]
    PROVE  Stored' = Stored
<1>1. \A k \in Keys : StoredObject(k)' = StoredObject(k)
  BY DEF StoredObject
<1>2. QED
  BY <1>1 DEF Stored

LEMMA ViewSame ==
    ASSUME NEW q \in Callers, calls'[q] = calls[q],
           calls[q].file # None => files'[calls[q].file] = files[calls[q].file]
    PROVE  AbstractCall(q)' = AbstractCall(q)
  BY DEF AbstractCall, At, Source

LEMMA SeenStep ==
    ASSUME NEW p \in Callers, NEW new, NEW view, calls' = [calls EXCEPT ![p] = new],
           calls \in [Callers -> Call],
           \A q \in Callers \ {p} :
               calls[q].file # None => files'[calls[q].file] = files[calls[q].file],
           AbstractCall(p)' = view
    PROVE  Seen' = [Seen EXCEPT ![p] = view]
<1>1. \A q \in Callers \ {p} : AbstractCall(q)' = AbstractCall(q)
  BY ViewSame
<1>2. QED
  BY <1>1 DEF Seen

\* A step of one call: what it means for ObjectStore, by the two views of the call.
LEMMA ViewStep ==
    ASSUME Inv, NEW p \in Callers, NEW new, calls' = [calls EXCEPT ![p] = new],
           \A q \in Callers \ {p} :
               calls[q].file # None => files'[calls[q].file] = files[calls[q].file]
    PROVE  Seen' = [Seen EXCEPT ![p] = AbstractCall(p)']
<1>1. calls \in [Callers -> Call]
  BY CallFacts
<1>2. PICK view : view = AbstractCall(p)'
  OBVIOUS
<1>3. QED
  BY <1>1, <1>2, SeenStep

LEMMA NoStep ==
    ASSUME NEW p \in Callers, Stored' = Stored,
           Seen' = [Seen EXCEPT ![p] = AbstractCall(p)'], AbstractCall(p)' = AbstractCall(p)
    PROVE  UNCHANGED Store!vars
<1>1. Seen' = Seen
  BY DEF Seen
<1>2. QED
  BY <1>1 DEF Store!vars, Stored, Seen

LEMMA BeginAny ==
    ASSUME NEW p \in Callers, Seen[p].phase = "idle",
           \E operation \in {"put", "get", "delete"}, k \in Keys, c \in Contents \cup {None} :
              /\ operation = "put" <=> c # None
              /\ Seen' = [Seen EXCEPT ![p] = [phase |-> "running", operation |-> operation,
                                              key |-> k, content |-> c]],
           Stored' = Stored
    PROVE  Store!Begin(p)
  BY DEF Store!Begin, Store!Operations, Stored, Seen

LEMMA TakeGet ==
    ASSUME NEW p \in Callers, Seen[p].phase = "running", Seen[p].operation = "get",
           Seen' = [Seen EXCEPT ![p].phase = "taken", ![p].content = Stored[Seen[p].key]],
           Stored' = Stored
    PROVE  Store!Take(p)
  BY DEF Store!Take, Stored, Seen

LEMMA TakeChange ==
    ASSUME NEW p \in Callers, Seen[p].phase = "running", Seen[p].operation # "get",
           Seen' = [Seen EXCEPT ![p].phase = "taken"],
           Stored' = [Stored EXCEPT ![Seen[p].key] = Seen[p].content]
    PROVE  Store!Take(p)
  BY DEF Store!Take, Stored, Seen

LEMMA SeenAt == \A p \in Callers : Seen[p] = AbstractCall(p)
  BY DEF Seen

LEMMA AbstractBegin ==
    ASSUME NEW p \in Callers, NEW operation, NEW k \in Keys, NEW c \in Contents \cup {None},
           operation \in {"put", "get", "delete"}, operation = "put" <=> c # None,
           Stored' = Stored, Seen' = [Seen EXCEPT ![p] = AbstractCall(p)'],
           AbstractCall(p).phase = "idle",
           AbstractCall(p)' = [phase |-> "running", operation |-> operation, key |-> k, content |-> c]
    PROVE  Store!Begin(p)
<1>1. Seen' = [Seen EXCEPT ![p] =
                  [phase |-> "running", operation |-> operation, key |-> k, content |-> c]]
  OBVIOUS
<1>2. Seen[p].phase = "idle"
  BY SeenAt
<1>3. QED
  BY <1>1, <1>2, BeginAny, ZenonT(30)

LEMMA AbstractGet ==
    ASSUME NEW p \in Callers, NEW k \in Keys,
           Stored' = Stored, Seen' = [Seen EXCEPT ![p] = AbstractCall(p)'],
           AbstractCall(p) = [phase |-> "running", operation |-> "get", key |-> k, content |-> None],
           AbstractCall(p)' = [phase |-> "taken", operation |-> "get", key |-> k,
                               content |-> Stored[k]]
    PROVE  Store!Take(p)
<1>1. PICK r, d : r = Seen[p] /\ d = Stored[k]
  OBVIOUS
<1>2. r = [phase |-> "running", operation |-> "get", key |-> k, content |-> None]
  BY <1>1, SeenAt
<1>3. PICK t : t = [r EXCEPT !.phase = "taken"]
  OBVIOUS
<1>4. t = [phase |-> "taken", operation |-> "get", key |-> k, content |-> None]
  BY <1>2, <1>3
<1>5. PICK u : u = [t EXCEPT !.content = d]
  OBVIOUS
<1>6. u = [phase |-> "taken", operation |-> "get", key |-> k, content |-> d]
  BY <1>4, <1>5
<1>7. u = [r EXCEPT !.phase = "taken", !.content = d]
  BY <1>3, <1>5
<1>8. Seen' = [Seen EXCEPT ![p] = [r EXCEPT !.phase = "taken", !.content = d]]
  BY <1>1, <1>6, <1>7
<1>9. Seen' = [Seen EXCEPT ![p].phase = "taken", ![p].content = d]
  BY <1>1, <1>8
<1>10. Seen[p].phase = "running" /\ Seen[p].operation = "get" /\ Seen[p].key = k
  BY <1>1, <1>2
<1>11. Seen' = [Seen EXCEPT ![p].phase = "taken", ![p].content = Stored[Seen[p].key]]
  BY <1>1, <1>9, <1>10
<1>12. QED
  BY <1>10, <1>11, TakeGet

LEMMA AbstractChange ==
    ASSUME NEW p \in Callers, NEW k \in Keys, NEW operation, NEW c, operation # "get",
           Stored' = [Stored EXCEPT ![k] = c], Seen' = [Seen EXCEPT ![p] = AbstractCall(p)'],
           AbstractCall(p) = [phase |-> "running", operation |-> operation, key |-> k, content |-> c],
           AbstractCall(p)' = [phase |-> "taken", operation |-> operation, key |-> k, content |-> c]
    PROVE  Store!Take(p)
<1>1. PICK r, t : r = Seen[p] /\ t = [r EXCEPT !.phase = "taken"]
  OBVIOUS
<1>2. r = [phase |-> "running", operation |-> operation, key |-> k, content |-> c]
  BY <1>1, SeenAt
<1>3. t = [phase |-> "taken", operation |-> operation, key |-> k, content |-> c]
  BY <1>1, <1>2
<1>4. Seen' = [Seen EXCEPT ![p] = [r EXCEPT !.phase = "taken"]]
  BY <1>1, <1>3
<1>5. Seen' = [Seen EXCEPT ![p].phase = "taken"]
  BY <1>1, <1>4
<1>6. /\ Seen[p].phase = "running" /\ Seen[p].operation # "get"
      /\ Seen[p].key = k /\ Seen[p].content = c
  BY <1>1, <1>2
<1>7. Stored' = [Stored EXCEPT ![Seen[p].key] = Seen[p].content]
  BY <1>6
<1>8. QED
  BY <1>5, <1>6, <1>7, TakeChange

LEMMA AbstractEnd ==
    ASSUME NEW p \in Callers, Stored' = Stored, Seen' = [Seen EXCEPT ![p] = AbstractCall(p)'],
           AbstractCall(p).phase # "idle", AbstractCall(p)' = Store!Idle
    PROVE  Store!End(p)
<1>1. Seen[p].phase # "idle"
  BY DEF Seen
<1>2. Seen' = [Seen EXCEPT ![p] = Store!Idle]
  OBVIOUS
<1>3. QED
  BY <1>1, <1>2 DEF Store!End, Stored, Seen

ViewOf(call, data) ==
    [phase |-> IF call.at = "idle" THEN "idle"
               ELSE IF call.at \in {"return", "get:read"} THEN "taken" ELSE "running",
     operation |-> call.operation, key |-> call.key,
     content |-> IF call.at = "get:read" THEN ObjectOf(SourceOf(call, data)) ELSE call.content]

LEMMA ViewIs ==
    ASSUME NEW p \in Callers
    PROVE  /\ AbstractCall(p) = ViewOf(calls[p], files)
           /\ AbstractCall(p)' = ViewOf(calls'[p], files')
  BY DEF AbstractCall, ViewOf, At, Source, SourceOf

\* A call under way that is not reading.
LEMMA RunningView ==
    ASSUME NEW call, NEW data, call.at \notin {"idle", "return", "get:read"}
    PROVE  ViewOf(call, data) = [phase |-> "running", operation |-> call.operation,
                                 key |-> call.key, content |-> call.content]
  BY DEF ViewOf

StoreStep == Store!Next \/ UNCHANGED Store!vars

LEMMA BeginRefines ==
    ASSUME Inv, NEW p \in Callers, Begin(p)
    PROVE  StoreStep
<1>1. PICK k \in Keys : \/ \E c \in Contents : BeginPut(p, k, c)
                        \/ BeginGet(p, k) \/ BeginDelete(p, k)
  BY DEF Begin
<1>2. calls \in [Callers -> Call] /\ backend \in {"local", "s3"}
  BY DEF Inv, Types
<1>3. UNCHANGED <<backend, files, dir, temps, bucket, orphans>> /\ calls[p].at = "idle"
  BY <1>1 DEF BeginPut, BeginGet, BeginDelete, At
<1>4. ASSUME NEW new, NEW operation, NEW c \in Contents \cup {None},
             calls' = [calls EXCEPT ![p] = new],
             operation \in {"put", "get", "delete"}, operation = "put" <=> c # None,
             new.at \notin {"idle", "return", "get:read"},
             new.operation = operation, new.key = k, new.content = c
      PROVE  StoreStep
  <2>1. Stored' = Stored
    BY <1>3, StoredSame
  <2>2. Seen' = [Seen EXCEPT ![p] = AbstractCall(p)']
    BY <1>3, <1>4, ViewStep
  <2>3. calls'[p] = new
    BY <1>2, <1>4
  <2>4. AbstractCall(p).phase = "idle"
    BY <1>3, ViewIs DEF ViewOf
  <2>5. AbstractCall(p)' = [phase |-> "running", operation |-> operation, key |-> k, content |-> c]
    BY <1>4, <2>3, ViewIs, RunningView
  <2>6. Store!Begin(p)
    BY <1>4, <2>1, <2>2, <2>4, <2>5, AbstractBegin
  <2>7. QED
    BY <2>6 DEF StoreStep, Store!Next
<1>5. CASE BeginGet(p, k)
  <2>1. PICK new : new = [Idle EXCEPT !.at = IF backend = "local" THEN "get:stat" ELSE "get:fetch",
                                      !.operation = "get", !.key = k]
    OBVIOUS
  <2>2. /\ new.at \notin {"idle", "return", "get:read"}
        /\ new.operation = "get" /\ new.key = k /\ new.content = None
    BY <1>2, <2>1 DEF Idle
  <2>3. calls' = [calls EXCEPT ![p] = new]
    BY <1>5, <2>1 DEF BeginGet
  <2>4. QED
    BY <1>4, <2>2, <2>3
<1>6. CASE BeginDelete(p, k)
  <2>1. PICK new : new = [Idle EXCEPT !.at = "delete", !.operation = "delete", !.key = k]
    OBVIOUS
  <2>2. /\ new.at \notin {"idle", "return", "get:read"}
        /\ new.operation = "delete" /\ new.key = k /\ new.content = None
    BY <2>1 DEF Idle
  <2>3. calls' = [calls EXCEPT ![p] = new]
    BY <1>6, <2>1 DEF BeginDelete
  <2>4. QED
    BY <1>4, <2>2, <2>3
<1>7. ASSUME NEW c \in Contents, BeginPut(p, k, c)
      PROVE  StoreStep
  <2>1. PICK new : new = [Idle EXCEPT !.at = IF backend = "local" THEN "put:create" ELSE "put:send",
                                      !.operation = "put", !.key = k, !.content = c]
    OBVIOUS
  <2>2. /\ new.at \notin {"idle", "return", "get:read"}
        /\ new.operation = "put" /\ new.key = k /\ new.content = c
    BY <1>2, <2>1 DEF Idle
  <2>3. calls' = [calls EXCEPT ![p] = new]
    BY <1>7, <2>1 DEF BeginPut
  <2>4. c # None
    BY NoneFacts
  <2>5. QED
    BY <1>4, <2>2, <2>3, <2>4
<1>8. QED
  BY <1>1, <1>5, <1>6, <1>7

\* A call that ends, whatever became of it.
LEMMA EndRefines ==
    ASSUME Inv, NEW p \in Callers, Return(p) \/ Fail(p) \/ GetClose(p) \/ PutFails(p)
    PROVE  StoreStep
<1>1. /\ calls' = [calls EXCEPT ![p] = Idle] /\ calls[p].at # "idle"
      /\ UNCHANGED <<backend, files, dir, bucket, orphans>>
  BY DEF Return, Fail, GetClose, PutFails, Finish, At, GetSteps
<1>2. calls \in [Callers -> Call]
  BY DEF Inv, Types
<1>3. Stored' = Stored
  BY <1>1, StoredSame
<1>4. PICK new : new = Idle
  OBVIOUS
<1>5. calls' = [calls EXCEPT ![p] = new] /\ calls'[p] = Idle
  BY <1>1, <1>2, <1>4
<1>6. Seen' = [Seen EXCEPT ![p] = AbstractCall(p)']
  BY <1>1, <1>5, ViewStep
<1>7. AbstractCall(p).phase # "idle"
  BY <1>1, ViewIs DEF ViewOf
<1>8. AbstractCall(p)' = Store!Idle
  BY <1>5, ViewIs DEF ViewOf, Idle, Store!Idle
<1>9. Store!End(p)
  BY <1>3, <1>6, <1>7, <1>8, AbstractEnd
<1>10. QED
  BY <1>9 DEF StoreStep, Store!Next

\* The steps of a put before its rename, and of a reader, change nothing in view.
LEMMA WorkRefines ==
    ASSUME Inv, NEW p \in Callers, PutCreate(p) \/ PutCopy(p) \/ GetRead(p)
    PROVE  StoreStep
<1>1. /\ calls \in [Callers -> Call] /\ calls[p] \in Call
      /\ files \in [FileIds -> Data] /\ dir \in [Keys -> FileIds \cup {None}]
  BY DEF Inv, Types
<1>2. UNCHANGED <<backend, dir, bucket, orphans>>
  BY DEF PutCreate, PutCopy, GetRead
<1>3. /\ \A k \in Keys : dir[k] # None => files'[dir[k]] = files[dir[k]]
      /\ \A q \in Callers \ {p} :
             calls[q].file # None => files'[calls[q].file] = files[calls[q].file]
  <2>1. CASE PutCreate(p)
    BY <1>1, <2>1 DEF PutCreate, InUse, Call
  <2>2. CASE PutCopy(p)
    <3>1. calls[p].file \in temps /\ \A q \in Callers \ {p} : calls[q].file # calls[p].file
      BY <2>2, CallFacts DEF PutCopy, At, Writing
    <3>2. \A k \in Keys : dir[k] # None => dir[k] # calls[p].file
      BY <3>1 DEF Inv, NameOK
    <3>3. \A f \in FileIds \ {calls[p].file} : files'[f] = files[f]
      BY <1>1, <2>2 DEF PutCopy
    <3>4. QED
      BY <1>1, <3>1, <3>2, <3>3 DEF Call
  <2>3. CASE GetRead(p)
    BY <2>3 DEF GetRead
  <2>4. QED
    BY <2>1, <2>2, <2>3
<1>4. Stored' = Stored
  BY <1>2, <1>3, StoredSame
<1>5. /\ calls' \in [Callers -> Call]
      /\ \A q \in Callers \ {p} : calls'[q] = calls[q]
  <2>1. Inv'
    BY CreateStep, CopyStep, ReadStep
  <2>2. calls' \in [Callers -> Call]
    BY <2>1 DEF Inv, Types
  <2>3. \A q \in Callers \ {p} : calls'[q] = calls[q]
    BY <1>1 DEF PutCreate, PutCopy, GetRead, Advance
  <2>4. QED
    BY <2>2, <2>3
<1>6. ViewOf(calls'[p], files') = ViewOf(calls[p], files)
  <2>1. CASE PutCreate(p)
    <3>1. PICK f \in FileIds :
              calls' = [calls EXCEPT ![p].at = "put:copy", ![p].file = f]
      BY <2>1 DEF PutCreate
    <3>2. PICK new : new = [calls[p] EXCEPT !.at = "put:copy", !.file = f]
      OBVIOUS
    <3>3. calls'[p] = new
      BY <1>1, <3>1, <3>2
    <3>4. /\ new.at = "put:copy" /\ new.operation = calls[p].operation
          /\ new.key = calls[p].key /\ new.content = calls[p].content
      BY <1>1, <3>2 DEF Call
    <3>5. calls[p].at = "put:create"
      BY <2>1 DEF PutCreate, At
    <3>6. QED
      BY <3>3, <3>4, <3>5, RunningView
  <2>2. CASE PutCopy(p)
    <3>1. /\ calls'[p].at \in Writing /\ calls'[p].operation = calls[p].operation
          /\ calls'[p].key = calls[p].key /\ calls'[p].content = calls[p].content
          /\ calls[p].at = "put:copy"
      BY <1>1, <2>2 DEF PutCopy, Advance, Call, At, Writing
    <3>2. QED
      BY <3>1, RunningView DEF Writing
  <2>3. CASE GetRead(p)
    <3>1. /\ calls'[p].at = calls[p].at /\ calls'[p].operation = calls[p].operation
          /\ calls'[p].key = calls[p].key /\ calls'[p].content = calls[p].content
          /\ calls'[p].file = calls[p].file /\ calls'[p].object = calls[p].object
          /\ files' = files
      BY <1>1, <2>3 DEF GetRead, Call
    <3>2. QED
      BY <3>1 DEF ViewOf, SourceOf
  <2>4. QED
    BY <2>1, <2>2, <2>3
<1>7. \A q \in Callers : AbstractCall(q)' = AbstractCall(q)
  BY <1>3, <1>5, <1>6, ViewIs, ViewSame
<1>8. Seen' = Seen
  BY <1>7 DEF Seen
<1>9. QED
  BY <1>4, <1>8 DEF StoreStep, Store!vars, Stored, Seen

\* A get takes its answer when it opens the file, has the response, or finds nothing.
LEMMA FindRefines ==
    ASSUME Inv, NEW p \in Callers, GetStat(p) \/ GetOpen(p) \/ GetFetch(p)
    PROVE  StoreStep
<1>1. /\ calls \in [Callers -> Call] /\ calls[p] \in Call /\ ArgsOK(calls[p])
      /\ BackendOK(calls[p], backend)
  BY CallFacts
<1>2. /\ UNCHANGED <<backend, files, dir, temps, bucket, orphans>>
      /\ calls[p].at \in {"get:stat", "get:open", "get:fetch"}
  BY DEF GetStat, GetOpen, GetFetch, At
<1>3. PICK k \in Keys : k = calls[p].key
  BY <1>1, <1>2 DEF ArgsOK
<1>4. /\ calls[p].file = None /\ calls[p].object = None
      /\ calls[p].operation = "get" /\ calls[p].content = None
  BY <1>1, <1>2 DEF ArgsOK, Writing, GetSteps
<1>5. Stored' = Stored
  BY <1>2, StoredSame
<1>6. AbstractCall(p) = [phase |-> "running", operation |-> "get", key |-> k, content |-> None]
  BY <1>2, <1>3, <1>4, ViewIs, RunningView
<1>7. ASSUME NEW new, calls' = [calls EXCEPT ![p] = new],
             new.operation = "get", new.key = k,
             \/ new.at = "get:open" /\ new.content = None
             \/ new.at = "return" /\ new.content = StoredObject(k)
             \/ new.at = "get:read" /\ ObjectOf(SourceOf(new, files)) = StoredObject(k)
      PROVE  StoreStep
  <2>1. calls'[p] = new
    BY <1>1, <1>7
  <2>2. Seen' = [Seen EXCEPT ![p] = AbstractCall(p)']
    BY <1>2, <1>7, ViewStep
  <2>3. CASE new.at = "get:open" /\ new.content = None
    <3>1. AbstractCall(p)' = [phase |-> "running", operation |-> "get", key |-> k, content |-> None]
      BY <1>7, <2>1, <2>3, ViewIs, RunningView
    <3>2. QED
      BY <1>5, <1>6, <2>2, <3>1, NoStep DEF StoreStep
  <2>4. CASE new.at \in {"return", "get:read"}
    <3>1. Stored[k] = StoredObject(k)
      BY DEF Stored
    <3>2. AbstractCall(p)' = ViewOf(new, files)
      BY <1>2, <2>1, ViewIs
    <3>3. ViewOf(new, files) = [phase |-> "taken", operation |-> "get", key |-> k,
                                content |-> Stored[k]]
      BY <1>7, <2>4, <3>1 DEF ViewOf
    <3>4. Store!Take(p)
      BY <1>5, <1>6, <2>2, <3>2, <3>3, AbstractGet
    <3>5. QED
      BY <3>4 DEF StoreStep, Store!Next
  <2>5. QED
    BY <1>7, <2>3, <2>4
<1>8. CASE GetStat(p)
  <2>1. PICK new : new = [calls[p] EXCEPT !.at = IF dir[k] = None THEN "return" ELSE "get:open"]
    OBVIOUS
  <2>2. calls' = [calls EXCEPT ![p] = new]
    BY <1>1, <1>3, <1>8, <2>1 DEF GetStat, Advance
  <2>3. /\ new.operation = "get" /\ new.key = k /\ new.content = None
        /\ new.at = IF dir[k] = None THEN "return" ELSE "get:open"
    BY <1>1, <1>3, <1>4, <2>1 DEF Call
  <2>4. dir[k] = None => StoredObject(k) = None
    BY <1>1, <1>8, ObjectFacts DEF StoredObject, GetStat, At, BackendOK
  <2>5. QED
    BY <1>7, <2>2, <2>3, <2>4
<1>9. CASE GetOpen(p)
  <2>1. PICK new : new = [calls[p] EXCEPT !.at = IF dir[k] = None THEN "return" ELSE "get:read",
                                          !.file = dir[k]]
    OBVIOUS
  <2>2. calls' = [calls EXCEPT ![p] = new]
    BY <1>1, <1>3, <1>9, <2>1 DEF GetOpen
  <2>3. /\ new.operation = "get" /\ new.key = k /\ new.content = None /\ new.file = dir[k]
        /\ new.at = IF dir[k] = None THEN "return" ELSE "get:read"
    BY <1>1, <1>3, <1>4, <2>1 DEF Call
  <2>4. backend = "local"
    BY <1>1, <1>9 DEF GetOpen, At, BackendOK
  <2>5. dir[k] = None => StoredObject(k) = None
    BY <2>4, ObjectFacts DEF StoredObject
  <2>6. dir[k] # None => ObjectOf(SourceOf(new, files)) = StoredObject(k)
    BY <2>3, <2>4 DEF StoredObject, SourceOf
  <2>7. QED
    BY <1>7, <2>2, <2>3, <2>5, <2>6
<1>10. CASE GetFetch(p)
  <2>1. PICK new : new = [calls[p] EXCEPT !.at = IF bucket[k] = None THEN "return" ELSE "get:read",
                                          !.object = bucket[k]]
    OBVIOUS
  <2>2. calls' = [calls EXCEPT ![p] = new]
    BY <1>1, <1>3, <1>10, <2>1 DEF GetFetch
  <2>3. /\ new.operation = "get" /\ new.key = k /\ new.content = None
        /\ new.file = None /\ new.object = bucket[k]
        /\ new.at = IF bucket[k] = None THEN "return" ELSE "get:read"
    BY <1>1, <1>3, <1>4, <2>1 DEF Call
  <2>4. backend = "s3"
    BY <1>1, <1>10 DEF GetFetch, At, BackendOK
  <2>5. bucket[k] = None => StoredObject(k) = None
    BY <2>4, ObjectFacts DEF StoredObject
  <2>6. ObjectOf(SourceOf(new, files)) = StoredObject(k)
    BY <2>3, <2>4 DEF StoredObject, SourceOf
  <2>7. QED
    BY <1>7, <2>2, <2>3, <2>5, <2>6
<1>11. QED
  BY <1>8, <1>9, <1>10

\* A put takes effect with its rename or its request, a delete at once.
LEMMA ChangeRefines ==
    ASSUME Inv, NEW p \in Callers, PutRename(p) \/ PutSend(p) \/ Delete(p)
    PROVE  StoreStep
<1>1. /\ calls \in [Callers -> Call] /\ calls[p] \in Call /\ ArgsOK(calls[p])
      /\ BackendOK(calls[p], backend) /\ ProgressOK(calls[p], files, temps)
  BY CallFacts
<1>2. /\ UNCHANGED <<backend, files>>
      /\ calls[p].at \in {"put:rename", "put:send", "delete"}
  BY DEF PutRename, PutSend, Delete, At
<1>3. PICK k \in Keys : k = calls[p].key
  BY <1>1, <1>2 DEF ArgsOK
<1>4. PICK c, operation : c = calls[p].content /\ operation = calls[p].operation
  OBVIOUS
<1>5. operation # "get"
  BY <1>1, <1>2, <1>4 DEF ArgsOK, PutSteps, DeleteSteps
<1>6. /\ dir \in [Keys -> FileIds \cup {None}] /\ bucket \in [Keys -> Data \cup {None}]
      /\ backend \in {"local", "s3"}
  BY DEF Inv, Types
<1>7. PICK new : /\ calls' = [calls EXCEPT ![p] = new]
                 /\ new.at = "return" /\ new.operation = operation
                 /\ new.key = k /\ new.content = c
  <2>1. CASE PutRename(p)
    <3>1. PICK new : new = [calls[p] EXCEPT !.at = "return", !.file = None]
      OBVIOUS
    <3>2. calls' = [calls EXCEPT ![p] = new]
      BY <1>1, <2>1, <3>1 DEF PutRename
    <3>3. /\ new.at = "return" /\ new.operation = operation /\ new.key = k /\ new.content = c
      BY <1>1, <1>3, <1>4, <3>1 DEF Call
    <3>4. QED
      BY <3>2, <3>3
  <2>2. CASE PutSend(p) \/ Delete(p)
    <3>1. PICK new : new = [calls[p] EXCEPT !.at = "return"]
      OBVIOUS
    <3>2. calls' = [calls EXCEPT ![p] = new]
      BY <1>1, <2>2, <3>1 DEF PutSend, Delete, Advance
    <3>3. /\ new.at = "return" /\ new.operation = operation /\ new.key = k /\ new.content = c
      BY <1>1, <1>3, <1>4, <3>1 DEF Call
    <3>4. QED
      BY <3>2, <3>3
  <2>3. QED
    BY <2>1, <2>2
<1>8. Seen' = [Seen EXCEPT ![p] = AbstractCall(p)']
  BY <1>2, <1>7, ViewStep
<1>9. AbstractCall(p) = [phase |-> "running", operation |-> operation, key |-> k, content |-> c]
  BY <1>2, <1>3, <1>4, ViewIs, RunningView
<1>10. AbstractCall(p)' = [phase |-> "taken", operation |-> operation, key |-> k, content |-> c]
  <2>1. calls'[p] = new
    BY <1>1, <1>7
  <2>2. ViewOf(new, files') = [phase |-> "taken", operation |-> operation, key |-> k, content |-> c]
    BY <1>7 DEF ViewOf
  <2>3. QED
    BY <2>1, <2>2, ViewIs
<1>11. /\ StoredObject(k)' = c
       /\ \A h \in Keys \ {k} : StoredObject(h)' = StoredObject(h)
  <2>1. CASE PutRename(p)
    <3>1. calls[p].at = "put:rename" /\ backend = "local"
      BY <1>1, <2>1 DEF PutRename, At, BackendOK, Writing
    <3>2. PICK f : f = calls[p].file
      OBVIOUS
    <3>3. c \in Contents /\ files[f] = Fill(Chunks, c)
      BY <1>1, <1>4, <3>1, <3>2, NoneFacts DEF ArgsOK, ProgressOK, PutSteps
    <3>4. f # None
      BY <3>1, <3>2, CallFacts, NoneFacts DEF Writing
    <3>5. dir' = [dir EXCEPT ![k] = f]
      BY <1>3, <2>1, <3>2 DEF PutRename
    <3>6. dir'[k] = f /\ \A h \in Keys \ {k} : dir'[h] = dir[h]
      BY <1>6, <3>5
    <3>7. QED
      BY <1>2, <3>1, <3>3, <3>4, <3>6, ObjectFacts DEF StoredObject
  <2>2. CASE PutSend(p)
    <3>1. calls[p].at = "put:send" /\ backend = "s3"
      BY <1>1, <2>2 DEF PutSend, At, BackendOK
    <3>2. c \in Contents
      BY <1>1, <1>4, <3>1, NoneFacts DEF ArgsOK, PutSteps
    <3>3. bucket' = [bucket EXCEPT ![k] = Fill(Chunks, c)]
      BY <1>3, <1>4, <2>2, WholeFacts DEF PutSend
    <3>4. bucket'[k] = Fill(Chunks, c) /\ \A h \in Keys \ {k} : bucket'[h] = bucket[h]
      BY <1>6, <3>3
    <3>5. QED
      BY <1>2, <3>1, <3>2, <3>4, ObjectFacts DEF StoredObject
  <2>3. CASE Delete(p)
    <3>1. c = None
      BY <1>1, <1>4, <2>3 DEF Delete, At, ArgsOK, DeleteSteps
    <3>2. CASE backend = "local"
      <4>1. dir' = [dir EXCEPT ![k] = None]
        BY <1>3, <2>3, <3>2 DEF Delete
      <4>2. dir'[k] = None /\ \A h \in Keys \ {k} : dir'[h] = dir[h]
        BY <1>6, <4>1
      <4>3. QED
        BY <1>2, <3>1, <3>2, <4>2, ObjectFacts DEF StoredObject
    <3>3. CASE backend = "s3"
      <4>1. bucket' = [bucket EXCEPT ![k] = None]
        BY <1>3, <2>3, <3>3 DEF Delete
      <4>2. bucket'[k] = None /\ \A h \in Keys \ {k} : bucket'[h] = bucket[h]
        BY <1>6, <4>1
      <4>3. QED
        BY <1>2, <3>1, <3>3, <4>2, ObjectFacts DEF StoredObject
    <3>4. QED
      BY <1>6, <3>2, <3>3
  <2>4. QED
    BY <2>1, <2>2, <2>3
<1>12. Stored' = [Stored EXCEPT ![k] = c]
  <2>1. Stored' = [h \in Keys |-> StoredObject(h)']
    BY DEF Stored
  <2>2. Stored' = [h \in Keys |-> IF h = k THEN c ELSE StoredObject(h)]
    BY <1>11, <2>1
  <2>3. QED
    BY <2>2 DEF Stored
<1>13. Store!Take(p)
  BY <1>5, <1>8, <1>9, <1>10, <1>12, AbstractChange
<1>14. QED
  BY <1>13 DEF StoreStep, Store!Next

LEMMA CrashRefines ==
    ASSUME Inv, Crash
    PROVE  StoreStep
<1>1. /\ calls' = [p \in Callers |-> Idle]
      /\ UNCHANGED <<backend, files, dir, temps, bucket>>
  BY DEF Crash
<1>2. Stored' = Stored
  BY <1>1, StoredSame
<1>3. \A p \in Callers : AbstractCall(p)' = Store!Idle
  BY <1>1, ViewIs DEF ViewOf, Idle, Store!Idle
<1>4. Seen' = [p \in Callers |-> Store!Idle]
  BY <1>3 DEF Seen
<1>5. Store!Crash
  BY <1>2, <1>4 DEF Store!Crash, Stored, Seen
<1>6. QED
  BY <1>5 DEF StoreStep, Store!Next

LEMMA InitRefines == Init => Store!Init
<1> SUFFICES ASSUME Init PROVE Store!Init
  OBVIOUS
<1>1. Stored = [k \in Keys |-> None]
  BY ObjectFacts DEF Init, Stored, StoredObject
<1>2. Seen = [p \in Callers |-> Store!Idle]
  <2>1. \A p \in Callers : AbstractCall(p) = Store!Idle
    BY ViewIs DEF Init, ViewOf, Idle, Store!Idle
  <2>2. QED
    BY <2>1 DEF Seen
<1>3. QED
  BY <1>1, <1>2 DEF Store!Init, Stored, Seen

LEMMA StepRefines == Inv /\ [Next]_vars => [Store!Next]_(Store!vars)
<1> SUFFICES ASSUME Inv, [Next]_vars PROVE StoreStep
  BY DEF StoreStep
<1>1. CASE UNCHANGED vars
  <2>1. /\ backend' = backend /\ files' = files /\ dir' = dir
        /\ bucket' = bucket /\ calls' = calls
    BY <1>1 DEF vars
  <2>2. Stored' = Stored
    BY <2>1, StoredSame
  <2>3. \A p \in Callers : AbstractCall(p)' = AbstractCall(p)
    BY <2>1, ViewSame
  <2>4. Seen' = Seen
    BY <2>3 DEF Seen
  <2>5. QED
    BY <2>2, <2>4 DEF StoreStep, Store!vars, Stored, Seen
<1>2. CASE Crash
  BY <1>2, CrashRefines
<1>3. ASSUME NEW p \in Callers, Begin(p) PROVE StoreStep
  BY <1>3, BeginRefines
<1>4. ASSUME NEW p \in Callers, Return(p) \/ Fail(p) \/ GetClose(p) \/ PutFails(p)
      PROVE  StoreStep
  BY <1>4, EndRefines
<1>5. ASSUME NEW p \in Callers, PutCreate(p) \/ PutCopy(p) \/ GetRead(p) PROVE StoreStep
  BY <1>5, WorkRefines
<1>6. ASSUME NEW p \in Callers, PutRename(p) \/ PutSend(p) \/ Delete(p) PROVE StoreStep
  BY <1>6, ChangeRefines
<1>7. ASSUME NEW p \in Callers, GetStat(p) \/ GetOpen(p) \/ GetFetch(p) PROVE StoreStep
  BY <1>7, FindRefines
<1>8. QED
  BY <1>1, <1>2, <1>3, <1>4, <1>5, <1>6, <1>7 DEF Next

\* Both stores implement ObjectStore: a put takes effect at once or not at all, a get
\* answers with the object of one moment, whatever overlaps, fails or crashes.
THEOREM StoresImplement == Spec => ImplementsObjectStore
<1>1. Init => Store!Init
  BY InitRefines
<1>2. Inv /\ [Next]_vars => [Store!Next]_(Store!vars)
  BY StepRefines
<1>3. Spec => []Inv
  BY InvHolds
<1>4. QED
  BY <1>1, <1>2, <1>3, PTL DEF Spec, ImplementsObjectStore, Store!Spec

=============================================================================
