------------------------------- MODULE FileRun -------------------------------
(***************************************************************************)
(* The C interface of shared/src/shared.cpp around the two functions run   *)
(* of core/src/core.cpp.  A call on a path checks its arguments, makes the *)
(* path absolute, asks whether it exists, asks its size, maps it, compares *)
(* the sizes, and from there does what a call on memory does: it parses    *)
(* the bytes, reads them again block by block and copies the vector out.   *)
(*                                                                         *)
(* Other processes meanwhile remove or replace the file, or write to it in *)
(* place; the file system is external and takes one step at a time.  The   *)
(* extraction itself is FeatureExtractor; here its vector is a record of   *)
(* the size and of the two versions of the content that went into it.      *)
(* Sizes stand for pages: a mapping is cut short by whole ones.            *)
(***************************************************************************)
EXTENDS Integers, FiniteSets

CONSTANTS Inodes,            \* the files there can be
          Versions,          \* their contents, told apart by version
          MaxSize,           \* bound: size of a file
          Buffer,            \* the caller's memory: [size, version]
          Dim,               \* getDim()
          MaxNumFeatures,    \* bound: numFeatures a caller passes, from -1
          SizeRange,         \* size_t is arithmetic modulo SizeRange
          MaxChanges,        \* bound: changes by others during a call
          ABSENT, DIR,       \* a path to nothing, to a directory
          DENIED,            \* a path through a directory that may not be searched
          PRIVATE,           \* a path to a file that may not be opened
          UNRESOLVED,        \* a path that is empty, or relative to a directory that is gone
          NULL

ASSUME ConstantsAssumption ==
    /\ MaxSize \in Nat \ {0} /\ Dim \in Nat /\ MaxNumFeatures \in Nat /\ MaxChanges \in Nat
    /\ SizeRange \in Nat /\ SizeRange > MaxNumFeatures + 1 /\ SizeRange > Dim + 1
    /\ Buffer \in [size: 0..MaxSize, version: Versions] /\ SizeRange > MaxSize + 1
    /\ Cardinality({ABSENT, DIR, DENIED, PRIVATE, UNRESOLVED, NULL}) = 6
    /\ {ABSENT, DIR, DENIED, PRIVATE, UNRESOLVED, NULL} \cap (Inodes \cup Nat) = {}

VARIABLES path,              \* what the path leads to: an inode, or one of Nowhere
          inode,             \* inode -> [size, version]
          handle,            \* the engine, or NULL
          pc,                \* the next step of the call
          args,              \* the arguments of the call
          statSize, mapped, fileSize,   \* fileSizeFromSystem, mmap, the size run is given
          errorCode,         \* "none", or the std::error_code
          parsed,            \* the version PEFile was built from
          output,            \* the vector run returned, or NULL
          features,          \* the caller's array: a vector, or NULL for what it held before
          numFeatures,       \* the caller's integer, NULL before it was written
          result,            \* of the last call
          seen,              \* history: what the path led to during the call
          touched,           \* history: written to in place since it was mapped
          changes

fs == <<path, inode>>
call == <<args, statSize, mapped, fileSize, errorCode, parsed, output>>
caller == <<features, numFeatures>>
history == <<seen, touched, changes>>
vars == <<fs, handle, pc, call, caller, result, history>>

Files == [size: 0..MaxSize, version: Versions]
Vectors == [size: 0..MaxSize, headers: Versions, bytes: Versions]
Nowhere == {ABSENT, DIR, DENIED, PRIVATE, UNRESOLVED}

\* A call on a path, or on the caller's memory of which dataSize counts bytes.
Calls == [entry: {"path"}, source: BOOLEAN, dataSize: {0}, features: BOOLEAN,
          numFeatures: -1..MaxNumFeatures]
         \cup [entry: {"memory"}, source: BOOLEAN, dataSize: -1..Buffer.size,
               features: BOOLEAN, numFeatures: -1..MaxNumFeatures]

\* What the path leads to: one of Nowhere, or the size of a regular file.
At(p, i) == IF p \in Inodes THEN i[p].size ELSE p

Init ==
    /\ path \in Inodes \cup Nowhere
    /\ inode \in [Inodes -> Files]
    /\ handle = NULL /\ pc = "idle"
    /\ args = [entry |-> "path", source |-> FALSE, dataSize |-> 0, features |-> FALSE,
               numFeatures |-> 0]
    /\ statSize = 0 /\ mapped = NULL /\ fileSize = 0 /\ errorCode = "none"
    /\ parsed = NULL /\ output = NULL
    /\ features = NULL /\ numFeatures = NULL /\ result = "none"
    /\ seen = {} /\ touched = FALSE /\ changes = 0

-----------------------------------------------------------------------------
(* Others: they replace what the path leads to, or write to a file in place *)

\* Between calls they would only make another file system to begin with, and a call on
\* memory does not look at it.  A path that cannot be made absolute stays one, and one
\* that was made absolute leads to something or to nothing.
Change ==
    /\ pc \notin {"idle", "killed"} /\ args.entry = "path" /\ changes < MaxChanges
    /\ \/ /\ path' \in Inodes \cup Nowhere
          /\ IF pc \in {"check", "absolute"} THEN path = UNRESOLVED => path' = UNRESOLVED
                                             ELSE path' # UNRESOLVED
          /\ UNCHANGED <<inode, touched>>
       \/ \E i \in Inodes, f \in Files :
             /\ inode' = [inode EXCEPT ![i] = f]
             /\ touched' = (touched \/ i = mapped)
             /\ UNCHANGED path
    /\ seen' = seen \cup {At(path', inode')} /\ changes' = changes + 1
    /\ UNCHANGED <<handle, pc, call, caller, result>>

-----------------------------------------------------------------------------
(* The life of an engine *)

\* There may be no memory for an engine; the caller then has a null pointer, or an
\* exception of the constructor, which new(std::nothrow) lets through.
EFE_Init ==
    /\ pc = "idle" /\ handle = NULL
    /\ handle' \in {"engine", NULL}
    /\ UNCHANGED <<fs, pc, call, caller, result, history>>

EFE_Cleanup ==
    /\ pc = "idle"
    /\ handle' = NULL
    /\ UNCHANGED <<fs, pc, call, caller, result, history>>

\* Without an engine the caller's integer is left alone.
EFE_GetNumFeatures ==
    /\ pc = "idle"
    /\ numFeatures' = IF handle = NULL THEN numFeatures ELSE Dim
    /\ UNCHANGED <<fs, handle, pc, call, features, result, history>>

-----------------------------------------------------------------------------
(* A call of EFE_ExtractFeatures32, EFE_ExtractFeatures32FromFileA or W *)

Call(a) ==
    /\ pc = "idle"
    /\ pc' = "check" /\ args' = a
    /\ statSize' = 0 /\ errorCode' = "none" /\ features' = NULL /\ result' = "none"
    /\ seen' = {At(path, inode)} /\ touched' = FALSE /\ changes' = 0
    /\ UNCHANGED <<fs, handle, numFeatures, mapped, fileSize, parsed, output>>

\* Mutant: a call that ends early leaves the file mapped.
EndStillMapped(r) ==
    /\ pc' = "idle" /\ result' = r
    /\ fileSize' = 0 /\ parsed' = NULL /\ output' = NULL
    /\ UNCHANGED <<fs, handle, args, statSize, mapped, numFeatures, history>>

\* The end of a call and of its local variables; the destructor of mmap unmaps the file.
End(r) ==
    /\ pc' = "idle" /\ result' = r /\ mapped' = NULL
    /\ fileSize' = 0 /\ parsed' = NULL /\ output' = NULL
    /\ UNCHANGED <<fs, handle, args, statSize, numFeatures, history>>

Goto(from, to) == pc = from /\ pc' = to

\* static_cast<size_t>: a negative number becomes a large one.
ToSize(n) == n % SizeRange

\* Mutant: the length of the caller's array is not looked at.
ArgumentsOfAnyLength == handle # NULL /\ args.source /\ args.features

Arguments == /\ args.source
             /\ handle # NULL /\ args.features
             /\ ToSize(args.numFeatures) >= Dim

\* Memory goes to run as it is, a path to the run that maps it.
Check ==
    \/ /\ Arguments /\ args.entry = "path" /\ Goto("check", "absolute")
       /\ UNCHANGED <<fs, handle, call, caller, result, history>>
    \/ /\ Arguments /\ args.entry = "memory" /\ Goto("check", "parse")
       /\ fileSize' = ToSize(args.dataSize)
       /\ UNCHANGED <<fs, handle, args, statSize, mapped, errorCode, parsed, output,
                      caller, result, history>>
    \/ /\ ~Arguments /\ pc = "check"
       /\ End("failure") /\ UNCHANGED <<errorCode, features>>

\* run returns nullptr with the error set; the caller then returns EXIT_FAILURE.
Fail(error) ==
    /\ errorCode' = error
    /\ End("failure") /\ UNCHANGED features

\* An exception leaves run and the extern "C" function.
Throw(exception) == End(exception) /\ UNCHANGED <<errorCode, features>>

\* absolute without an error_code throws where it has nothing to resolve the path with.
Absolute ==
    \/ pc = "absolute" /\ path = UNRESOLVED /\ Throw("filesystem_error")
    \/ /\ Goto("absolute", "exists") /\ path # UNRESOLVED
       /\ UNCHANGED <<fs, handle, call, caller, result, history>>

\* exists without an error_code throws where it cannot tell.
Exists ==
    \/ pc = "exists" /\ path = ABSENT /\ Fail("no_such_file_or_directory")
    \/ pc = "exists" /\ path = DENIED /\ Throw("filesystem_error")
    \/ /\ path \notin {ABSENT, DENIED} /\ Goto("exists", "size")
       /\ UNCHANGED <<fs, handle, call, caller, result, history>>

SizeFromSystem == IF path \in Inodes THEN inode[path].size ELSE MaxSize

\* Mutant: a directory is reported like a path that does not exist.
FileSizeNoThrow ==
    \/ pc = "size" /\ path \in {ABSENT, DIR, DENIED} /\ Fail("no_such_file_or_directory")
    \/ /\ pc = "size" /\ path \notin {ABSENT, DIR, DENIED} /\ SizeFromSystem = 0
       /\ Fail("no_message")
    \/ /\ Goto("size", "map") /\ path \notin {ABSENT, DIR, DENIED} /\ SizeFromSystem # 0
       /\ statSize' = SizeFromSystem
       /\ UNCHANGED <<fs, handle, args, mapped, fileSize, errorCode, parsed, output,
                      caller, result, history>>

\* file_size without an error_code throws unless there is a regular file.
FileSize ==
    \/ pc = "size" /\ path \in {ABSENT, DIR, DENIED} /\ Throw("filesystem_error")
    \/ /\ pc = "size" /\ path \notin {ABSENT, DIR, DENIED} /\ SizeFromSystem = 0
       /\ Fail("no_message")
    \/ /\ Goto("size", "map") /\ path \notin {ABSENT, DIR, DENIED} /\ SizeFromSystem # 0
       /\ statSize' = SizeFromSystem
       /\ UNCHANGED <<fs, handle, args, mapped, fileSize, errorCode, parsed, output,
                      caller, result, history>>

\* mio opens the path, takes the size of what it opened and maps it.
Mappable == path \in Inodes /\ inode[path].size # 0

\* errc::message_size otherwise.
SizesAgree == statSize = inode[path].size

Map ==
    \/ pc = "map" /\ ~Mappable /\ Fail("system")
    \/ pc = "map" /\ Mappable /\ ~SizesAgree /\ Fail("message_size")
    \/ /\ Goto("map", "parse") /\ Mappable /\ SizesAgree
       /\ mapped' = path /\ fileSize' = inode[path].size
       /\ touched' = FALSE
       /\ UNCHANGED <<fs, handle, args, statSize, errorCode, parsed, output,
                      caller, result, seen, changes>>

\* What run(fileContent, fileSize) reads.
Content == IF args.entry = "memory" THEN Buffer ELSE inode[mapped]

\* Its size is more than there is: the mapping is of a file cut short since, or the
\* caller's size was negative.  To touch what is missing kills the process.
Overrun == Content.size < fileSize

Kill ==
    /\ pc \in {"parse", "read"} /\ Overrun
    /\ pc' = "killed" /\ result' = "signal"
    /\ UNCHANGED <<fs, handle, call, caller, history>>

\* PEFile reads the content, as far as the parser goes ...
Parse ==
    \/ /\ Goto("parse", "read")
       /\ parsed' = Content.version
       /\ UNCHANGED <<fs, handle, args, statSize, mapped, fileSize, errorCode, output,
                      caller, result, history>>
    \/ pc = "parse" /\ Throw("bad_alloc")

\* Mutant: the file is opened again for its blocks.
ReadAgainFromPath ==
    \/ /\ Goto("read", "copy") /\ path \in Inodes /\ inode[path].size = fileSize
       /\ output' = [size |-> fileSize, headers |-> parsed, bytes |-> inode[path].version]
       /\ UNCHANGED <<fs, handle, args, statSize, mapped, fileSize, errorCode, parsed,
                      caller, result, history>>
    \/ pc = "read" /\ Throw("bad_alloc")

\* ... and the block stream reads all of it once more.
Read ==
    \/ /\ Goto("read", "copy") /\ ~Overrun
       /\ output' = [size |-> fileSize, headers |-> parsed, bytes |-> Content.version]
       /\ UNCHANGED <<fs, handle, args, statSize, mapped, fileSize, errorCode, parsed,
                      caller, result, history>>
    \/ pc = "read" /\ Throw("bad_alloc")

Copy ==
    /\ pc = "copy"
    /\ features' = output
    /\ End("success") /\ UNCHANGED errorCode

Killed == pc = "killed" /\ UNCHANGED vars

Next ==
    \/ Change
    \/ EFE_Init \/ EFE_Cleanup \/ EFE_GetNumFeatures
    \/ \E a \in Calls : Call(a)
    \/ Check \/ Absolute \/ Exists \/ FileSize \/ Map \/ Parse \/ Read \/ Copy
    \/ Kill \/ Killed

Spec == Init /\ [][Next]_vars

-----------------------------------------------------------------------------
(* Properties *)

\* The state of a call seen from outside.
Outside == CASE pc = "idle" -> "idle" [] pc = "killed" -> "dead" [] OTHER -> "running"

Abstract == INSTANCE ExtractionCall WITH
    Failures <- {"failure", "filesystem_error", "bad_alloc"}, Arguments <- Calls,
    state <- Outside, array <- features

\* A call is all or nothing (ExtractionCall): whatever fails on the way, and however,
\* the caller's array holds what it held before or a whole vector, and a success has
\* put one there, into an array long enough.
ImplementsExtractionCall == Abstract!Spec

\* Types; nothing stays mapped between calls, and the file is mapped when it is read.
TypeOK ==
    /\ path \in Inodes \cup Nowhere /\ inode \in [Inodes -> Files]
    /\ pc \in {"idle", "check", "absolute", "exists", "size", "map", "parse", "read",
               "copy", "killed"}
    /\ statSize \in 0..MaxSize /\ mapped \in Inodes \cup {NULL}
    /\ fileSize \in 0..(SizeRange - 1)
    /\ errorCode \in {"none", "no_such_file_or_directory", "no_message", "system",
                      "message_size"}
    /\ parsed \in Versions \cup {NULL} /\ output \in Vectors \cup {NULL}
    /\ features \in Vectors \cup {NULL} /\ numFeatures \in {Dim, NULL}
    /\ touched \in BOOLEAN /\ changes \in 0..MaxChanges
    /\ mapped # NULL => pc \in {"parse", "read", "copy", "killed"}
    /\ pc \in {"parse", "read"} /\ args.entry = "path" => mapped # NULL

\* What a call that succeeds has put into the array is the vector of one version of
\* one content, header features and features of the bytes, although the content is
\* read twice and the path may lead elsewhere by then, provided that nobody wrote to
\* the mapped file.  Its size is the one the system or the caller gave, of a path not
\* zero, also where somebody wrote.
OneVersion ==
    result = "success" =>
        /\ touched \/ features.headers = features.bytes
        /\ IF args.entry = "path" THEN features.size = statSize /\ features.size > 0
           ELSE features = [size |-> args.dataSize, headers |-> Buffer.version,
                            bytes |-> Buffer.version]

\* An error is true: what it says of the path was so at some moment of the call.  The
\* process dies only of a file cut short while it was mapped, or of a negative size.
ErrorsAreTrue ==
    LET changed == Cardinality(seen) > 1 IN
    /\ errorCode = "no_such_file_or_directory" => ABSENT \in seen
    /\ errorCode = "no_message" => 0 \in seen
    /\ errorCode = "system" => PRIVATE \in seen \/ changed
    /\ errorCode = "message_size" => Cardinality(seen \cap (1..MaxSize \cup {PRIVATE})) > 1
    /\ result = "filesystem_error" =>
         \/ seen \cap {DIR, DENIED, UNRESOLVED} # {}
         \/ ABSENT \in seen /\ changed
    /\ result = "signal" => IF args.entry = "path" THEN touched ELSE args.dataSize < 0
=============================================================================
