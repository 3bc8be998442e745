-------------------------- MODULE CInterfaceProofs --------------------------
(***************************************************************************)
(* Proofs about the two parts with a C interface: FileRun, the functions   *)
(* of the shared library, for every number of files, sizes, lengths of the *)
(* caller's array, width of size_t and number of changes by others; and    *)
(* LkList, the linked list, for every heap of nodes and every set of data. *)
(*                                                                         *)
(* What is promised of a call speaks of its end; Inv says what is known of *)
(* the arguments, of what was seen of the path and of the mapped content   *)
(* at each of its steps, all the while others change the files.  What is   *)
(* promised of a list is the sequence that both of its ends read; ListInv  *)
(* says that the links hold exactly that sequence of nodes in use.         *)
(***************************************************************************)
EXTENDS FileRun, LkList, FoldTheorems

Running == pc \notin {"idle", "killed"}
Mapped == {"parse", "read", "copy"}

\* A call says nothing before it ends.
NothingReported ==
    Running => errorCode = "none" /\ result = "none" /\ features = NULL

\* Past the check the arguments are good, and only a path goes through the steps of one.
ArgumentsChecked ==
    /\ Running /\ pc # "check" => Arguments
    /\ pc \in {"absolute", "exists", "size", "map"} => args.entry = "path"

\* What the steps have learned of the path was so, and what it leads to now is seen.
PathWasSeen ==
    /\ Running => At(path, inode) \in seen
    /\ pc \in {"exists", "size", "map"} => path # UNRESOLVED
    /\ pc = "size" => \E s \in seen : s # ABSENT
    /\ pc = "map" => statSize > 0 /\ (statSize \in seen \/ PRIVATE \in seen)

\* The file mapped has the size the system gave, as long as nobody writes to it; memory
\* has the size the caller gave.
ContentIsGiven ==
    pc \in Mapped =>
        IF args.entry = "path"
        THEN /\ mapped \in Inodes /\ fileSize = statSize /\ fileSize > 0
             /\ ~touched => inode[mapped].size = fileSize
        ELSE fileSize = ToSize(args.dataSize)

\* What was parsed is what is read again, unless somebody writes in between; so is what
\* was read.
OneContent ==
    /\ pc = "read" => parsed \in Versions /\ (touched \/ parsed = Content.version)
    /\ pc = "copy" =>
         /\ output \in Vectors /\ output.size = fileSize
         /\ touched \/ output.headers = output.bytes
         /\ args.entry = "memory" =>
              output = [size |-> args.dataSize, headers |-> Buffer.version,
                        bytes |-> Buffer.version]
    /\ pc = "read" /\ args.entry = "memory" => parsed = Buffer.version

Inv ==
    /\ TypeOK
    /\ args \in Calls /\ IsFiniteSet(seen)
    /\ NothingReported
    /\ ArgumentsChecked
    /\ PathWasSeen
    /\ ContentIsGiven
    /\ OneContent
    /\ OneVersion
    /\ ErrorsAreTrue

-----------------------------------------------------------------------------
(* Facts about sets, arguments and sizes *)

\* Two different things seen are more than one.
LEMMA TwoAreMore ==
    ASSUME NEW S, IsFiniteSet(S), NEW x \in S, NEW y \in S, x # y
    PROVE  Cardinality(S) > 1
<1>1. IsFiniteSet({x}) /\ Cardinality({x}) = 1
  BY FS_Singleton
<1>2. IsFiniteSet({x} \cup {y}) /\ Cardinality({x} \cup {y}) = 2
  <2>1. y \notin {x}
    OBVIOUS
  <2>2. IsFiniteSet({x} \cup {y}) /\ Cardinality({x} \cup {y}) = Cardinality({x}) + 1
    BY <1>1, <2>1, FS_AddElement
  <2> QED
    BY <1>1, <2>2
<1>3. {x} \cup {y} \subseteq S
  OBVIOUS
<1>4. Cardinality({x} \cup {y}) <= Cardinality(S) /\ Cardinality(S) \in Nat
  BY <1>3, FS_Subset, FS_CardinalityType
<1> QED
  BY <1>2, <1>4

\* The conversion of a length to size_t: a natural number stays what it is, and -1
\* becomes more than any size there is.
LEMMA Conversion ==
    ASSUME NEW n \in Int, n >= -1, n < SizeRange
    PROVE  /\ ToSize(n) \in 0..(SizeRange - 1)
           /\ n >= 0 => ToSize(n) = n
           /\ n < 0 => ToSize(n) = SizeRange - 1
<1>1. SizeRange \in Nat /\ SizeRange > 1
  BY ConstantsAssumption
<1>2. CASE n >= 0
  BY <1>1, <1>2 DEF ToSize
<1>3. CASE n = -1
  <2>1. (-1) % SizeRange = SizeRange - 1
    BY <1>1
  <2> QED
    BY <1>1, <1>3, <2>1 DEF ToSize
<1> QED
  BY <1>2, <1>3

\* The types of the arguments of a call.
LEMMA CallTypes ==
    ASSUME NEW a \in Calls
    PROVE  /\ a.entry \in {"path", "memory"}
           /\ a.source \in BOOLEAN /\ a.features \in BOOLEAN
           /\ a.numFeatures \in Int /\ a.numFeatures >= -1 /\ a.numFeatures < SizeRange
           /\ a.dataSize \in Int /\ a.dataSize >= -1 /\ a.dataSize < SizeRange
           /\ a.dataSize <= Buffer.size
<1>1. Buffer.size \in 0..MaxSize /\ SizeRange > MaxSize + 1 /\ SizeRange > MaxNumFeatures + 1
      /\ MaxSize \in Nat /\ MaxNumFeatures \in Nat /\ SizeRange \in Nat
  BY ConstantsAssumption
<1> QED
  BY <1>1 DEF Calls

\* What can be seen of a path: a size it has, if it leads to a file.
LEMMA SizesSeen ==
    ASSUME TypeOK
    PROVE  /\ path \in Inodes => At(path, inode) = inode[path].size
           /\ path \in Inodes => inode[path].size \in 0..MaxSize /\ inode[path].version \in Versions
           /\ path \notin Inodes => At(path, inode) = path /\ path \in Nowhere
           /\ Nowhere \cap Nat = {} /\ Nowhere \cap Inodes = {} /\ NULL \notin Inodes
BY ConstantsAssumption DEF TypeOK, Files, At, Nowhere

-----------------------------------------------------------------------------
\* A caller before the first call satisfies the invariant.
LEMMA InitInv == Init => Inv
<1> SUFFICES ASSUME Init PROVE Inv
  OBVIOUS
<1>1. TypeOK
  <2>1. 0 \in 0..MaxSize /\ 0 \in 0..(SizeRange - 1) /\ 0 \in 0..MaxChanges
    BY ConstantsAssumption
  <2>2. touched \in BOOLEAN
    BY DEF Init
  <2> QED
    BY <2>1, <2>2 DEF Init, TypeOK
<1>2. args \in Calls
  BY ConstantsAssumption DEF Init, Calls
<1>3. IsFiniteSet(seen)
  BY FS_EmptySet DEF Init
<1>4. OneVersion /\ ErrorsAreTrue
  BY DEF Init, OneVersion, ErrorsAreTrue
<1> QED
  BY <1>1, <1>2, <1>3, <1>4
     DEF Init, Inv, NothingReported, ArgumentsChecked, PathWasSeen, ContentIsGiven, OneContent,
         Running, Mapped

\* Others change what the path leads to, or a file, and are noticed: what the path
\* leads to then has been seen, and a file that is mapped counts as touched.
LEMMA ChangeInv == Inv /\ Change => Inv'
<1> SUFFICES ASSUME Inv, Change PROVE Inv'
  OBVIOUS
<1>1. /\ Running /\ Running' /\ changes < MaxChanges /\ args.entry = "path"
      /\ seen' = seen \cup {At(path', inode')} /\ changes' = changes + 1
      /\ UNCHANGED <<handle, pc, args, statSize, mapped, fileSize, errorCode, parsed, output,
                     features, numFeatures, result>>
  BY DEF Change, call, caller, Running
<1>2. /\ path' \in Inodes \cup Nowhere /\ inode' \in [Inodes -> Files]
      /\ touched' \in BOOLEAN /\ (touched => touched')
      /\ mapped \in Inodes /\ ~touched' => inode'[mapped] = inode[mapped]
  <2>1. /\ path \in Inodes \cup Nowhere /\ inode \in [Inodes -> Files]
        /\ touched \in BOOLEAN
    BY DEF Inv, TypeOK
  <2>2. CASE path' \in Inodes \cup Nowhere /\ UNCHANGED <<inode, touched>>
    BY <2>1, <2>2
  <2>3. ASSUME NEW i \in Inodes, NEW f \in Files,
               inode' = [inode EXCEPT ![i] = f], touched' = (touched \/ i = mapped),
               UNCHANGED path
        PROVE  <1>2!:
    <3>1. inode' \in [Inodes -> Files]
      BY <2>1, <2>3
    <3>2. \A j \in Inodes : j # i => inode'[j] = inode[j]
      BY <2>1, <2>3
    <3>3. touched' \in BOOLEAN /\ (touched => touched') /\ (~touched' => i # mapped)
      BY <2>1, <2>3
    <3> QED
      BY <2>1, <2>3, <3>1, <3>2, <3>3
  <2> QED
    BY <2>2, <2>3 DEF Change
<1>3. TypeOK'
  <2>1. changes' \in 0..MaxChanges
    BY <1>1, ConstantsAssumption DEF Inv, TypeOK
  <2>2. TypeOK
    BY DEF Inv
  <2> QED
    BY <1>1, <1>2, <2>1, <2>2 DEF TypeOK
<1>4. IsFiniteSet(seen')
  BY <1>1, FS_AddElement DEF Inv
<1>5. errorCode' = "none" /\ result' = "none" /\ features' = NULL
  BY <1>1 DEF Inv, NothingReported
<1>6. OneVersion' /\ ErrorsAreTrue'
  BY <1>5 DEF OneVersion, ErrorsAreTrue
<1>7. PathWasSeen'
  <2>1. pc \in {"exists", "size", "map"} => path' # UNRESOLVED
    BY DEF Change, Inv, PathWasSeen
  <2> QED
    BY <1>1, <2>1 DEF Inv, PathWasSeen, Running
<1>8. ArgumentsChecked'
  BY <1>1 DEF Inv, ArgumentsChecked, Running, Arguments
<1>9. ContentIsGiven' /\ OneContent'
  BY <1>1, <1>2 DEF Inv, TypeOK, ContentIsGiven, OneContent, Content, Mapped
<1> QED
  BY <1>1, <1>3, <1>4, <1>5, <1>6, <1>7, <1>8, <1>9 DEF Inv, NothingReported

\* Engines come and go, and the dimension is asked for, between calls; nothing that was
\* reported of a call changes.
LEMMA EngineInv ==
    ASSUME Inv, EFE_Init \/ EFE_Cleanup \/ EFE_GetNumFeatures
    PROVE  Inv'
<1>1. /\ pc = "idle" /\ pc' = "idle" /\ numFeatures' \in {numFeatures, Dim}
      /\ UNCHANGED <<fs, call, features, result, history>>
  BY DEF EFE_Init, EFE_Cleanup, EFE_GetNumFeatures, caller
<1>2. TypeOK'
  BY <1>1 DEF Inv, TypeOK, fs, call, history
<1>3. OneVersion' /\ ErrorsAreTrue'
  BY <1>1 DEF Inv, OneVersion, ErrorsAreTrue, call, history
<1> QED
  BY <1>1, <1>2, <1>3
     DEF Inv, NothingReported, ArgumentsChecked, PathWasSeen, ContentIsGiven, OneContent, Running,
         Mapped, fs, call, history

\* A call begins, forgets what the one before it reported, and has seen the path.
LEMMA CallInv ==
    ASSUME Inv, NEW a \in Calls, Call(a)
    PROVE  Inv'
<1>1. /\ pc' = "check" /\ args' = a /\ statSize' = 0 /\ errorCode' = "none"
      /\ features' = NULL /\ result' = "none"
      /\ seen' = {At(path, inode)} /\ touched' = FALSE /\ changes' = 0
      /\ UNCHANGED <<path, inode, handle, numFeatures, mapped, fileSize, parsed, output>>
      /\ pc = "idle"
  BY DEF Call, fs
<1>2. TypeOK'
  <2>1. 0 \in 0..MaxSize /\ 0 \in 0..MaxChanges
    BY ConstantsAssumption
  <2>2. mapped' = NULL
    BY <1>1 DEF Inv, TypeOK
  <2>3. touched' \in BOOLEAN
    BY <1>1
  <2> QED
    BY <1>1, <2>1, <2>2, <2>3 DEF Inv, TypeOK
<1>3. IsFiniteSet(seen')
  BY <1>1, FS_Singleton
<1>4. OneVersion' /\ ErrorsAreTrue'
  BY <1>1 DEF OneVersion, ErrorsAreTrue
<1> QED
  BY <1>1, <1>2, <1>3, <1>4
     DEF Inv, NothingReported, ArgumentsChecked, PathWasSeen, ContentIsGiven, OneContent, Running,
         Mapped

-----------------------------------------------------------------------------
(* The ends of a call *)

\* A call that ends in whatever way keeps the invariant if what it reports is true.
LEMMA EndInv ==
    ASSUME Inv, NEW r, End(r), r # "success",
           UNCHANGED features,
           errorCode' \in {"none", "no_such_file_or_directory", "no_message", "system",
                           "message_size"},
           ErrorsAreTrue'
    PROVE  Inv'
<1>1. /\ pc' = "idle" /\ result' = r /\ mapped' = NULL /\ fileSize' = 0 /\ parsed' = NULL
      /\ output' = NULL
      /\ UNCHANGED <<path, inode, handle, args, statSize, numFeatures, seen, touched, changes>>
  BY DEF End, fs, history
<1>2. TypeOK'
  <2>1. 0 \in 0..(SizeRange - 1)
    BY ConstantsAssumption
  <2> QED
    BY <1>1, <2>1 DEF Inv, TypeOK
<1>3. OneVersion'
  BY <1>1 DEF OneVersion
<1> QED
  BY <1>1, <1>2, <1>3
     DEF Inv, NothingReported, ArgumentsChecked, PathWasSeen, ContentIsGiven, OneContent, Running,
         Mapped

\* An end without an error, and not by an exception of the file system, says nothing
\* that could be untrue.
LEMMA SilentEnd ==
    ASSUME Inv, Running, NEW r \in {"failure", "bad_alloc"}, End(r),
           UNCHANGED <<errorCode, features>>
    PROVE  Inv'
<1>1. errorCode' = "none" /\ result' = r
  BY DEF Inv, NothingReported, End
<1>2. ErrorsAreTrue'
  BY <1>1 DEF ErrorsAreTrue
<1> QED
  BY <1>1, <1>2, EndInv

\* Without an argument, or with an array too short, a call ends; with all of them it
\* goes on to the path or to the memory.
LEMMA CheckInv == Inv /\ Check => Inv'
<1> SUFFICES ASSUME Inv, Check PROVE Inv'
  OBVIOUS
<1>1. pc = "check" /\ Running
  BY DEF Check, Goto, Running
<1>2. CASE pc' = "idle"
  <2>1. End("failure") /\ UNCHANGED <<errorCode, features>>
    BY <1>2 DEF Check, Goto
  <2> QED
    BY <1>1, <2>1, SilentEnd
<1>3. CASE pc' # "idle"
  <2>1. /\ Arguments
        /\ UNCHANGED <<path, inode, handle, args, statSize, mapped, errorCode, parsed, output,
                       features, numFeatures, result, seen, touched, changes>>
        /\ \/ args.entry = "path" /\ pc' = "absolute" /\ fileSize' = fileSize
           \/ args.entry = "memory" /\ pc' = "parse" /\ fileSize' = ToSize(args.dataSize)
    BY <1>3 DEF Check, Goto, End, fs, call, caller, history
  <2>2. fileSize' \in 0..(SizeRange - 1)
    BY <2>1, CallTypes, Conversion DEF Inv, TypeOK
  <2>3. mapped = NULL
    BY <1>1 DEF Inv, TypeOK
  <2>4. TypeOK'
    BY <2>1, <2>2, <2>3 DEF Inv, TypeOK
  <2>5. NothingReported' /\ OneVersion' /\ ErrorsAreTrue'
    BY <1>1, <2>1 DEF Inv, NothingReported, OneVersion, ErrorsAreTrue
  <2>6. ArgumentsChecked' /\ PathWasSeen' /\ ContentIsGiven' /\ OneContent'
    BY <1>1, <2>1 DEF Inv, ArgumentsChecked, Arguments, PathWasSeen, ContentIsGiven, OneContent,
                      Running, Mapped
  <2> QED
    BY <2>1, <2>4, <2>5, <2>6 DEF Inv
<1> QED
  BY <1>2, <1>3

\* absolute: there is nothing to resolve the path with, or there is.
LEMMA AbsoluteInv == Inv /\ Absolute => Inv'
<1> SUFFICES ASSUME Inv, Absolute PROVE Inv'
  OBVIOUS
<1>1. pc = "absolute" /\ Running /\ errorCode = "none" /\ At(path, inode) \in seen
  BY DEF Absolute, Goto, Running, Inv, NothingReported, PathWasSeen
<1>2. CASE path = UNRESOLVED /\ Throw("filesystem_error")
  <2>1. At(path, inode) = UNRESOLVED
    BY <1>2, SizesSeen DEF Inv, Nowhere
  <2>2. ErrorsAreTrue'
    BY <1>1, <1>2, <2>1 DEF ErrorsAreTrue, Throw, End, history
  <2> QED
    BY <1>1, <1>2, <2>2, EndInv DEF Throw
<1>3. CASE Goto("absolute", "exists") /\ path # UNRESOLVED
           /\ UNCHANGED <<fs, handle, call, caller, result, history>>
  <2>1. PathWasSeen'
    BY <1>1, <1>3 DEF Inv, PathWasSeen, Goto, Running, fs, history
  <2>2. TypeOK'
    BY <1>1, <1>3 DEF Inv, TypeOK, Goto, fs, call, caller, history
  <2>3. NothingReported' /\ OneVersion' /\ ErrorsAreTrue'
    BY <1>1, <1>3 DEF Inv, NothingReported, OneVersion, ErrorsAreTrue, call, caller
  <2>4. ArgumentsChecked' /\ ContentIsGiven' /\ OneContent'
    BY <1>1, <1>3 DEF Inv, ArgumentsChecked, Arguments, ContentIsGiven, OneContent, Goto,
                      Running, Mapped, call
  <2> QED
    BY <1>3, <2>1, <2>2, <2>3, <2>4 DEF Inv, call, history
<1> QED
  BY <1>2, <1>3 DEF Absolute

\* exists: the path leads to nothing, cannot be looked at, or leads to something.
LEMMA ExistsInv == Inv /\ Exists => Inv'
<1> SUFFICES ASSUME Inv, Exists PROVE Inv'
  OBVIOUS
<1>1. pc = "exists" /\ Running /\ errorCode = "none" /\ At(path, inode) \in seen
  BY DEF Exists, Goto, Running, Inv, NothingReported, PathWasSeen
<1>2. path \in {ABSENT, DENIED} => At(path, inode) = path
  BY SizesSeen DEF Inv, Nowhere
<1>3. CASE path = ABSENT /\ Fail("no_such_file_or_directory")
  <2>1. ErrorsAreTrue'
    BY <1>1, <1>2, <1>3 DEF ErrorsAreTrue, Fail, End, history
  <2> QED
    BY <1>3, <2>1, EndInv DEF Fail
<1>4. CASE path = DENIED /\ Throw("filesystem_error")
  <2>1. ErrorsAreTrue'
    BY <1>1, <1>2, <1>4 DEF ErrorsAreTrue, Throw, End, history
  <2> QED
    BY <1>1, <1>4, <2>1, EndInv DEF Throw
<1>5. CASE path \notin {ABSENT, DENIED} /\ Goto("exists", "size")
           /\ UNCHANGED <<fs, handle, call, caller, result, history>>
  <2>1. At(path, inode) # ABSENT
    BY <1>5, SizesSeen, ConstantsAssumption DEF Inv
  <2>2. PathWasSeen'
    BY <1>1, <1>5, <2>1 DEF Inv, PathWasSeen, Goto, Running, fs, history
  <2>3. TypeOK'
    BY <1>1, <1>5 DEF Inv, TypeOK, Goto, fs, call, caller, history
  <2>4. NothingReported' /\ OneVersion' /\ ErrorsAreTrue'
    BY <1>1, <1>5 DEF Inv, NothingReported, OneVersion, ErrorsAreTrue, call, caller
  <2>5. ArgumentsChecked' /\ ContentIsGiven' /\ OneContent'
    BY <1>1, <1>5 DEF Inv, ArgumentsChecked, Arguments, ContentIsGiven, OneContent, Goto,
                      Running, Mapped, call
  <2> QED
    BY <1>5, <2>2, <2>3, <2>4, <2>5 DEF Inv, call, history
<1> QED
  BY <1>3, <1>4, <1>5 DEF Exists

\* file_size: there is no regular file, or it is empty, or its size is kept.
LEMMA FileSizeInv == Inv /\ FileSize => Inv'
<1> SUFFICES ASSUME Inv, FileSize PROVE Inv'
  OBVIOUS
<1>1. pc = "size" /\ Running /\ errorCode = "none" /\ At(path, inode) \in seen
  BY DEF FileSize, Goto, Running, Inv, NothingReported, PathWasSeen
<1>2. IsFiniteSet(seen)
  BY DEF Inv
<1>3. CASE path \in {ABSENT, DIR, DENIED} /\ Throw("filesystem_error")
  <2>1. path \in seen
    BY <1>1, <1>3, SizesSeen DEF Inv, Nowhere
  <2>2. path = ABSENT => Cardinality(seen) > 1
    <3>1. PICK s \in seen : s # ABSENT
      BY <1>1 DEF Inv, PathWasSeen
    <3> QED
      BY <1>2, <2>1, <3>1, TwoAreMore
  <2>3. ErrorsAreTrue'
    BY <1>1, <1>3, <2>1, <2>2 DEF ErrorsAreTrue, Throw, End, history
  <2> QED
    BY <1>1, <1>3, <2>3, EndInv DEF Throw
<1>4. CASE path \notin {ABSENT, DIR, DENIED} /\ SizeFromSystem = 0 /\ Fail("no_message")
  <2>1. At(path, inode) = 0
    BY <1>4, SizesSeen, ConstantsAssumption DEF Inv, SizeFromSystem
  <2>2. ErrorsAreTrue'
    BY <1>1, <1>4, <2>1 DEF ErrorsAreTrue, Fail, End, history
  <2> QED
    BY <1>4, <2>2, EndInv DEF Fail
<1>5. CASE /\ Goto("size", "map") /\ path \notin {ABSENT, DIR, DENIED} /\ SizeFromSystem # 0
           /\ statSize' = SizeFromSystem
           /\ UNCHANGED <<fs, handle, args, mapped, fileSize, errorCode, parsed, output,
                          caller, result, history>>
  <2>1. SizeFromSystem \in 1..MaxSize
    BY <1>5, SizesSeen, ConstantsAssumption DEF Inv, SizeFromSystem
  <2>2. At(path, inode) = SizeFromSystem \/ At(path, inode) = PRIVATE
    BY <1>1, <1>5, SizesSeen DEF Inv, PathWasSeen, SizeFromSystem, Nowhere
  <2>3. PathWasSeen'
    BY <1>1, <1>5, <2>1, <2>2 DEF Inv, PathWasSeen, Goto, Running, fs, history
  <2>4. TypeOK'
    <3>1. statSize' \in 0..MaxSize
      BY <1>5, <2>1, ConstantsAssumption
    <3> QED
      BY <1>1, <1>5, <3>1 DEF Inv, TypeOK, Goto, fs, caller, history
  <2>5. NothingReported' /\ OneVersion' /\ ErrorsAreTrue'
    BY <1>1, <1>5 DEF Inv, NothingReported, OneVersion, ErrorsAreTrue, caller
  <2>6. ArgumentsChecked' /\ ContentIsGiven' /\ OneContent'
    BY <1>1, <1>5 DEF Inv, ArgumentsChecked, Arguments, ContentIsGiven, OneContent, Goto,
                      Running, Mapped
  <2> QED
    BY <1>5, <2>3, <2>4, <2>5, <2>6 DEF Inv, history
<1> QED
  BY <1>3, <1>4, <1>5 DEF FileSize

\* The mapping fails, or is of another size than the system gave, only if the path may
\* not be opened or led to something else before; else the content is that of the file.
LEMMA MapInv == Inv /\ Map => Inv'
<1> SUFFICES ASSUME Inv, Map PROVE Inv'
  OBVIOUS
<1>1. /\ pc = "map" /\ Running /\ errorCode = "none" /\ result = "none"
      /\ At(path, inode) \in seen /\ IsFiniteSet(seen)
      /\ statSize \in 1..MaxSize /\ (statSize \in seen \/ PRIVATE \in seen)
      /\ args.entry = "path"
  BY ConstantsAssumption
     DEF Map, Goto, Running, Inv, TypeOK, NothingReported, PathWasSeen, ArgumentsChecked
<1>2. CASE ~Mappable /\ Fail("system")
  <2>1. At(path, inode) # statSize
    BY <1>1, <1>2, SizesSeen DEF Inv, Mappable
  <2>2. PRIVATE \in seen \/ Cardinality(seen) > 1
    BY <1>1, <2>1, TwoAreMore
  <2>3. ErrorsAreTrue'
    BY <1>1, <1>2, <2>2 DEF ErrorsAreTrue, Fail, End, history
  <2> QED
    BY <1>2, <2>3, EndInv DEF Fail
<1>3. CASE Mappable /\ ~SizesAgree /\ Fail("message_size")
  <2> DEFINE S == seen \cap (1..MaxSize \cup {PRIVATE})
  <2>1. At(path, inode) \in S /\ At(path, inode) # statSize /\ At(path, inode) # PRIVATE
    BY <1>1, <1>3, SizesSeen, ConstantsAssumption DEF Inv, Mappable, SizesAgree
  <2>2. \E s \in S : s # At(path, inode)
    BY <1>1, <2>1
  <2>3. IsFiniteSet(S)
    BY <1>1, FS_Subset
  <2>4. Cardinality(S) > 1
    BY <2>1, <2>2, <2>3, TwoAreMore
  <2>5. ErrorsAreTrue'
    BY <1>1, <1>3, <2>4 DEF ErrorsAreTrue, Fail, End, history
  <2> QED
    BY <1>3, <2>5, EndInv DEF Fail
<1>4. CASE /\ Goto("map", "parse") /\ Mappable /\ SizesAgree
           /\ mapped' = path /\ fileSize' = inode[path].size
           /\ touched' = FALSE
           /\ UNCHANGED <<fs, handle, args, statSize, errorCode, parsed, output,
                          caller, result, seen, changes>>
  <2>1. /\ path \in Inodes /\ mapped' \in Inodes /\ mapped' # NULL
        /\ fileSize' = statSize /\ inode'[mapped'].size = fileSize'
    BY <1>4, SizesSeen DEF Inv, Mappable, SizesAgree, fs
  <2>2. TypeOK'
    <3>1. fileSize' \in 0..(SizeRange - 1)
      BY <1>1, <2>1, ConstantsAssumption
    <3>2. touched' \in BOOLEAN
      BY <1>4
    <3> QED
      BY <1>1, <1>4, <2>1, <3>1, <3>2 DEF Inv, TypeOK, Goto, fs, caller
  <2>3. ContentIsGiven'
    BY <1>1, <1>4, <2>1 DEF ContentIsGiven
  <2>4. NothingReported' /\ OneVersion' /\ ErrorsAreTrue'
    BY <1>1, <1>4 DEF Inv, NothingReported, OneVersion, ErrorsAreTrue, caller
  <2>5. ArgumentsChecked' /\ PathWasSeen' /\ OneContent'
    BY <1>1, <1>4 DEF Inv, ArgumentsChecked, Arguments, PathWasSeen, OneContent, Goto,
                      Running, fs
  <2> QED
    BY <1>4, <2>2, <2>3, <2>4, <2>5 DEF Inv
<1> QED
  BY <1>2, <1>3, <1>4 DEF Map

-----------------------------------------------------------------------------
(* From here on the content is read *)

\* What there is to read; that it ends before fileSize means that somebody wrote to the
\* mapped file, or that the caller's size is negative.
LEMMA ContentTypes ==
    ASSUME Inv, pc \in Mapped
    PROVE  /\ Content.size \in 0..MaxSize /\ Content.version \in Versions
           /\ fileSize \in 0..(SizeRange - 1)
           /\ args.entry = "path" /\ Overrun => touched
           /\ args.entry = "memory" /\ Overrun => args.dataSize < 0
           /\ args.entry = "memory" /\ ~Overrun => fileSize = args.dataSize
<1>1. /\ inode \in [Inodes -> Files] /\ fileSize \in 0..(SizeRange - 1)
      /\ Buffer.size \in 0..MaxSize /\ Buffer.version \in Versions
      /\ SizeRange > MaxSize + 1 /\ SizeRange \in Nat /\ MaxSize \in Nat
  BY ConstantsAssumption DEF Inv, TypeOK
<1>2. CASE args.entry = "path"
  <2>1. mapped \in Inodes /\ Content = inode[mapped]
    BY <1>2 DEF Inv, ContentIsGiven, Content
  <2>2. Content.size \in 0..MaxSize /\ Content.version \in Versions
    BY <1>1, <2>1 DEF Files
  <2>3. ~touched => Content.size = fileSize
    BY <1>2, <2>1 DEF Inv, ContentIsGiven
  <2> QED
    BY <1>1, <1>2, <2>2, <2>3 DEF Overrun
<1>3. CASE args.entry # "path"
  <2>1. /\ args.entry = "memory" /\ Content = Buffer /\ fileSize = ToSize(args.dataSize)
        /\ args.dataSize \in Int /\ args.dataSize >= -1 /\ args.dataSize < SizeRange
        /\ args.dataSize <= Buffer.size
    BY <1>3, CallTypes DEF Inv, ContentIsGiven, Content
  <2>2. /\ args.dataSize >= 0 => fileSize = args.dataSize
        /\ args.dataSize < 0 => fileSize = SizeRange - 1
    BY <2>1, Conversion
  <2> QED
    BY <1>1, <2>1, <2>2 DEF Overrun
<1> QED
  BY <1>2, <1>3

\* The process dies of content cut short, or of a negative size.
LEMMA KillInv == Inv /\ Kill => Inv'
<1> SUFFICES ASSUME Inv, Kill PROVE Inv'
  OBVIOUS
<1>1. /\ pc \in {"parse", "read"} /\ Overrun /\ pc' = "killed" /\ result' = "signal"
      /\ UNCHANGED <<path, inode, handle, args, statSize, mapped, fileSize, errorCode, parsed,
                     output, features, numFeatures, seen, touched, changes>>
      /\ errorCode = "none" /\ args.entry \in {"path", "memory"}
  BY CallTypes DEF Kill, fs, call, caller, history, Inv, NothingReported, Running
<1>2. TypeOK'
  BY <1>1 DEF Inv, TypeOK
<1>3. ErrorsAreTrue'
  BY <1>1, ContentTypes DEF ErrorsAreTrue, Mapped
<1>4. OneVersion'
  BY <1>1 DEF OneVersion
<1> QED
  BY <1>1, <1>2, <1>3, <1>4
     DEF Inv, NothingReported, ArgumentsChecked, PathWasSeen, ContentIsGiven, OneContent, Running,
         Mapped

\* What is parsed is the content as it is then.
LEMMA ParseInv == Inv /\ Parse => Inv'
<1> SUFFICES ASSUME Inv, Parse PROVE Inv'
  OBVIOUS
<1>1. pc = "parse" /\ Running /\ pc \in Mapped
  BY DEF Parse, Goto, Running, Mapped
<1>2. CASE Throw("bad_alloc")
  BY <1>1, <1>2, SilentEnd DEF Throw
<1>3. CASE /\ Goto("parse", "read")
           /\ parsed' = Content.version
           /\ UNCHANGED <<fs, handle, args, statSize, mapped, fileSize, errorCode, output,
                          caller, result, history>>
  <2>1. parsed' \in Versions /\ Content' = Content
    BY <1>1, <1>3, ContentTypes DEF Content, fs
  <2>2. TypeOK'
    BY <1>1, <1>3, <2>1 DEF Inv, TypeOK, Goto, fs, caller, history
  <2>3. OneContent'
    BY <1>1, <1>3, <2>1 DEF OneContent, Goto, Content
  <2>4. NothingReported' /\ OneVersion' /\ ErrorsAreTrue'
    BY <1>1, <1>3 DEF Inv, NothingReported, OneVersion, ErrorsAreTrue, caller
  <2>5. ArgumentsChecked' /\ PathWasSeen' /\ ContentIsGiven'
    BY <1>1, <1>3 DEF Inv, ArgumentsChecked, Arguments, PathWasSeen, ContentIsGiven, Goto,
                      Running, Mapped, fs, history
  <2> QED
    BY <1>3, <2>2, <2>3, <2>4, <2>5 DEF Inv, history
<1> QED
  BY <1>1, <1>2, <1>3 DEF Parse

\* What is read again goes with what was parsed into one vector.
LEMMA ReadInv == Inv /\ Read => Inv'
<1> SUFFICES ASSUME Inv, Read PROVE Inv'
  OBVIOUS
<1>1. pc = "read" /\ Running /\ pc \in Mapped
  BY DEF Read, Goto, Running, Mapped
<1>2. CASE Throw("bad_alloc")
  BY <1>1, <1>2, SilentEnd DEF Throw
<1>3. CASE /\ Goto("read", "copy") /\ ~Overrun
           /\ output' = [size |-> fileSize, headers |-> parsed, bytes |-> Content.version]
           /\ UNCHANGED <<fs, handle, args, statSize, mapped, fileSize, errorCode, parsed,
                          caller, result, history>>
  <2>1. fileSize \in 0..MaxSize /\ Content.version \in Versions
    BY <1>1, <1>3, ContentTypes, ConstantsAssumption DEF Overrun
  <2>2. /\ parsed \in Versions /\ (touched \/ parsed = Content.version)
        /\ args.entry = "memory" => parsed = Buffer.version /\ Content = Buffer
    BY <1>1 DEF Inv, OneContent, Content
  <2>3. output' \in Vectors
    BY <1>3, <2>1, <2>2 DEF Vectors
  <2>4. TypeOK'
    BY <1>1, <1>3, <2>3 DEF Inv, TypeOK, Goto, fs, caller, history
  <2>5. OneContent'
    <3>1. args.entry = "memory" => fileSize = args.dataSize
      BY <1>1, <1>3, ContentTypes
    <3> QED
      BY <1>1, <1>3, <2>2, <2>3, <3>1 DEF OneContent, Goto, history
  <2>6. NothingReported' /\ OneVersion' /\ ErrorsAreTrue'
    BY <1>1, <1>3 DEF Inv, NothingReported, OneVersion, ErrorsAreTrue, caller
  <2>7. ArgumentsChecked' /\ PathWasSeen' /\ ContentIsGiven'
    BY <1>1, <1>3 DEF Inv, ArgumentsChecked, Arguments, PathWasSeen, ContentIsGiven, Goto,
                      Running, Mapped, fs, history
  <2> QED
    BY <1>3, <2>4, <2>5, <2>6, <2>7 DEF Inv, history
<1> QED
  BY <1>1, <1>2, <1>3 DEF Read

\* The vector is copied out, whole, and only then is success reported.
LEMMA CopyInv == Inv /\ Copy => Inv'
<1> SUFFICES ASSUME Inv, Copy PROVE Inv'
  OBVIOUS
<1>1. /\ pc = "copy" /\ pc' = "idle" /\ result' = "success" /\ features' = output
      /\ mapped' = NULL /\ fileSize' = 0 /\ parsed' = NULL /\ output' = NULL
      /\ UNCHANGED <<path, inode, handle, args, statSize, errorCode, numFeatures, seen, touched,
                     changes>>
      /\ errorCode = "none"
  BY DEF Copy, End, fs, history, Inv, NothingReported, Running
<1>2. /\ output \in Vectors /\ output.size = fileSize
      /\ touched \/ output.headers = output.bytes
      /\ args.entry = "memory" =>
           output = [size |-> args.dataSize, headers |-> Buffer.version, bytes |-> Buffer.version]
      /\ args.entry = "path" => fileSize = statSize /\ fileSize > 0
      /\ args.entry \in {"path", "memory"}
  BY <1>1, CallTypes DEF Inv, OneContent, ContentIsGiven, Mapped
<1>3. TypeOK'
  <2>1. 0 \in 0..(SizeRange - 1)
    BY ConstantsAssumption
  <2> QED
    BY <1>1, <1>2, <2>1 DEF Inv, TypeOK
<1>4. OneVersion'
  BY <1>1, <1>2 DEF OneVersion
<1>5. ErrorsAreTrue'
  BY <1>1 DEF ErrorsAreTrue
<1> QED
  BY <1>1, <1>3, <1>4, <1>5
     DEF Inv, NothingReported, ArgumentsChecked, PathWasSeen, ContentIsGiven, OneContent, Running,
         Mapped

-----------------------------------------------------------------------------
\* Every step keeps the invariant.
LEMMA NextInv == Inv /\ [Next]_vars => Inv'
<1> SUFFICES ASSUME Inv, [Next]_vars PROVE Inv'
  OBVIOUS
<1>1. CASE Change
  BY <1>1, ChangeInv
<1>2. CASE EFE_Init \/ EFE_Cleanup \/ EFE_GetNumFeatures
  BY <1>2, EngineInv
<1>3. ASSUME NEW a \in Calls, Call(a) PROVE Inv'
  BY <1>3, CallInv
<1>4. CASE Check
  BY <1>4, CheckInv
<1>5. CASE Absolute
  BY <1>5, AbsoluteInv
<1>13. CASE Exists
  BY <1>13, ExistsInv
<1>6. CASE FileSize
  BY <1>6, FileSizeInv
<1>7. CASE Map
  BY <1>7, MapInv
<1>8. CASE Parse
  BY <1>8, ParseInv
<1>9. CASE Read
  BY <1>9, ReadInv
<1>10. CASE Copy
  BY <1>10, CopyInv
<1>11. CASE Kill
  BY <1>11, KillInv
<1>12. CASE UNCHANGED vars
  <2>1. UNCHANGED <<path, inode, handle, pc, args, statSize, mapped, fileSize, errorCode, parsed,
                    output, features, numFeatures, result, seen, touched, changes>>
    BY <1>12 DEF vars, fs, call, caller, history
  <2>2. TypeOK'
    BY <2>1 DEF Inv, TypeOK
  <2>3. OneVersion' /\ ErrorsAreTrue'
    BY <2>1 DEF Inv, OneVersion, ErrorsAreTrue
  <2>4. NothingReported' /\ ArgumentsChecked' /\ PathWasSeen'
    BY <2>1 DEF Inv, NothingReported, ArgumentsChecked, Arguments, PathWasSeen, Running
  <2>5. ContentIsGiven' /\ OneContent'
    BY <2>1 DEF Inv, ContentIsGiven, OneContent, Content, Mapped
  <2> QED
    BY <2>1, <2>2, <2>3, <2>4, <2>5 DEF Inv
<1> QED
  BY <1>1, <1>2, <1>3, <1>4, <1>5, <1>6, <1>7, <1>8, <1>9, <1>10, <1>11, <1>12,
     <1>13 DEF Next, Killed

\* The invariant holds at every step of every call, whatever others do to the files.
THEOREM CallInvariant == Spec => []Inv
<1> QED
  BY InitInv, NextInv, PTL DEF Spec

\* Types; nothing stays mapped between calls (core.cpp:89-95).
THEOREM TypeCorrect == Spec => []TypeOK
<1>1. Inv => TypeOK
  BY DEF Inv
<1> QED
  BY <1>1, CallInvariant, PTL

\* A vector that a successful call hands out is of one version of one content unless
\* somebody wrote to the mapped file, and its size is the one given (core.cpp:83-103).
THEOREM VectorOfOneVersion == Spec => []OneVersion
<1>1. Inv => OneVersion
  BY DEF Inv
<1> QED
  BY <1>1, CallInvariant, PTL

\* What an error of run says of the path was so at some moment of the call
\* (core.cpp:77-102), and the process dies of nothing but content cut short.
THEOREM TrueErrors == Spec => []ErrorsAreTrue
<1>1. Inv => ErrorsAreTrue
  BY DEF Inv
<1> QED
  BY <1>1, CallInvariant, PTL

-----------------------------------------------------------------------------
(* The calls implement ExtractionCall *)

\* A new caller is one of ExtractionCall.
LEMMA InitRefines == Init => Abstract!Init
<1> SUFFICES ASSUME Init PROVE Abstract!Init
  OBVIOUS
<1>1. args \in Calls
  BY InitInv DEF Inv
<1> QED
  BY <1>1 DEF Init, Abstract!Init, Outside

\* An end that is no success is a failure of the call, the array left as it was.
LEMMA EndFails ==
    ASSUME Inv, Running, NEW r \in {"failure", "filesystem_error", "bad_alloc"}, End(r),
           UNCHANGED features
    PROVE  Abstract!Fail
BY DEF Inv, TypeOK, Running, End, Outside, Abstract!Fail

\* Every step is a step of ExtractionCall or is not seen from outside.
LEMMA StepRefines == Inv /\ [Next]_vars => [Abstract!Next]_(Abstract!vars)
<1> SUFFICES ASSUME Inv, [Next]_vars
             PROVE  Abstract!Next \/ UNCHANGED Abstract!vars
  BY DEF Abstract!vars
<1> DEFINE Unseen == UNCHANGED <<handle, args, features, result>> /\ UNCHANGED Outside
<1>1. Unseen => UNCHANGED Abstract!vars
  BY DEF Abstract!vars
<1>2. CASE Change
  BY <1>1, <1>2 DEF Change, call, caller, Outside
<1>3. CASE EFE_Init \/ EFE_Cleanup
  BY <1>3 DEF EFE_Init, EFE_Cleanup, call, caller, Outside, Abstract!Next, Abstract!Engine
<1>4. CASE EFE_GetNumFeatures
  BY <1>1, <1>4 DEF EFE_GetNumFeatures, call, Outside
<1>5. ASSUME NEW a \in Calls, Call(a)
      PROVE  Abstract!Begin
  BY <1>5 DEF Call, Outside, Abstract!Begin
<1>6. ASSUME Running, NEW r \in {"failure", "filesystem_error", "bad_alloc"}, End(r),
             UNCHANGED features
      PROVE  Abstract!Next
  BY <1>6, EndFails DEF Abstract!Next
<1>7. ASSUME Running, Running', UNCHANGED <<handle, args, features, result>>
      PROVE  UNCHANGED Abstract!vars
  BY <1>1, <1>7 DEF Running, Outside
<1>8. CASE Check
  <2>1. CASE End("failure") /\ UNCHANGED features
    BY <1>6, <1>8, <2>1 DEF Check, Goto, Running
  <2>2. CASE ~(End("failure") /\ UNCHANGED features)
    BY <1>7, <1>8, <2>2 DEF Check, Goto, Running, call, caller
  <2> QED
    BY <2>1, <2>2
<1>17. CASE Absolute
  BY <1>6, <1>7, <1>17 DEF Absolute, Throw, Goto, Running, call, caller
<1>9. CASE Exists
  BY <1>6, <1>7, <1>9 DEF Exists, Fail, Throw, Goto, Running, call, caller
<1>10. CASE FileSize
  BY <1>6, <1>7, <1>10 DEF FileSize, Fail, Throw, Goto, Running, caller
<1>11. CASE Map
  BY <1>6, <1>7, <1>11 DEF Map, Fail, Goto, Running, caller
<1>12. CASE Parse
  BY <1>6, <1>7, <1>12 DEF Parse, Throw, Goto, Running, caller
<1>13. CASE Read
  BY <1>6, <1>7, <1>13 DEF Read, Throw, Goto, Running, caller
<1>14. CASE Copy
  <2>1. Abstract!Acceptable
    <3>1. handle # NULL /\ args.source /\ args.features /\ ToSize(args.numFeatures) >= Dim
      BY <1>14 DEF Copy, Inv, ArgumentsChecked, Arguments, Running
    <3>2. args.numFeatures >= 0 => ToSize(args.numFeatures) = args.numFeatures
      BY CallTypes, Conversion DEF Inv
    <3> QED
      BY <3>1, <3>2 DEF Abstract!Acceptable
  <2>2. output \in Vectors
    BY <1>14 DEF Copy, Inv, OneContent
  <2>3. Abstract!Succeed
    BY <1>14, <2>1, <2>2 DEF Copy, End, Outside, Abstract!Succeed
  <2> QED
    BY <2>3 DEF Abstract!Next
<1>15. CASE Kill
  BY <1>15 DEF Kill, call, caller, Outside, Abstract!Next, Abstract!Die
<1>16. CASE UNCHANGED vars
  BY <1>1, <1>16 DEF vars, call, caller, Outside
<1> QED
  BY <1>2, <1>3, <1>4, <1>5, <1>8, <1>9, <1>10, <1>11, <1>12, <1>13, <1>14, <1>15, <1>16,
     <1>17 DEF Next, Killed, Abstract!Next

\* A call of the C interface is all or nothing (shared.cpp:31-118).
THEOREM Refinement == Spec => ImplementsExtractionCall
<1> QED
  BY InitRefines, StepRefines, CallInvariant, PTL DEF Spec, ImplementsExtractionCall, Abstract!Spec

-----------------------------------------------------------------------------
(* The linked list *)

\* The node of the sequence s at i, Null for a position that is not in it.
NodeAt(s, i) == IF i \in 1..Len(s) THEN s[i] ELSE Null

\* The sequence s of nodes, each of them once, is what the links p and n hold from h to t.
Linked(s, h, t, p, n) ==
    /\ s \in Seq(Nodes)
    /\ \A i, j \in 1..Len(s) : s[i] = s[j] => i = j
    /\ h = NodeAt(s, 1) /\ t = NodeAt(s, Len(s))
    /\ \A i \in 1..Len(s) : p[s[i]] = NodeAt(s, i - 1) /\ n[s[i]] = NodeAt(s, i + 1)

\* The members of the list are a sequence of nodes none of which was freed.
Listed(s) ==
    /\ Linked(s, head, tail, prev, next)
    /\ size = Len(s) /\ ToSet(s) \subseteq allocated

ListInv ==
    /\ ListTypeOK
    /\ Listed(Walk(head))
    /\ ll \/ head = Null
    /\ ToSet(released) \cap allocated = {}

\* A sequence without repetition is no longer than there are nodes.
LEMMA LinkedFits ==
    ASSUME NEW s, NEW h, NEW t, NEW p, NEW n, Linked(s, h, t, p, n)
    PROVE  /\ Cardinality(Nodes) \in Nat /\ Len(s) \in Nat /\ Len(s) <= Cardinality(Nodes)
           /\ Cardinality(ToSet(s)) = Len(s)
<1>1. /\ s \in Seq(Nodes) /\ Len(s) \in Nat /\ DOMAIN s = 1..Len(s)
      /\ \A i, j \in 1..Len(s) : s[i] = s[j] => i = j
  BY DEF Linked
<1>2. ToSet(s) \subseteq Nodes
  BY <1>1 DEF ToSet
<1>3. s \in Bijection(1..Len(s), ToSet(s))
  <2>1. s \in [1..Len(s) -> ToSet(s)]
    BY <1>1 DEF ToSet
  <2>2. s \in Injection(1..Len(s), ToSet(s))
    BY <1>1, <2>1 DEF Injection, IsInjective
  <2>3. s \in Surjection(1..Len(s), ToSet(s))
    BY <1>1, <2>1 DEF Surjection, ToSet
  <2> QED
    BY <2>2, <2>3 DEF Bijection
<1>4. IsFiniteSet(1..Len(s)) /\ Cardinality(1..Len(s)) = Len(s)
  BY <1>1, FS_Interval
<1>5. Cardinality(ToSet(s)) = Len(s)
  BY <1>3, <1>4, FS_Bijection DEF ExistsBijection
<1>6. Cardinality(Nodes) \in Nat /\ Cardinality(ToSet(s)) <= Cardinality(Nodes)
  BY <1>2, ListAssumption, FS_CardinalityType, FS_Subset
<1> QED
  BY <1>1, <1>5, <1>6

\* f has what is reached from h along the links n, step by step.
Reaches(f, n, h) ==
    f = [k \in 0..Cardinality(Nodes) |->
            IF k = 0 THEN h ELSE IF f[k - 1] = Null THEN Null ELSE n[f[k - 1]]]

\* The k-th of them.
ReachesAt(f, n, h, k) ==
    f[k] = IF k = 0 THEN h ELSE IF f[k - 1] = Null THEN Null ELSE n[f[k - 1]]

LEMMA ReachesEach ==
    ASSUME NEW f, NEW n, NEW h, Reaches(f, n, h), NEW k \in 0..Cardinality(Nodes)
    PROVE  ReachesAt(f, n, h, k)
<1> DEFINE g == [j \in 0..Cardinality(Nodes) |->
                    IF j = 0 THEN h ELSE IF f[j - 1] = Null THEN Null ELSE n[f[j - 1]]]
<1>1. g[k] = IF k = 0 THEN h ELSE IF f[k - 1] = Null THEN Null ELSE n[f[k - 1]]
  OBVIOUS
<1>2. f = g
  BY DEF Reaches
<1> HIDE DEF g
<1> QED
  BY <1>1, <1>2 DEF ReachesAt

\* There is one, of which the walk has the nodes up to the end.
LEMMA FollowOf ==
    ASSUME NEW n, NEW h, NEW g, Reaches(g, n, h)
    PROVE  \E f : /\ Reaches(f, n, h)
                  /\ Follow(n, h) = [k \in 1..Cardinality({ k \in 0..Cardinality(Nodes) : f[k] # Null })
                                       |-> f[k - 1]]
<1> DEFINE f == CHOOSE f : Reaches(f, n, h)
<1>1. Reaches(f, n, h)
  OBVIOUS
<1>2. Follow(n, h) = [k \in 1..Cardinality({ k \in 0..Cardinality(Nodes) : f[k] # Null })
                        |-> f[k - 1]]
  BY Zenon DEF Follow, Reaches
<1> QED
  BY <1>1, <1>2

\* Following the links visits the nodes of the sequence they hold, in its order.
LEMMA FollowIs ==
    ASSUME NEW s, NEW h, NEW t, NEW p, NEW n, Linked(s, h, t, p, n)
    PROVE  Follow(n, h) = s
<1> DEFINE N == Cardinality(Nodes)
           Nth(k) == NodeAt(s, k + 1)
           g == [k \in 0..N |-> Nth(k)]
<1>1. /\ N \in Nat /\ Len(s) \in Nat /\ Len(s) <= N /\ s \in Seq(Nodes)
      /\ h = Nth(0) /\ \A i \in 1..Len(s) : n[s[i]] = NodeAt(s, i + 1) /\ s[i] # Null
  BY LinkedFits, ListAssumption DEF Linked
<1> HIDE DEF N
<1>2. \A k \in 1..N : Nth(k) = IF Nth(k - 1) = Null THEN Null ELSE n[Nth(k - 1)]
  BY <1>1 DEF NodeAt
<1>3. Nth(0) = h
  BY <1>1
<1> HIDE DEF Nth
<1>4. Reaches(g, n, h)
  <2>1. g = [k \in 0..N |-> IF k = 0 THEN h ELSE IF g[k - 1] = Null THEN Null ELSE n[g[k - 1]]]
    BY <1>1, <1>2, <1>3
  <2> QED
    BY <2>1 DEF Reaches, N
<1>5. PICK f : /\ Reaches(f, n, h)
               /\ Follow(n, h) = [k \in 1..Cardinality({ k \in 0..N : f[k] # Null }) |-> f[k - 1]]
  BY <1>4, FollowOf DEF N
<1>6. \A k \in 0..N : f[k] = Nth(k)
  <2> DEFINE T == { k \in 0..N : f[k] # Nth(k) }
  <2>1. SUFFICES ASSUME T # {} PROVE FALSE
    OBVIOUS
  <2>8. T \in SUBSET Nat
    BY <1>1
  <2>2. PICK k \in T : \A j \in T : k <= j
    <3> HIDE DEF T
    <3> QED
      BY <2>1, <2>8, LeastNumber
  <2>3. k \in 0..N /\ f[k] # Nth(k)
    BY <2>2
  <2>4. f[k] = IF k = 0 THEN h ELSE IF f[k - 1] = Null THEN Null ELSE n[f[k - 1]]
    <3>1. ReachesAt(f, n, h, k)
      BY <1>5, <2>3, ReachesEach DEF N
    <3> QED
      BY <3>1 DEF ReachesAt
  <2>5. k # 0
    BY <1>3, <2>3, <2>4
  <2>6. k \in 1..N /\ k - 1 \in 0..N /\ ~(k <= k - 1)
    BY <1>1, <2>3, <2>5
  <2>7. f[k - 1] = Nth(k - 1)
    BY <2>2, <2>6
  <2> QED
    BY <1>2, <2>3, <2>4, <2>5, <2>6, <2>7
<1>7. { k \in 0..N : f[k] # Null } = 0..(Len(s) - 1)
  <2>1. \A k \in 0..N : Nth(k) # Null <=> k < Len(s)
    BY <1>1 DEF NodeAt, Nth
  <2> QED
    BY <1>1, <1>6, <2>1
<1>8. Cardinality(0..(Len(s) - 1)) = Len(s)
  <2>1. 0 \in Int /\ Len(s) - 1 \in Int
    BY <1>1
  <2>2. Cardinality(0..(Len(s) - 1)) = IF 0 > Len(s) - 1 THEN 0 ELSE (Len(s) - 1) - 0 + 1
    BY <2>1, FS_Interval
  <2> QED
    BY <1>1, <2>2
<1>9. Follow(n, h) = [k \in 1..Len(s) |-> f[k - 1]]
  BY <1>5, <1>7, <1>8
<1>10. \A k \in 1..Len(s) : f[k - 1] = s[k]
  BY <1>1, <1>6 DEF NodeAt, Nth
<1>11. s = [k \in 1..Len(s) |-> s[k]]
  BY <1>1
<1> QED
  BY <1>9, <1>10, <1>11

\* The elements of a sequence with one more at i.
LEMMA InsertedAt ==
    ASSUME NEW S, NEW s \in Seq(S), NEW e \in S, NEW i \in 1..(Len(s) + 1)
    PROVE  /\ InsertAt(s, i, e) \in Seq(S) /\ Len(InsertAt(s, i, e)) = Len(s) + 1
           /\ \A j \in 1..(Len(s) + 1) :
                InsertAt(s, i, e)[j] = IF j < i THEN s[j] ELSE IF j = i THEN e ELSE s[j - 1]
<1> DEFINE a == SubSeq(s, 1, i - 1)
           b == SubSeq(s, i, Len(s))
<1>1. Len(s) \in Nat /\ i \in Nat
  OBVIOUS
<1>2. /\ a \in Seq(S) /\ Len(a) = i - 1 /\ \A j \in 1..(i - 1) : a[j] = s[j]
      /\ b \in Seq(S) /\ Len(b) = Len(s) - i + 1 /\ \A j \in 1..Len(b) : b[j] = s[i + j - 1]
  BY <1>1, SubSeqProperties
<1>3. <<e>> \in Seq(S) /\ Len(<<e>>) = 1 /\ <<e>>[1] = e
  OBVIOUS
<1> DEFINE c == a \o <<e>>
<1>4. /\ c \in Seq(S) /\ Len(c) = i
      /\ \A j \in 1..i : c[j] = IF j < i THEN s[j] ELSE e
  <2> HIDE DEF a
  <2> QED
    BY <1>1, <1>2, <1>3, ConcatProperties
<1>5. InsertAt(s, i, e) = c \o b
  BY DEF InsertAt
<1> HIDE DEF a, b, c
<1>6. /\ c \o b \in Seq(S) /\ Len(c \o b) = Len(c) + Len(b)
      /\ \A j \in 1..(Len(c) + Len(b)) :
            (c \o b)[j] = IF j <= Len(c) THEN c[j] ELSE b[j - Len(c)]
  BY <1>2, <1>4, ConcatProperties
<1>7. ASSUME NEW j \in 1..(Len(s) + 1)
      PROVE  (c \o b)[j] = IF j < i THEN s[j] ELSE IF j = i THEN e ELSE s[j - 1]
  <2>1. (c \o b)[j] = IF j <= i THEN c[j] ELSE b[j - i]
    BY <1>1, <1>2, <1>4, <1>6
  <2>2. CASE j <= i
    BY <1>4, <2>1, <2>2
  <2>3. CASE j > i
    <3> DEFINE k == j - i
    <3>1. k \in 1..Len(b) /\ i + k - 1 = j - 1 /\ ~(j <= i) /\ ~(j < i) /\ j # i
      BY <1>1, <1>2, <2>3
    <3>2. (c \o b)[j] = b[k]
      BY <2>1, <3>1
    <3> HIDE DEF k
    <3>3. b[k] = s[i + k - 1]
      BY <1>2, <3>1
    <3> QED
      BY <3>1, <3>2, <3>3
  <2>4. j <= i \/ j > i
    BY <1>1
  <2> QED
    BY Zenon, <2>2, <2>3, <2>4
<1> QED
  BY <1>1, <1>2, <1>4, <1>5, <1>6, <1>7

\* The elements of a sequence without the one at i.
LEMMA RemovedAt ==
    ASSUME NEW S, NEW s \in Seq(S), NEW i \in 1..Len(s)
    PROVE  /\ RemoveAt(s, i) \in Seq(S) /\ Len(RemoveAt(s, i)) = Len(s) - 1
           /\ \A j \in 1..(Len(s) - 1) :
                RemoveAt(s, i)[j] = IF j < i THEN s[j] ELSE s[j + 1]
<1> DEFINE a == SubSeq(s, 1, i - 1)
           b == SubSeq(s, i + 1, Len(s))
<1>1. Len(s) \in Nat /\ i \in Nat
  OBVIOUS
<1>2. /\ a \in Seq(S) /\ Len(a) = i - 1 /\ \A j \in 1..(i - 1) : a[j] = s[j]
      /\ b \in Seq(S) /\ Len(b) = Len(s) - i /\ \A j \in 1..Len(b) : b[j] = s[i + j]
  BY <1>1, SubSeqProperties
<1>3. RemoveAt(s, i) = a \o b
  BY DEF RemoveAt
<1> HIDE DEF a, b
<1>4. /\ a \o b \in Seq(S) /\ Len(a \o b) = Len(a) + Len(b)
      /\ \A j \in 1..(Len(a) + Len(b)) :
            (a \o b)[j] = IF j <= Len(a) THEN a[j] ELSE b[j - Len(a)]
  BY <1>2, ConcatProperties
<1>5. ASSUME NEW j \in 1..(Len(s) - 1)
      PROVE  (a \o b)[j] = IF j < i THEN s[j] ELSE s[j + 1]
  <2>1. (a \o b)[j] = IF j <= i - 1 THEN a[j] ELSE b[j - (i - 1)]
    BY <1>1, <1>2, <1>4
  <2>2. CASE j < i
    BY <1>1, <1>2, <2>1, <2>2
  <2>3. CASE j >= i
    <3> DEFINE k == j - (i - 1)
    <3>1. k \in 1..Len(b) /\ i + k = j + 1 /\ ~(j <= i - 1) /\ ~(j < i)
      BY <1>1, <1>2, <2>3
    <3>2. (a \o b)[j] = b[k]
      BY <2>1, <3>1
    <3> HIDE DEF k
    <3>3. b[k] = s[i + k]
      BY <1>2, <3>1
    <3> QED
      BY <3>1, <3>2, <3>3
  <2>4. j < i \/ j >= i
    BY <1>1
  <2> QED
    BY Zenon, <2>2, <2>3, <2>4
<1> QED
  BY <1>1, <1>2, <1>3, <1>4, <1>5

\* The links of a node x put in at i, between the two nodes of which it parts the links
\* (lklist.c:124-139).
LEMMA InsertLinked ==
    ASSUME NEW s, NEW h, NEW t, NEW p, NEW n, Linked(s, h, t, p, n),
           NEW x \in Nodes \ ToSet(s), NEW i \in 1..(Len(s) + 1),
           NEW q, NEW m,
           q = [y \in Nodes |-> IF y = x THEN NodeAt(s, i - 1)
                                ELSE IF y = NodeAt(s, i) THEN x ELSE p[y]],
           m = [y \in Nodes |-> IF y = x THEN NodeAt(s, i)
                                ELSE IF y = NodeAt(s, i - 1) THEN x ELSE n[y]]
    PROVE  Linked(InsertAt(s, i, x), IF q[x] = Null THEN x ELSE h,
                  IF m[x] = Null THEN x ELSE t, q, m)
<1> DEFINE u == InsertAt(s, i, x)
<1>1. /\ s \in Seq(Nodes) /\ Len(s) \in Nat /\ i \in Nat /\ i >= 1 /\ i <= Len(s) + 1
      /\ \A j, k \in 1..Len(s) : s[j] = s[k] => j = k
      /\ h = NodeAt(s, 1) /\ t = NodeAt(s, Len(s))
  <2>1. /\ s \in Seq(Nodes) /\ h = NodeAt(s, 1) /\ t = NodeAt(s, Len(s))
        /\ \A j, k \in 1..Len(s) : s[j] = s[k] => j = k
    BY DEF Linked
  <2>2. Len(s) \in Nat
    BY <2>1
  <2> QED
    BY <2>1, <2>2
<1>2. \A j \in 1..Len(s) : s[j] \in Nodes /\ s[j] # x /\ s[j] # Null
  BY <1>1, ListAssumption DEF ToSet
<1>3. x \in Nodes /\ x # Null
  BY ListAssumption
<1>4. /\ u \in Seq(Nodes) /\ Len(u) = Len(s) + 1
      /\ \A j \in 1..(Len(s) + 1) :
            u[j] = IF j < i THEN s[j] ELSE IF j = i THEN x ELSE s[j - 1]
  BY <1>1, <1>3, InsertedAt
<1>5. /\ q[x] = NodeAt(s, i - 1) /\ m[x] = NodeAt(s, i)
      /\ \A y \in Nodes \ {x} : /\ q[y] = IF y = NodeAt(s, i) THEN x ELSE p[y]
                                /\ m[y] = IF y = NodeAt(s, i - 1) THEN x ELSE n[y]
  BY <1>3
<1>6. \A j \in 1..Len(s) : p[s[j]] = NodeAt(s, j - 1) /\ n[s[j]] = NodeAt(s, j + 1)
  BY DEF Linked
<1> HIDE DEF u
<1>7. ASSUME NEW j \in 1..Len(u), NEW k \in 1..Len(u), u[j] = u[k]
      PROVE  j = k
  <2> DEFINE back(l) == IF l < i THEN l ELSE l - 1
  <2>1. ASSUME NEW l \in 1..Len(u), l # i
        PROVE  back(l) \in 1..Len(s) /\ u[l] = s[back(l)] /\ u[l] # x
    <3>1. back(l) \in 1..Len(s) /\ u[l] = s[back(l)]
      BY <1>1, <1>4, <2>1
    <3> QED
      BY <1>2, <3>1
  <2>2. u[i] = x /\ (j = i <=> k = i)
    <3>1. u[i] = x
      BY <1>1, <1>4
    <3> QED
      BY <1>7, <2>1, <3>1
  <2>3. CASE j # i
    <3>1. back(j) = back(k)
      BY <1>1, <1>7, <2>1, <2>2, <2>3
    <3> QED
      BY <1>1, <1>4, <2>2, <2>3, <3>1
  <2> QED
    BY <2>2, <2>3
<1>8. (IF q[x] = Null THEN x ELSE h) = NodeAt(u, 1)
  BY <1>1, <1>2, <1>4, <1>5 DEF NodeAt
<1>9. (IF m[x] = Null THEN x ELSE t) = NodeAt(u, Len(u))
  BY <1>1, <1>2, <1>4, <1>5 DEF NodeAt
<1>10. ASSUME NEW j \in 1..Len(u)
       PROVE  q[u[j]] = NodeAt(u, j - 1) /\ m[u[j]] = NodeAt(u, j + 1)
  <2>1. CASE j = i
    BY <1>1, <1>4, <1>5, <2>1 DEF NodeAt
  <2>2. CASE j < i
    <3>1. u[j] = s[j] /\ j \in 1..Len(s) /\ s[j] \in Nodes \ {x}
      BY <1>1, <1>2, <1>4, <2>2
    <3>2. s[j] # NodeAt(s, i) /\ (s[j] = NodeAt(s, i - 1) <=> j = i - 1)
      BY <1>1, <1>2, <2>2, <3>1 DEF NodeAt
    <3>3. q[s[j]] = NodeAt(s, j - 1) /\ m[s[j]] = IF j = i - 1 THEN x ELSE NodeAt(s, j + 1)
      BY <1>5, <1>6, <3>1, <3>2
    <3>4. NodeAt(u, j - 1) = NodeAt(s, j - 1)
      BY <1>1, <1>4, <2>2, <3>1 DEF NodeAt
    <3>5. NodeAt(u, j + 1) = IF j = i - 1 THEN x ELSE NodeAt(s, j + 1)
      BY <1>1, <1>4, <2>2, <3>1 DEF NodeAt
    <3> QED
      BY <3>1, <3>3, <3>4, <3>5
  <2>3. CASE j > i
    <3>1. u[j] = s[j - 1] /\ j - 1 \in 1..Len(s) /\ s[j - 1] \in Nodes \ {x}
      BY <1>1, <1>2, <1>4, <2>3
    <3>2. s[j - 1] # NodeAt(s, i - 1) /\ (s[j - 1] = NodeAt(s, i) <=> j = i + 1)
      BY <1>1, <1>2, <2>3, <3>1 DEF NodeAt
    <3>3. m[s[j - 1]] = NodeAt(s, j) /\ q[s[j - 1]] = IF j = i + 1 THEN x ELSE NodeAt(s, j - 2)
      <4>1. n[s[j - 1]] = NodeAt(s, (j - 1) + 1) /\ p[s[j - 1]] = NodeAt(s, (j - 1) - 1)
        BY <1>6, <3>1
      <4>2. (j - 1) + 1 = j /\ (j - 1) - 1 = j - 2
        BY <3>1
      <4> QED
        BY <1>5, <3>1, <3>2, <4>1, <4>2
    <3>4. NodeAt(u, j + 1) = NodeAt(s, j)
      BY <1>1, <1>4, <2>3, <3>1 DEF NodeAt
    <3>5. NodeAt(u, j - 1) = IF j = i + 1 THEN x ELSE NodeAt(s, j - 2)
      BY <1>1, <1>4, <2>3, <3>1 DEF NodeAt
    <3> QED
      BY <3>1, <3>3, <3>4, <3>5
  <2>4. j = i \/ j < i \/ j > i
    BY <1>1, <1>4
  <2> QED
    BY Zenon, <2>1, <2>2, <2>3, <2>4
<1> QED
  BY <1>4, <1>7, <1>8, <1>9, <1>10 DEF Linked, u

\* The links around the node at i when it is taken out (lklist.c:151-172).
LEMMA RemoveLinked ==
    ASSUME NEW s, NEW h, NEW t, NEW p, NEW n, Linked(s, h, t, p, n),
           NEW i \in 1..Len(s), NEW q, NEW m,
           q = [y \in Nodes |-> IF y = n[s[i]] THEN p[s[i]]
                                ELSE IF y = s[i] THEN Null ELSE p[y]],
           m = [y \in Nodes |-> IF y = p[s[i]] THEN n[s[i]]
                                ELSE IF y = s[i] THEN Null ELSE n[y]]
    PROVE  Linked(RemoveAt(s, i), IF p[s[i]] = Null THEN n[s[i]] ELSE h,
                  IF n[s[i]] = Null THEN p[s[i]] ELSE t, q, m)
<1> DEFINE u == RemoveAt(s, i)
<1>1. /\ s \in Seq(Nodes) /\ Len(s) \in Nat /\ i \in Nat /\ i >= 1 /\ i <= Len(s)
      /\ \A j, k \in 1..Len(s) : s[j] = s[k] => j = k
      /\ h = NodeAt(s, 1) /\ t = NodeAt(s, Len(s))
  BY DEF Linked
<1>2. \A j \in 1..Len(s) : s[j] \in Nodes /\ s[j] # Null
  BY <1>1, ListAssumption
<1>3. \A j \in 1..Len(s) : p[s[j]] = NodeAt(s, j - 1) /\ n[s[j]] = NodeAt(s, j + 1)
  BY DEF Linked
<1>4. /\ u \in Seq(Nodes) /\ Len(u) = Len(s) - 1
      /\ \A j \in 1..(Len(s) - 1) : u[j] = IF j < i THEN s[j] ELSE s[j + 1]
  BY <1>1, RemovedAt
<1>5. \A y \in Nodes \ {s[i]} : /\ q[y] = IF y = NodeAt(s, i + 1) THEN NodeAt(s, i - 1) ELSE p[y]
                                /\ m[y] = IF y = NodeAt(s, i - 1) THEN NodeAt(s, i + 1) ELSE n[y]
  BY <1>3
<1> HIDE DEF u
<1>6. ASSUME NEW j \in 1..Len(u), NEW k \in 1..Len(u), u[j] = u[k]
      PROVE  j = k
  BY <1>1, <1>4, <1>6
<1>7. (IF p[s[i]] = Null THEN n[s[i]] ELSE h) = NodeAt(u, 1)
  BY <1>1, <1>2, <1>3, <1>4 DEF NodeAt
<1>8. (IF n[s[i]] = Null THEN p[s[i]] ELSE t) = NodeAt(u, Len(u))
  <2>1. n[s[i]] = NodeAt(s, i + 1) /\ p[s[i]] = NodeAt(s, i - 1)
    BY <1>1, <1>3
  <2>2. CASE i = Len(s)
    <3>1. n[s[i]] = Null
      BY <1>1, <2>1, <2>2 DEF NodeAt
    <3>2. NodeAt(u, Len(u)) = NodeAt(s, i - 1)
      BY <1>1, <1>4, <2>2 DEF NodeAt
    <3> QED
      BY <2>1, <3>1, <3>2
  <2>3. CASE i # Len(s)
    <3>1. n[s[i]] # Null
      BY <1>1, <1>2, <2>1, <2>3 DEF NodeAt
    <3>2. NodeAt(u, Len(u)) = NodeAt(s, Len(s))
      BY <1>1, <1>4, <2>3 DEF NodeAt
    <3> QED
      BY <1>1, <3>1, <3>2
  <2> QED
    BY <2>2, <2>3
<1>9. ASSUME NEW j \in 1..Len(u)
      PROVE  q[u[j]] = NodeAt(u, j - 1) /\ m[u[j]] = NodeAt(u, j + 1)
  <2>1. CASE j < i
    <3>1. u[j] = s[j] /\ j \in 1..Len(s) /\ s[j] \in Nodes \ {s[i]}
      BY <1>1, <1>2, <1>4, <2>1
    <3>2. s[j] # NodeAt(s, i + 1) /\ (s[j] = NodeAt(s, i - 1) <=> j = i - 1)
      BY <1>1, <1>2, <2>1, <3>1 DEF NodeAt
    <3>3. /\ q[s[j]] = NodeAt(s, j - 1)
          /\ m[s[j]] = IF j = i - 1 THEN NodeAt(s, i + 1) ELSE NodeAt(s, j + 1)
      BY <1>3, <1>5, <3>1, <3>2
    <3>4. NodeAt(u, j - 1) = NodeAt(s, j - 1)
      BY <1>1, <1>4, <2>1, <3>1 DEF NodeAt
    <3>5. NodeAt(u, j + 1) = IF j = i - 1 THEN NodeAt(s, i + 1) ELSE NodeAt(s, j + 1)
      BY <1>1, <1>4, <2>1, <3>1 DEF NodeAt
    <3> QED
      BY <3>1, <3>3, <3>4, <3>5
  <2>2. CASE j >= i
    <3>1. u[j] = s[j + 1] /\ j + 1 \in 1..Len(s) /\ s[j + 1] \in Nodes \ {s[i]}
      BY <1>1, <1>2, <1>4, <2>2
    <3>2. s[j + 1] # NodeAt(s, i - 1) /\ (s[j + 1] = NodeAt(s, i + 1) <=> j = i)
      BY <1>1, <1>2, <2>2, <3>1 DEF NodeAt
    <3>3. /\ m[s[j + 1]] = NodeAt(s, j + 2)
          /\ q[s[j + 1]] = IF j = i THEN NodeAt(s, i - 1) ELSE NodeAt(s, j)
      <4>1. n[s[j + 1]] = NodeAt(s, (j + 1) + 1) /\ p[s[j + 1]] = NodeAt(s, (j + 1) - 1)
        BY <1>3, <3>1
      <4>2. (j + 1) + 1 = j + 2 /\ (j + 1) - 1 = j
        BY <3>1
      <4> QED
        BY <1>5, <3>1, <3>2, <4>1, <4>2
    <3>4. NodeAt(u, j + 1) = NodeAt(s, j + 2)
      BY <1>1, <1>4, <2>2, <3>1 DEF NodeAt
    <3>5. NodeAt(u, j - 1) = IF j = i THEN NodeAt(s, i - 1) ELSE NodeAt(s, j)
      BY <1>1, <1>4, <2>2, <3>1 DEF NodeAt
    <3> QED
      BY <3>1, <3>3, <3>4, <3>5
  <2>3. j < i \/ j >= i
    BY <1>1, <1>4
  <2> QED
    BY Zenon, <2>1, <2>2, <2>3
<1> QED
  BY <1>4, <1>6, <1>7, <1>8, <1>9 DEF Linked, u

-----------------------------------------------------------------------------
(* The steps *)

\* The empty sequence is linked from Null to Null.
LEMMA EmptyLinked ==
    ASSUME NEW p, NEW n
    PROVE  Linked(<<>>, Null, Null, p, n)
BY DEF Linked, NodeAt

\* A step to members that hold the sequence s.
LEMMA StepTo ==
    ASSUME ListTypeOK', NEW s, Linked(s, head', tail', prev', next'),
           size' = Len(s), ToSet(s) \subseteq allocated',
           ll' \/ head' = Null, ToSet(released') \cap allocated' = {}
    PROVE  ListInv' /\ Walk(head)' = s
<1>1. Walk(head)' = s
  BY FollowIs DEF Walk
<1>2. (Listed(Walk(head)))'
  BY <1>1 DEF Listed
<1> QED
  BY <1>1, <1>2 DEF ListInv

\* What the members hold.
LEMMA InvIs ==
    ASSUME ListInv, NEW s, s = Walk(head)
    PROVE  /\ Linked(s, head, tail, prev, next) /\ size = Len(s) /\ ToSet(s) \subseteq allocated
           /\ s \in Seq(Nodes) /\ InList = ToSet(s) /\ Len(s) \in Nat
           /\ \A i \in 1..Len(s) : s[i] \in Nodes /\ s[i] # Null /\ s[i] \in allocated
           /\ head = NodeAt(s, 1) /\ tail = NodeAt(s, Len(s))
           /\ \A i \in 1..Len(s) : prev[s[i]] = NodeAt(s, i - 1) /\ next[s[i]] = NodeAt(s, i + 1)
           /\ \A i, j \in 1..Len(s) : s[i] = s[j] => i = j
<1>1. Linked(s, head, tail, prev, next) /\ size = Len(s) /\ ToSet(s) \subseteq allocated
  BY DEF ListInv, Listed
<1>2. /\ s \in Seq(Nodes) /\ InList = ToSet(s)
      /\ head = NodeAt(s, 1) /\ tail = NodeAt(s, Len(s))
      /\ \A i \in 1..Len(s) : prev[s[i]] = NodeAt(s, i - 1) /\ next[s[i]] = NodeAt(s, i + 1)
      /\ \A i, j \in 1..Len(s) : s[i] = s[j] => i = j
  BY <1>1 DEF Linked, InList
<1>3. \A i \in 1..Len(s) : s[i] \in Nodes /\ s[i] # Null /\ s[i] \in allocated
  BY <1>1, <1>2, ListAssumption DEF ToSet
<1>4. Len(s) \in Nat
  BY <1>2
<1> QED
  BY <1>1, <1>2, <1>3, <1>4

\* The members of a sequence with one more, or one less.
LEMMA MembersInserted ==
    ASSUME NEW S, NEW s \in Seq(S), NEW e \in S, NEW i \in 1..(Len(s) + 1)
    PROVE  ToSet(InsertAt(s, i, e)) = ToSet(s) \cup {e}
<1> DEFINE u == InsertAt(s, i, e)
<1>1. /\ u \in Seq(S) /\ Len(u) = Len(s) + 1 /\ Len(s) \in Nat /\ i \in Nat
      /\ \A j \in 1..(Len(s) + 1) : u[j] = IF j < i THEN s[j] ELSE IF j = i THEN e ELSE s[j - 1]
  BY InsertedAt
<1> HIDE DEF u
<1>2. ASSUME NEW j \in 1..Len(u) PROVE u[j] \in ToSet(s) \cup {e}
  <2>1. u[j] = e \/ \E k \in 1..Len(s) : u[j] = s[k]
    <3>1. CASE j < i
      BY <1>1, <3>1
    <3>2. CASE j > i
      <4>1. j - 1 \in 1..Len(s) /\ u[j] = s[j - 1]
        BY <1>1, <3>2
      <4> QED
        BY <4>1
    <3> QED
      BY <1>1, <3>1, <3>2
  <2> QED
    BY <1>1, <2>1 DEF ToSet
<1>3. e \in ToSet(u)
  BY <1>1 DEF ToSet
<1>4. ASSUME NEW j \in 1..Len(s) PROVE s[j] \in ToSet(u)
  <2>1. CASE j < i
    <3>1. u[j] = s[j] /\ j \in 1..Len(u)
      BY <1>1, <2>1
    <3>2. DOMAIN u = 1..Len(u)
      BY <1>1
    <3> QED
      BY <3>1, <3>2 DEF ToSet
  <2>2. CASE ~(j < i)
    <3>1. u[j + 1] = s[j] /\ j + 1 \in 1..Len(u)
      BY <1>1, <2>2
    <3> QED
      BY <1>1, <3>1 DEF ToSet
  <2> QED
    BY <2>1, <2>2
<1>5. /\ \A y \in ToSet(u) : \E j \in 1..Len(u) : y = u[j]
      /\ \A y \in ToSet(s) : \E j \in 1..Len(s) : y = s[j]
  BY <1>1 DEF ToSet
<1> QED
  BY <1>2, <1>3, <1>4, <1>5 DEF u

LEMMA MembersRemoved ==
    ASSUME NEW S, NEW s \in Seq(S), NEW i \in 1..Len(s),
           \A j, k \in 1..Len(s) : s[j] = s[k] => j = k
    PROVE  ToSet(RemoveAt(s, i)) = ToSet(s) \ {s[i]}
<1> DEFINE u == RemoveAt(s, i)
<1>1. /\ u \in Seq(S) /\ Len(u) = Len(s) - 1 /\ Len(s) \in Nat /\ i \in Nat
      /\ \A j \in 1..(Len(s) - 1) : u[j] = IF j < i THEN s[j] ELSE s[j + 1]
  BY RemovedAt
<1> HIDE DEF u
<1>2. ASSUME NEW j \in 1..Len(u) PROVE u[j] \in ToSet(s) \ {s[i]}
  <2> DEFINE k == IF j < i THEN j ELSE j + 1
  <2>1. u[j] = s[k] /\ k \in 1..Len(s) /\ k # i
    BY <1>1
  <2> HIDE DEF k
  <2> QED
    BY <1>1, <2>1 DEF ToSet
<1>3. ASSUME NEW j \in 1..Len(s), j # i PROVE s[j] \in ToSet(u)
  <2>1. CASE j < i
    <3>1. u[j] = s[j] /\ j \in 1..Len(u)
      BY <1>1, <2>1
    <3> QED
      BY <1>1, <3>1 DEF ToSet
  <2>2. CASE ~(j < i)
    <3>1. u[j - 1] = s[j] /\ j - 1 \in 1..Len(u)
      BY <1>1, <1>3, <2>2
    <3> QED
      BY <1>1, <3>1 DEF ToSet
  <2> QED
    BY <2>1, <2>2
<1>4. /\ \A y \in ToSet(u) : \E j \in 1..Len(u) : y = u[j]
      /\ \A y \in ToSet(s) : \E j \in 1..Len(s) : y = s[j]
  BY <1>1 DEF ToSet
<1> QED
  BY <1>2, <1>3, <1>4 DEF u

\* lkInsert puts one new node into the sequence, before the node given or at the end.
LEMMA InsertStep ==
    ASSUME ListInv, NEW where \in InList \cup {Null}, NEW v \in Data, lkInsert(where, v)
    PROVE  \E i \in 1..(Len(Walk(head)) + 1), x \in Nodes \ allocated :
              /\ Walk(head)' = InsertAt(Walk(head), i, x) /\ x \notin ToSet(Walk(head))
              /\ data' = [data EXCEPT ![x] = v] /\ allocated' = allocated \cup {x}
              /\ ListInv'
<1> DEFINE s == Walk(head)
<1>1. /\ Linked(s, head, tail, prev, next) /\ size = Len(s) /\ ToSet(s) \subseteq allocated
      /\ s \in Seq(Nodes) /\ InList = ToSet(s) /\ Len(s) \in Nat
      /\ \A i \in 1..Len(s) : s[i] \in Nodes /\ s[i] # Null
      /\ head = NodeAt(s, 1) /\ tail = NodeAt(s, Len(s))
      /\ \A i \in 1..Len(s) : prev[s[i]] = NodeAt(s, i - 1) /\ next[s[i]] = NodeAt(s, i + 1)
  BY InvIs
<1>2. PICK x \in Nodes \ allocated :
         /\ allocated' = allocated \cup {x} /\ data' = [data EXCEPT ![x] = v]
         /\ InsertLinks(x, where)
         /\ tail' = IF next'[x] = Null THEN x ELSE tail
         /\ head' = IF prev'[x] = Null THEN x ELSE head
  BY DEF lkInsert
<1>3. /\ ll /\ ~crashed /\ size' = size + 1 /\ released' = <<>>
      /\ UNCHANGED <<ll, crashed>>
  BY DEF lkInsert
<1> HIDE DEF s
<1>4. x \in Nodes \ ToSet(s) /\ x # Null /\ x \notin allocated
  BY <1>1, ListAssumption
<1>5. PICK i \in 1..(Len(s) + 1) : where = NodeAt(s, i)
  <2>1. CASE where = Null
    <3>1. Len(s) + 1 \in 1..(Len(s) + 1) /\ Len(s) + 1 \notin 1..Len(s)
      BY <1>1
    <3> QED
      BY <2>1, <3>1 DEF NodeAt
  <2>2. CASE where \in ToSet(s)
    <3>1. PICK i \in 1..Len(s) : where = s[i]
      BY <1>1, <2>2 DEF ToSet
    <3>2. i \in 1..(Len(s) + 1)
      BY <1>1
    <3> QED
      BY <3>1, <3>2 DEF NodeAt
  <2> QED
    BY <1>1, <2>1, <2>2
<1>6. /\ head = Null <=> Len(s) = 0
      /\ where = Null <=> i = Len(s) + 1
  BY <1>1, <1>5 DEF NodeAt
<1>7. /\ (IF head = Null THEN Null ELSE IF where = Null THEN tail ELSE prev[where])
             = NodeAt(s, i - 1)
      /\ (IF head = Null THEN Null ELSE where) = NodeAt(s, i)
  <2>1. CASE head = Null
    BY <1>1, <1>5, <1>6, <2>1 DEF NodeAt
  <2>2. CASE head # Null /\ where = Null
    <3>1. i - 1 = Len(s)
      BY <1>1, <1>6, <2>2
    <3> QED
      BY <1>1, <1>5, <2>2, <3>1
  <2>3. CASE head # Null /\ where # Null
    <3>1. i \in 1..Len(s) /\ where = s[i]
      BY <1>1, <1>5, <1>6, <2>3 DEF NodeAt
    <3> QED
      BY <1>1, <1>5, <2>3, <3>1
  <2> QED
    BY <2>1, <2>2, <2>3
<1>8. /\ prev' = [y \in Nodes |-> IF y = x THEN NodeAt(s, i - 1)
                                  ELSE IF y = NodeAt(s, i) THEN x ELSE prev[y]]
      /\ next' = [y \in Nodes |-> IF y = x THEN NodeAt(s, i)
                                  ELSE IF y = NodeAt(s, i - 1) THEN x ELSE next[y]]
  BY <1>2, <1>7, Zenon DEF InsertLinks
<1> DEFINE u == InsertAt(s, i, x)
<1>9. Linked(u, head', tail', prev', next')
  <2>1. Linked(u, IF prev'[x] = Null THEN x ELSE head, IF next'[x] = Null THEN x ELSE tail,
               prev', next')
    BY <1>1, <1>4, <1>8, InsertLinked
  <2> QED
    BY <1>2, <2>1
<1>10. Len(u) = Len(s) + 1 /\ ToSet(u) = ToSet(s) \cup {x}
  BY <1>1, <1>4, InsertedAt, MembersInserted
<1>11. Len(u) <= Cardinality(Nodes) /\ Cardinality(Nodes) \in Nat
  <2> HIDE DEF u
  <2> QED
    BY <1>9, LinkedFits
<1> HIDE DEF u
<1>12. ListTypeOK'
  <2>1. ListTypeOK
    BY DEF ListInv
  <2>2. NodeAt(s, i - 1) \in Nodes \cup {Null} /\ NodeAt(s, i) \in Nodes \cup {Null}
    BY <1>1 DEF NodeAt
  <2>3. /\ prev' \in [Nodes -> Nodes \cup {Null}] /\ next' \in [Nodes -> Nodes \cup {Null}]
    BY <1>4, <1>8, <2>1, <2>2 DEF ListTypeOK
  <2>4. size' \in 0..Cardinality(Nodes)
    BY <1>1, <1>3, <1>10, <1>11
  <2>5. data' \in [Nodes -> Data \cup {Null}] /\ allocated' \subseteq Nodes
    BY <1>2, <2>1 DEF ListTypeOK
  <2>6. head' \in Nodes \cup {Null} /\ tail' \in Nodes \cup {Null}
    BY <1>2, <2>1 DEF ListTypeOK
  <2>7. released' \in Seq(Nodes) /\ ll' \in BOOLEAN /\ crashed' \in BOOLEAN
    BY <1>3, <2>1 DEF ListTypeOK
  <2> QED
    BY <2>3, <2>4, <2>5, <2>6, <2>7 DEF ListTypeOK
<1>13. /\ size' = Len(u) /\ ToSet(u) \subseteq allocated'
       /\ ll' \/ head' = Null
       /\ ToSet(released') \cap allocated' = {}
  <2>1. ToSet(released') = {}
    BY <1>3 DEF ToSet
  <2> QED
    BY <1>1, <1>2, <1>3, <1>10, <2>1
<1>14. ListInv' /\ Walk(head)' = u
  BY <1>9, <1>12, <1>13, StepTo
<1> QED
  BY <1>2, <1>4, <1>14 DEF s, u

\* lkRemove takes the node given out of the sequence and frees it.
LEMMA RemoveStep ==
    ASSUME ListInv, NEW which \in InList, lkRemove(which)
    PROVE  \E i \in DOMAIN Walk(head) :
              /\ which = Walk(head)[i] /\ Walk(head)' = RemoveAt(Walk(head), i)
              /\ ToSet(Walk(head))' = ToSet(Walk(head)) \ {which}
              /\ ListInv'
<1> DEFINE s == Walk(head)
<1>1. /\ Linked(s, head, tail, prev, next) /\ size = Len(s) /\ ToSet(s) \subseteq allocated
      /\ s \in Seq(Nodes) /\ InList = ToSet(s) /\ Len(s) \in Nat
      /\ \A i \in 1..Len(s) : s[i] \in Nodes /\ s[i] # Null
      /\ \A i \in 1..Len(s) : prev[s[i]] = NodeAt(s, i - 1) /\ next[s[i]] = NodeAt(s, i + 1)
      /\ \A i, j \in 1..Len(s) : s[i] = s[j] => i = j
  BY InvIs
<1>2. /\ head' = IF prev[which] = Null THEN next[which] ELSE head
      /\ tail' = IF next[which] = Null THEN prev[which] ELSE tail
      /\ next' = [y \in Nodes |-> IF y = prev[which] THEN next[which]
                                  ELSE IF y = which THEN Null ELSE next[y]]
      /\ prev' = [y \in Nodes |-> IF y = next[which] THEN prev[which]
                                  ELSE IF y = which THEN Null ELSE prev[y]]
  BY Zenon DEF lkRemove, TailAfter
<1>3. /\ ll /\ data' = [data EXCEPT ![which] = Null] /\ released' = <<which>>
      /\ allocated' = allocated \ {which} /\ size' = size - 1 /\ UNCHANGED <<ll, crashed>>
  BY DEF lkRemove
<1> HIDE DEF s
<1>4. PICK i \in 1..Len(s) : which = s[i]
  BY <1>1 DEF ToSet
<1> DEFINE u == RemoveAt(s, i)
<1>5. Linked(u, head', tail', prev', next')
  <2>1. Linked(u, IF prev[s[i]] = Null THEN next[s[i]] ELSE head,
               IF next[s[i]] = Null THEN prev[s[i]] ELSE tail, prev', next')
    BY <1>1, <1>2, <1>4, RemoveLinked
  <2> QED
    BY <1>2, <1>4, <2>1
<1>6. Len(u) = Len(s) - 1 /\ ToSet(u) = ToSet(s) \ {which}
  BY <1>1, <1>4, RemovedAt, MembersRemoved
<1>7. Len(u) <= Cardinality(Nodes) /\ Cardinality(Nodes) \in Nat /\ Len(u) \in Nat
  BY <1>5, LinkedFits
<1> HIDE DEF u
<1>8. which \in Nodes /\ which # Null
  BY <1>1, <1>4
<1>9. ListTypeOK'
  <2>1. ListTypeOK
    BY DEF ListInv
  <2>2. prev[which] \in Nodes \cup {Null} /\ next[which] \in Nodes \cup {Null}
    BY <1>8, <2>1 DEF ListTypeOK
  <2>3. /\ prev' \in [Nodes -> Nodes \cup {Null}] /\ next' \in [Nodes -> Nodes \cup {Null}]
    BY <1>2, <2>1, <2>2 DEF ListTypeOK
  <2>4. size' \in 0..Cardinality(Nodes)
    BY <1>1, <1>3, <1>6, <1>7
  <2>5. data' \in [Nodes -> Data \cup {Null}] /\ allocated' \subseteq Nodes
    BY <1>3, <2>1 DEF ListTypeOK
  <2>6. head' \in Nodes \cup {Null} /\ tail' \in Nodes \cup {Null}
    BY <1>2, <2>1, <2>2 DEF ListTypeOK
  <2>7. released' \in Seq(Nodes) /\ ll' \in BOOLEAN /\ crashed' \in BOOLEAN
    BY <1>3, <1>8, <2>1 DEF ListTypeOK
  <2> QED
    BY <2>3, <2>4, <2>5, <2>6, <2>7 DEF ListTypeOK
<1>10. /\ size' = Len(u) /\ ToSet(u) \subseteq allocated'
       /\ ll' \/ head' = Null
       /\ ToSet(released') \cap allocated' = {}
  <2>1. ToSet(released') = {which}
    BY <1>3 DEF ToSet
  <2> QED
    BY <1>1, <1>3, <1>6, <2>1
<1>11. ListInv' /\ Walk(head)' = u
  BY <1>5, <1>9, <1>10, StepTo
<1>12. DOMAIN s = 1..Len(s)
  BY <1>1
<1> QED
  BY <1>4, <1>6, <1>11, <1>12 DEF s, u

\* The calls that leave the members and the links alone leave the sequence alone.
LEMMA QuietListStep ==
    ASSUME ListInv, ListTypeOK', UNCHANGED <<list, links, allocated>>,
           ll' \/ head' = Null, ToSet(released') \cap allocated' = {}
    PROVE  ListInv' /\ Walk(head)' = Walk(head)
<1> DEFINE s == Walk(head)
<1>1. Linked(s, head, tail, prev, next) /\ size = Len(s) /\ ToSet(s) \subseteq allocated
  BY InvIs
<1> HIDE DEF s
<1>2. Linked(s, head', tail', prev', next') /\ size' = Len(s) /\ ToSet(s) \subseteq allocated'
  BY <1>1 DEF list, links
<1> QED
  BY <1>2, StepTo DEF s

\* lkClear and lkDestroy leave an empty list.
LEMMA ClearStep ==
    ASSUME ListInv, Clear, ll' \in BOOLEAN
    PROVE  ListInv' /\ Walk(head)' = <<>>
<1> DEFINE s == Walk(head)
<1>1. ListTypeOK /\ s \in Seq(Nodes) /\ Len(s) \in Nat
  BY InvIs DEF ListInv
<1>2. Cleared \in Seq(Nodes)
  <2>1. \A i \in 2..(Len(s) - 1) : s[i] \in Nodes
    BY <1>1
  <2>2. 2 \in Int /\ Len(s) - 1 \in Int
    BY <1>1
  <2> HIDE DEF s
  <2>3. SubSeq(s, 2, Len(s) - 1) \in Seq(Nodes)
    BY <2>1, <2>2, SubSeqProperties
  <2> QED
    BY <2>3 DEF Cleared, s
<1>3. ListTypeOK'
  <2>1. Cardinality(Nodes) \in Nat
    BY ListAssumption, FS_CardinalityType
  <2> QED
    <3>1. /\ head' = Null /\ tail' = Null /\ size' = 0 /\ crashed' = crashed
          /\ released' = Cleared /\ allocated' = allocated \ ToSet(Cleared)
          /\ prev' = [x \in Nodes |-> Null] /\ next' = [x \in Nodes |-> Null]
          /\ data' = [x \in Nodes |-> Null]
      BY DEF Clear
    <3>2. 0 \in 0..Cardinality(Nodes)
      BY <2>1
    <3> QED
      BY <1>1, <1>2, <3>1, <3>2 DEF ListTypeOK
<1>4. Linked(<<>>, head', tail', prev', next') /\ size' = 0 /\ head' = Null
  BY EmptyLinked DEF Clear
<1>5. ToSet(<<>>) = {} /\ Len(<<>>) = 0
  BY DEF ToSet
<1>6. ToSet(released') \cap allocated' = {}
  BY DEF Clear
<1> QED
  BY <1>3, <1>4, <1>5, <1>6, StepTo

\* An empty list is one without a head.
LEMMA HeadIsNull ==
    ASSUME ListInv, head = Null
    PROVE  Walk(head) = <<>> /\ tail = Null /\ size = 0
<1> DEFINE s == Walk(head)
<1>1. /\ s \in Seq(Nodes) /\ Len(s) \in Nat /\ size = Len(s)
      /\ \A i \in 1..Len(s) : s[i] # Null
      /\ head = NodeAt(s, 1) /\ tail = NodeAt(s, Len(s))
  BY InvIs
<1> HIDE DEF s
<1>2. Len(s) = 0
  BY <1>1 DEF NodeAt
<1>3. s = <<>>
  BY <1>1, <1>2
<1>4. tail = Null
  BY <1>1, <1>2 DEF NodeAt
<1> QED
  BY <1>1, <1>2, <1>3, <1>4 DEF s

\* Before there is a list there is nothing.
LEMMA ListInitInv == ListInit => ListInv /\ Walk(head) = <<>>
<1> SUFFICES ASSUME ListInit PROVE ListInv /\ Walk(head) = <<>>
  OBVIOUS
<1>1. Linked(<<>>, head, tail, prev, next)
  BY EmptyLinked DEF ListInit
<1>2. Walk(head) = <<>>
  BY <1>1, FollowIs DEF Walk
<1>3. ToSet(<<>>) = {} /\ Len(<<>>) = 0
  BY DEF ToSet
<1>4. ListTypeOK
  <2>1. Cardinality(Nodes) \in Nat
    BY ListAssumption, FS_CardinalityType
  <2>2. size \in 0..Cardinality(Nodes)
    BY <2>1 DEF ListInit
  <2>3. released \in Seq(Nodes)
    BY DEF ListInit
  <2> QED
    BY <2>2, <2>3 DEF ListInit, ListTypeOK
<1>5. Listed(Walk(head))
  BY <1>1, <1>2, <1>3 DEF Listed, ListInit
<1> QED
  BY <1>2, <1>3, <1>4, <1>5 DEF ListInv, ListInit

\* The process ends in a call that finds no memory.
NoMemory == lkInsertNoMemory \/ lkCopyToNewArrayNoMemory

\* It changes nothing in the list.
LEMMA NoMemoryStep ==
    ASSUME NoMemory
    PROVE  /\ UNCHANGED <<ll, list, links, data, allocated>>
           /\ crashed' = TRUE /\ released' = <<>>
BY DEF NoMemory, lkInsertNoMemory, lkCopyToNewArrayNoMemory, WriteToNull

\* lkInit, lkInsert without memory and lkSetNodeData, and a step of nobody.
LEMMA QuietSteps ==
    ASSUME ListInv,
           \/ lkInit \/ NoMemory \/ UNCHANGED listVars
           \/ \E x \in InList, v \in Data : lkSetNodeData(x, v)
    PROVE  /\ ListInv' /\ Walk(head)' = Walk(head) /\ allocated' = allocated
           /\ ToSet(released') \cap allocated' = {}
<1>1. /\ ListTypeOK /\ (ll \/ head = Null) /\ ToSet(released) \cap allocated = {}
      /\ ToSet(<<>>) = {} /\ <<>> \in Seq(Nodes)
  BY DEF ListInv, ToSet
<1>2. CASE lkInit
  <2>1. /\ ll' = TRUE /\ head' = Null /\ tail' = Null /\ size' = 0 /\ released' = <<>>
        /\ UNCHANGED <<links, data, allocated, crashed>>
    BY <1>2 DEF lkInit
  <2>2. head = Null /\ tail = Null /\ size = 0
    BY <1>1, <1>2, HeadIsNull DEF lkInit
  <2>3. UNCHANGED <<list, links, allocated>>
    BY <2>1, <2>2 DEF list
  <2>4. ListTypeOK'
    BY <1>1, <2>1, <2>2 DEF ListTypeOK, links
  <2> QED
    BY <1>1, <2>1, <2>3, <2>4, QuietListStep
<1>3. CASE NoMemory
  <2>1. /\ UNCHANGED <<ll, list, links, data, allocated>>
        /\ crashed' = TRUE /\ released' = <<>>
    BY <1>3, NoMemoryStep
  <2>2. ListTypeOK'
    BY <1>1, <2>1 DEF ListTypeOK, list, links
  <2>3. (ll' \/ head' = Null) /\ ToSet(released') \cap allocated' = {}
    BY <1>1, <2>1 DEF list
  <2> QED
    BY <2>1, <2>2, <2>3, QuietListStep
<1>4. CASE \E x \in InList, v \in Data : lkSetNodeData(x, v)
  <2>1. PICK x \in InList, v \in Data : lkSetNodeData(x, v)
    BY <1>4
  <2>2. /\ data' = [data EXCEPT ![x] = v] /\ released' = <<>>
        /\ UNCHANGED <<ll, list, links, allocated, crashed>>
    BY <2>1 DEF lkSetNodeData
  <2>3. ListTypeOK'
    BY <1>1, <2>2 DEF ListTypeOK, list, links
  <2>4. (ll' \/ head' = Null) /\ ToSet(released') \cap allocated' = {}
    BY <1>1, <2>2 DEF list
  <2> QED
    BY <2>2, <2>3, <2>4, QuietListStep
<1>5. CASE UNCHANGED listVars
  <2>1. UNCHANGED <<ll, list, links, data, allocated, released, crashed>>
    BY <1>5 DEF listVars
  <2>2. ListTypeOK'
    BY <1>1, <2>1 DEF ListTypeOK, list, links
  <2>3. (ll' \/ head' = Null) /\ ToSet(released') \cap allocated' = {}
    BY <1>1, <2>1 DEF list
  <2> QED
    BY <2>1, <2>2, <2>3, QuietListStep
<1> QED
  BY <1>2, <1>3, <1>4, <1>5

\* The steps that change the sequence, and those that do not.
LEMMA StepCases ==
    ASSUME [ListNext]_listVars
    PROVE  \/ \E x \in InList \cup {Null}, v \in Data : lkInsert(x, v)
           \/ \E x \in InList : lkRemove(x)
           \/ lkClear \/ lkDestroy
           \/ \/ lkInit \/ NoMemory \/ UNCHANGED listVars
              \/ \E x \in InList, v \in Data : lkSetNodeData(x, v)
BY Zenon DEF ListNext, NoMemory

\* Every step keeps the invariant.
LEMMA ListNextInv == ListInv /\ [ListNext]_listVars => ListInv'
<1> SUFFICES ASSUME ListInv, [ListNext]_listVars PROVE ListInv'
  OBVIOUS
<1>1. CASE \E x \in InList \cup {Null}, v \in Data : lkInsert(x, v)
  BY <1>1, InsertStep
<1>2. CASE \E x \in InList : lkRemove(x)
  BY <1>2, RemoveStep
<1>3. CASE lkClear \/ lkDestroy
  <2>1. Clear /\ ll' \in BOOLEAN
    BY <1>3 DEF lkClear, lkDestroy, ListInv, ListTypeOK
  <2> QED
    BY <2>1, ClearStep
<1>4. CASE \/ lkInit \/ NoMemory \/ UNCHANGED listVars
           \/ \E x \in InList, v \in Data : lkSetNodeData(x, v)
  BY <1>4, QuietSteps
<1> QED
  BY Zenon, <1>1, <1>2, <1>3, <1>4, StepCases

\* The invariant holds after any calls.
THEOREM ListInvariant == ListSpec => []ListInv
<1> QED
  BY ListInitInv, ListNextInv, PTL DEF ListSpec

\* Every member and every node keeps its type, whatever is called.
THEOREM ListTypeCorrect == ListSpec => []ListTypeOK
<1>1. ListInv => ListTypeOK
  BY DEF ListInv
<1> QED
  BY <1>1, ListInvariant, PTL

-----------------------------------------------------------------------------
(* What the invariant gives *)

\* The links back, and how many nodes there are.
LEMMA BothWays == ListInv => LinkedBothWays
<1> SUFFICES ASSUME ListInv PROVE LinkedBothWays
  OBVIOUS
<1> DEFINE s == Walk(head)
<1>1. /\ Linked(s, head, tail, prev, next) /\ size = Len(s) /\ ToSet(s) \subseteq allocated
      /\ s \in Seq(Nodes) /\ Len(s) \in Nat /\ tail = NodeAt(s, Len(s))
      /\ \A i \in 1..Len(s) : prev[s[i]] = NodeAt(s, i - 1)
  BY InvIs
<1> HIDE DEF s
<1>2. Cardinality(ToSet(s)) = size
  BY <1>1, LinkedFits
<1>3. tail = IF s = <<>> THEN Null ELSE Last(s)
  <2>1. s = <<>> <=> Len(s) = 0
    BY <1>1
  <2> QED
    BY <1>1, <2>1 DEF NodeAt, Last
<1>4. \A i \in DOMAIN s : prev[s[i]] = IF i = 1 THEN Null ELSE s[i - 1]
  <2>1. DOMAIN s = 1..Len(s)
    BY <1>1
  <2>2. \A i \in 1..Len(s) : NodeAt(s, i - 1) = IF i = 1 THEN Null ELSE s[i - 1]
    BY <1>1 DEF NodeAt
  <2> QED
    BY <1>1, <2>1, <2>2
<1> QED
  BY <1>1, <1>2, <1>3, <1>4 DEF LinkedBothWays, s

\* Finding a datum, reading its position and copying the list agree.
LEMMA Lookups == ListInv => LookupsAgree
<1> SUFFICES ASSUME ListInv PROVE LookupsAgree
  OBVIOUS
<1> DEFINE s == Walk(head)
           c == CopyToArray
<1>1. /\ size = Len(s) /\ s \in Seq(Nodes) /\ Len(s) \in Nat /\ head = NodeAt(s, 1)
      /\ DOMAIN s = 1..Len(s)
  BY InvIs
<1>2. /\ c = IF size = 0 THEN <<>> ELSE [i \in DOMAIN s |-> data[s[i]]]
      /\ \A pos : Locate(pos) = IF pos <= 0 THEN head
                                ELSE IF pos < Len(s) THEN s[pos + 1] ELSE Null
  BY DEF CopyToArray, Locate
<1> HIDE DEF s, c
<1>3. DOMAIN c = 1..Len(s) /\ \A i \in 1..Len(s) : c[i] = data[s[i]]
  BY <1>1, <1>2
<1>4. ASSUME NEW v \in Data
      PROVE  IF IndexOf(v) = -1 THEN v \notin ToSet(c)
             ELSE /\ c[IndexOf(v) + 1] = v
                  /\ data[Locate(IndexOf(v))] = v
                  /\ v \notin ToSet(SubSeq(c, 1, IndexOf(v)))
  <2> DEFINE hits == { i \in DOMAIN s : data[s[i]] = v }
             m == CHOOSE i \in hits : \A j \in hits : i <= j
  <2>1. IndexOf(v) = IF size = 0 \/ hits = {} THEN -1 ELSE m - 1
    BY DEF IndexOf, s
  <2>2. CASE hits = {}
    <3>1. v \notin ToSet(c)
      BY <1>1, <1>3, <2>2 DEF ToSet
    <3>2. IndexOf(v) = -1
      BY <2>1, <2>2
    <3> QED
      BY <3>1, <3>2
  <2>3. CASE hits # {}
    <3>1. hits \in SUBSET Nat
      BY <1>1
    <3>2. \E i \in hits : \A j \in hits : i <= j
      <4> HIDE DEF hits
      <4> QED
        BY <2>3, <3>1, LeastNumber
    <3>3. m \in hits /\ \A j \in hits : m <= j
      BY <3>2
    <3>4. m \in 1..Len(s) /\ data[s[m]] = v /\ c[m] = v /\ size # 0
      BY <1>1, <1>3, <3>3
    <3>5. \A j \in 1..Len(s) : j < m => c[j] # v
      <4> SUFFICES ASSUME NEW j \in 1..Len(s), j < m, c[j] = v PROVE FALSE
        OBVIOUS
      <4>1. j \in hits
        BY <1>1, <1>3
      <4>2. m <= j
        BY <3>3, <4>1
      <4> HIDE DEF m
      <4> QED
        BY <3>4, <4>2
    <3> HIDE DEF m, hits
    <3>6. IndexOf(v) = m - 1 /\ m - 1 \in Nat /\ (m - 1) + 1 = m /\ m - 1 # -1
      BY <2>1, <2>3, <3>4, <1>1
    <3>7. Locate(m - 1) = s[m]
      BY <1>1, <1>2, <3>4, <3>6 DEF NodeAt
    <3>8. v \notin ToSet(SubSeq(c, 1, m - 1))
      <4> DEFINE A == { c[i] : i \in 1..Len(s) }
      <4>1. \A i \in 1..(m - 1) : c[i] \in A
        BY <1>1, <3>4
      <4>2. 1 \in Int /\ m - 1 \in Int
        BY <3>6
      <4> DEFINE d == SubSeq(c, 1, m - 1)
      <4> HIDE DEF A
      <4>3. /\ d \in Seq(A) /\ Len(d) = IF 1 <= m - 1 THEN (m - 1) - 1 + 1 ELSE 0
            /\ \A i \in 1..((m - 1) - 1 + 1) : d[i] = c[1 + i - 1]
        BY <4>1, <4>2, SubSeqProperties
      <4> HIDE DEF d
      <4>4. DOMAIN d = 1..(m - 1) /\ \A i \in 1..(m - 1) : d[i] = c[i]
        BY <3>4, <3>6, <4>3
      <4>5. \A i \in 1..(m - 1) : c[i] # v
        BY <1>1, <3>4, <3>5
      <4> QED
        BY <4>4, <4>5 DEF ToSet, d
    <3> QED
      BY <3>4, <3>6, <3>7, <3>8
  <2> QED
    BY <2>2, <2>3
<1>5. Locate(size) = IF size = 0 THEN head ELSE Null
  BY <1>1, <1>2
<1> QED
  BY <1>4, <1>5 DEF LookupsAgree, c

\* However it is read, the list is one sequence of its elements.
THEOREM ListIsOneSequence == ListSpec => []OneSequence
<1>1. ListInv => OneSequence
  BY BothWays, Lookups DEF OneSequence
<1> QED
  BY <1>1, ListInvariant, PTL

-----------------------------------------------------------------------------
(* The memory *)

\* A step that adds and removes the same nodes in the list as with the allocator loses
\* nothing.
LEMMA NothingLost ==
    ASSUME Leaked' = Leaked, FreedOnce
    PROVE  /\ FreedOnce
           /\ \E lost \in SUBSET {head, tail} : Leaked' \subseteq Leaked \cup lost
           /\ (Leaked' # Leaked => head' = Null)
<1>1. {} \in SUBSET {head, tail} /\ Leaked' \subseteq Leaked \cup {}
  OBVIOUS
<1> QED
  BY <1>1

\* A call that gives nothing to freeElement must have freed nothing.
LEMMA NothingFreed ==
    ASSUME released' = <<>>, allocated \subseteq allocated'
    PROVE  FreedOnce
<1>1. DOMAIN <<>> = {} /\ ToSet(<<>>) = {}
  BY DEF ToSet
<1> QED
  BY <1>1 DEF FreedOnce, IsInjective

\* The loop of lkClear frees all but the first and the last node.
LEMMA ClearLoses ==
    ASSUME ListInv, Clear, ll' \in BOOLEAN
    PROVE  /\ FreedOnce
           /\ Leaked' \subseteq Leaked \cup {head, tail} /\ head' = Null
<1> DEFINE s == Walk(head)
           c == Cleared
<1>1. /\ s \in Seq(Nodes) /\ Len(s) \in Nat /\ InList = ToSet(s) /\ DOMAIN s = 1..Len(s)
      /\ head = NodeAt(s, 1) /\ tail = NodeAt(s, Len(s))
      /\ InList \subseteq allocated /\ \A i, j \in 1..Len(s) : s[i] = s[j] => i = j
  BY InvIs DEF Linked
<1>2. c = IF Len(s) < 3 THEN <<>> ELSE SubSeq(s, 2, Len(s) - 1)
  BY DEF Cleared
<1>3. /\ released' = c /\ allocated' = allocated \ ToSet(c) /\ head' = Null
  BY DEF Clear
<1>4. InList' = {}
  <2>1. Walk(head)' = <<>>
    BY ClearStep
  <2> QED
    BY <2>1 DEF InList, ToSet
<1> HIDE DEF s, c
<1>5. ASSUME NEW i \in 1..Len(s), s[i] \notin ToSet(c)
      PROVE  s[i] \in {head, tail}
  <2>1. CASE i = 1 \/ i = Len(s)
    BY <1>1, <2>1 DEF NodeAt
  <2>2. CASE i # 1 /\ i # Len(s)
    <3>1. Len(s) >= 3 /\ ~(Len(s) < 3) /\ i \in 2..(Len(s) - 1)
      <4>1. \A n \in Nat : \A k \in 1..n :
               k # 1 /\ k # n => n >= 3 /\ ~(n < 3) /\ k \in 2..(n - 1)
        OBVIOUS
      <4>2. Len(s) \in Nat
        BY <1>1
      <4> QED
        BY <2>2, <4>1, <4>2
    <3>7. c = SubSeq(s, 2, Len(s) - 1)
      BY <1>2, <3>1
    <3>2. \A j \in 2..(Len(s) - 1) : s[j] \in Nodes
      BY <1>1
    <3>3. 2 \in Int /\ Len(s) - 1 \in Int
      BY <1>1
    <3>4. /\ c \in Seq(Nodes) /\ Len(c) = IF 2 <= Len(s) - 1 THEN (Len(s) - 1) - 2 + 1 ELSE 0
          /\ \A j \in 1..((Len(s) - 1) - 2 + 1) : c[j] = s[2 + j - 1]
      BY <3>2, <3>3, <3>7, SubSeqProperties
    <3>5. i - 1 \in 1..Len(c) /\ c[i - 1] = s[i]
      <4> DEFINE j == i - 1
      <4>1. j \in 1..((Len(s) - 1) - 2 + 1) /\ 2 + j - 1 = i /\ j \in 1..Len(c)
        BY <1>1, <3>1, <3>4
      <4> HIDE DEF j
      <4>2. c[j] = s[i]
        BY <3>4, <4>1
      <4> QED
        BY <4>1, <4>2 DEF j
    <3>6. s[i] \in ToSet(c)
      BY <3>4, <3>5 DEF ToSet
    <3> QED
      BY <1>5, <3>6
  <2> QED
    BY <2>1, <2>2
<1>6. ASSUME NEW y \in allocated \ ToSet(c) PROVE y \in Leaked \cup {head, tail}
  <2>1. CASE y \in ToSet(s)
    <3>1. PICK i \in 1..Len(s) : y = s[i]
      BY <1>1, <2>1 DEF ToSet
    <3> QED
      BY <1>5, <1>6, <3>1
  <2>2. CASE y \notin ToSet(s)
    BY <1>1, <1>6, <2>2 DEF Leaked
  <2> QED
    BY <2>1, <2>2
<1>7. Leaked' = allocated \ ToSet(c)
  BY <1>3, <1>4 DEF Leaked
<1>8. IsInjective(c) /\ ToSet(c) \subseteq ToSet(s)
  <2>1. CASE Len(s) < 3
    <3>1. DOMAIN <<>> = {} /\ ToSet(<<>>) = {}
      BY DEF ToSet
    <3>2. c = <<>>
      BY <1>2, <2>1
    <3> QED
      BY <3>1, <3>2 DEF IsInjective
  <2>2. CASE ~(Len(s) < 3)
    <3>1. c = SubSeq(s, 2, Len(s) - 1)
      BY <1>2, <2>2
    <3>2. \A j \in 2..(Len(s) - 1) : s[j] \in Nodes
      BY <1>1
    <3>3. 2 \in Int /\ Len(s) - 1 \in Int
      BY <1>1
    <3>4. /\ c \in Seq(Nodes) /\ Len(c) = IF 2 <= Len(s) - 1 THEN (Len(s) - 1) - 2 + 1 ELSE 0
          /\ \A j \in 1..((Len(s) - 1) - 2 + 1) : c[j] = s[2 + j - 1]
      BY <3>1, <3>2, <3>3, SubSeqProperties
    <3>5. DOMAIN c = 1..(Len(s) - 2) /\ Len(s) - 2 \in Nat
      <4>1. \A n \in Nat : ~(n < 3) =>
               n - 2 \in Nat /\ (IF 2 <= n - 1 THEN (n - 1) - 2 + 1 ELSE 0) = n - 2
        OBVIOUS
      <4>2. Len(s) - 2 \in Nat /\ Len(c) = Len(s) - 2
        BY <1>1, <2>2, <3>4, <4>1
      <4>3. DOMAIN c = 1..Len(c)
        BY <3>4
      <4> QED
        BY <4>2, <4>3
    <3>6. \A j \in DOMAIN c : j \in Int /\ j + 1 \in 1..Len(s) /\ c[j] = s[j + 1]
      <4> TAKE j \in DOMAIN c
      <4>1. j \in Int /\ j + 1 \in 1..Len(s) /\ 2 + j - 1 = j + 1
            /\ j \in 1..((Len(s) - 1) - 2 + 1)
        BY <1>1, <3>5
      <4>2. c[j] = s[2 + j - 1]
        BY <3>4, <4>1
      <4> QED
        BY <4>1, <4>2
    <3>7. ASSUME NEW j \in DOMAIN c, NEW k \in DOMAIN c, c[j] = c[k] PROVE j = k
      <4>1. j + 1 = k + 1 /\ j \in Int /\ k \in Int
        BY <1>1, <3>6, <3>7
      <4> QED
        BY <4>1
    <3>8. IsInjective(c)
      BY <3>7 DEF IsInjective
    <3>9. ToSet(c) \subseteq ToSet(s)
      BY <1>1, <3>6 DEF ToSet
    <3> QED
      BY <3>8, <3>9
  <2> QED
    BY <2>1, <2>2
<1>9. FreedOnce
  <2>1. ToSet(c) \subseteq allocated
    BY <1>1, <1>8
  <2>2. ToSet(c) = allocated \ allocated'
    BY <1>3, <2>1
  <2> QED
    BY <1>3, <1>8, <2>2 DEF FreedOnce
<1> QED
  BY <1>3, <1>6, <1>7, <1>9

\* A node is given to freeElement when it is freed, once, and was in use; and only
\* clearing loses any: the head and the last of the list.
THEOREM ListLoses == ListSpec => LosesHeadAndLast
<1> DEFINE A == /\ FreedOnce
                /\ \E lost \in SUBSET {head, tail} : Leaked' \subseteq Leaked \cup lost
                /\ (Leaked' # Leaked => head' = Null)
<1>1. ASSUME ListInv, [ListNext]_listVars, ~UNCHANGED listVars PROVE A
  <2> DEFINE s == Walk(head)
  <2>0. /\ InList = ToSet(s) /\ s \in Seq(Nodes) /\ InList' = ToSet(Walk(head)')
        /\ InList \subseteq allocated
    BY <1>1, InvIs DEF InList
  <2>1. CASE \E x \in InList \cup {Null}, v \in Data : lkInsert(x, v)
    <3>1. PICK i \in 1..(Len(s) + 1), x \in Nodes \ allocated :
             /\ Walk(head)' = InsertAt(s, i, x) /\ x \notin ToSet(s)
             /\ allocated' = allocated \cup {x}
      BY <1>1, <2>1, InsertStep
    <3> HIDE DEF s
    <3>2. InList' = InList \cup {x}
      BY <2>0, <3>1, MembersInserted
    <3>3. Leaked' = Leaked
      BY <2>0, <3>1, <3>2 DEF Leaked
    <3>4. released' = <<>>
      BY <2>1 DEF lkInsert
    <3>5. FreedOnce
      BY <3>1, <3>4, NothingFreed
    <3> QED
      BY <3>3, <3>5, NothingLost
  <2>2. CASE \E x \in InList : lkRemove(x)
    <3>1. PICK which \in InList : lkRemove(which)
      BY <2>2
    <3>2. InList' = InList \ {which}
      BY <1>1, <2>0, <3>1, RemoveStep
    <3>3. allocated' = allocated \ {which} /\ released' = <<which>>
      BY <3>1 DEF lkRemove
    <3>4. Leaked' = Leaked
      BY <3>2, <3>3 DEF Leaked
    <3>5. ToSet(<<which>>) = {which} /\ IsInjective(<<which>>)
      BY DEF ToSet, IsInjective
    <3>6. allocated \ allocated' = {which}
      BY <2>0, <3>1, <3>3
    <3>7. FreedOnce
      BY <3>3, <3>5, <3>6 DEF FreedOnce
    <3> QED
      BY <3>4, <3>7, NothingLost
  <2>3. CASE lkClear \/ lkDestroy
    <3>1. Clear /\ ll' \in BOOLEAN
      BY <1>1, <2>3 DEF lkClear, lkDestroy, ListInv, ListTypeOK
    <3> QED
      BY <1>1, <3>1, ClearLoses
  <2>4. CASE \/ lkInit \/ NoMemory \/ UNCHANGED listVars
             \/ \E x \in InList, v \in Data : lkSetNodeData(x, v)
    <3>1. Walk(head)' = s /\ allocated' = allocated
      BY <1>1, <2>4, QuietSteps
    <3>2. Leaked' = Leaked
      BY <2>0, <3>1 DEF Leaked
    <3>3. released' = <<>>
      BY <1>1, <2>4, NoMemoryStep DEF lkInit, lkSetNodeData
    <3>4. FreedOnce
      BY <3>1, <3>3, NothingFreed
    <3> QED
      BY <3>2, <3>4, NothingLost
  <2> HIDE DEF A
  <2> QED
    BY Zenon, <1>1, <2>1, <2>2, <2>3, <2>4, StepCases
<1>2. ListInv /\ [ListNext]_listVars => [A]_listVars
  BY <1>1
<1> QED
  BY <1>2, ListInvariant, PTL DEF ListSpec, LosesHeadAndLast

-----------------------------------------------------------------------------
(* The pointers implement a sequence of nodes *)

\* The operators on sequences are the same in the abstract specification.
LEMMA SameListOperators ==
    /\ \A s, i, e : Sequence!InsertAt(s, i, e) = InsertAt(s, i, e)
    /\ \A s, i : Sequence!RemoveAt(s, i) = RemoveAt(s, i)
    /\ \A s : Sequence!ToSet(s) = ToSet(s)
BY DEF Sequence!InsertAt, InsertAt, Sequence!RemoveAt, RemoveAt, Sequence!ToSet, ToSet

\* The datum of each node in the list.
Datum == [x \in InList |-> data[x]]

\* No list is an empty sequence.
LEMMA ListInitRefines == ListInit => Sequence!Init
<1> SUFFICES ASSUME ListInit PROVE Sequence!Init
  OBVIOUS
<1>1. Walk(head) = <<>>
  BY ListInitInv
<1>2. InList = {}
  BY <1>1 DEF InList, ToSet
<1>3. [x \in InList |-> data[x]] = [x \in {} |-> Null]
  BY <1>2
<1> QED
  BY <1>1, <1>3 DEF Sequence!Init

\* Each call is one operation on the sequence, or none.
LEMMA ListStepRefines ==
    ListInv /\ [ListNext]_listVars => [Sequence!Next]_(Sequence!vars)
<1> SUFFICES ASSUME ListInv, [ListNext]_listVars PROVE [Sequence!Next]_(Sequence!vars)
  OBVIOUS
<1> DEFINE s == Walk(head)
           t == Walk(head)'
<1>1. /\ InList = ToSet(s) /\ s \in Seq(Nodes) /\ InList' = ToSet(t) /\ DOMAIN s = 1..Len(s)
      /\ InList \subseteq allocated /\ InList \subseteq Nodes
  <2>1. /\ InList = ToSet(s) /\ s \in Seq(Nodes) /\ InList' = ToSet(t)
        /\ InList \subseteq allocated
    BY InvIs DEF InList
  <2>2. DOMAIN s = 1..Len(s) /\ \A i \in DOMAIN s : s[i] \in Nodes
    BY <2>1
  <2> HIDE DEF s, t
  <2> QED
    BY <2>1, <2>2 DEF ToSet
<1>2. data \in [Nodes -> Data \cup {Null}]
  BY DEF ListInv, ListTypeOK
<1>3. CASE \E x \in InList \cup {Null}, v \in Data : lkInsert(x, v)
  <2>1. PICK where \in InList \cup {Null}, v \in Data : lkInsert(where, v)
    BY <1>3
  <2>2. PICK i \in 1..(Len(s) + 1), x \in Nodes \ allocated :
           /\ t = InsertAt(s, i, x) /\ x \notin ToSet(s) /\ data' = [data EXCEPT ![x] = v]
    BY <2>1, InsertStep
  <2> HIDE DEF s, t
  <2>3. ToSet(t) = ToSet(s) \cup {x}
    BY <1>1, <2>2, MembersInserted
  <2>4. Datum' = [y \in ToSet(t) |-> IF y = x THEN v ELSE Datum[y]]
    <3>1. \A y \in ToSet(t) : data'[y] = IF y = x THEN v ELSE Datum[y]
      BY <1>1, <1>2, <2>2, <2>3 DEF Datum
    <3> QED
      BY <1>1, <3>1 DEF Datum
  <2>5. Sequence!Insert(i, x, v)
    BY <2>2, <2>4, SameListOperators DEF Sequence!Insert, Sequence!Put, Datum, s, t
  <2> QED
    BY <2>1, <2>2, <2>5 DEF Sequence!Next, s
<1>4. CASE \E x \in InList : lkRemove(x)
  <2>1. PICK which \in InList : lkRemove(which)
    BY <1>4
  <2>2. PICK i \in DOMAIN s :
           /\ which = s[i] /\ t = RemoveAt(s, i) /\ ToSet(t) = ToSet(s) \ {which}
    BY <2>1, RemoveStep
  <2>3. data' = [data EXCEPT ![which] = Null]
    BY <2>1 DEF lkRemove
  <2> HIDE DEF s, t
  <2>4. Datum' = [y \in ToSet(t) |-> Datum[y]]
    <3>1. \A y \in ToSet(t) : data'[y] = Datum[y]
      BY <1>1, <1>2, <2>2, <2>3 DEF Datum
    <3> QED
      BY <1>1, <3>1 DEF Datum
  <2>5. Sequence!Delete(i)
    BY <2>2, <2>4, SameListOperators DEF Sequence!Delete, Datum, s, t
  <2> QED
    BY <2>2, <2>5 DEF Sequence!Next, s
<1>5. CASE lkClear \/ lkDestroy
  <2>1. Clear /\ ll' \in BOOLEAN
    BY <1>5 DEF lkClear, lkDestroy, ListInv, ListTypeOK
  <2>2. t = <<>>
    BY <2>1, ClearStep
  <2>3. InList' = {}
    BY <1>1, <2>2 DEF ToSet
  <2>4. Datum' = [x \in {} |-> Null]
    BY <2>3 DEF Datum
  <2>5. Sequence!Clear
    BY <2>2, <2>4 DEF Sequence!Clear, Datum
  <2> QED
    BY <2>5 DEF Sequence!Next
<1>6. CASE \E x \in InList, v \in Data : lkSetNodeData(x, v)
  <2>1. PICK x \in InList, v \in Data : lkSetNodeData(x, v)
    BY <1>6
  <2>2. t = s
    BY <1>6, QuietSteps
  <2>3. data' = [data EXCEPT ![x] = v]
    BY <2>1 DEF lkSetNodeData
  <2> HIDE DEF s, t
  <2>4. PICK i \in DOMAIN s : x = s[i]
    BY <1>1 DEF ToSet
  <2>5. Datum' = [y \in ToSet(s) |-> IF y = s[i] THEN v ELSE Datum[y]]
    <3>1. \A y \in ToSet(s) : data'[y] = IF y = s[i] THEN v ELSE Datum[y]
      BY <1>1, <1>2, <2>3, <2>4 DEF Datum
    <3> QED
      BY <1>1, <2>2, <3>1 DEF Datum
  <2>6. Sequence!SetDatum(i, v)
    BY <2>2, <2>5, SameListOperators DEF Sequence!SetDatum, Sequence!Put, Datum, s, t
  <2> QED
    BY <2>1, <2>4, <2>6 DEF Sequence!Next, s
<1>7. CASE lkInit \/ NoMemory \/ UNCHANGED listVars
  <2>1. t = s
    BY <1>7, QuietSteps
  <2>2. data' = data
    BY <1>7, NoMemoryStep DEF lkInit, listVars
  <2>3. InList' = InList
    BY <1>1, <2>1
  <2>4. [x \in InList |-> data[x]]' = [x \in InList |-> data[x]]
    BY <2>2, <2>3
  <2> QED
    BY <2>1, <2>4 DEF Sequence!vars
<1> QED
  BY Zenon, <1>3, <1>4, <1>5, <1>6, <1>7, StepCases

\* The links in the nodes implement a sequence into which nodes are put and from which
\* they are taken.
THEOREM ListRefines == ListSpec => ImplementsNodeSequence
<1> QED
  BY ListInitRefines, ListStepRefines, ListInvariant, PTL
     DEF ListSpec, ImplementsNodeSequence, Sequence!Spec
=============================================================================
