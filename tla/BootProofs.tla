----------------------------- MODULE BootProofs ------------------------------
(***************************************************************************)
(* Proofs about Boot, for every archive, every set of bundles, and with    *)
(* failures and kills at every step.                                       *)
(***************************************************************************)
EXTENDS Boot, TLAPS

\* Calls of initInstance do not overlap.
OneCaller == \A c, d \in Callers : c = d

-----------------------------------------------------------------------------
(* What holds for any number of callers and in every build *)

\* A file is only ever in a directory that exists; the entry being written is
\* one of those left; an asset is moved away or whole.
DiskSound ==
  /\ \A f \in Files : files[f] # "absent" => dir
  /\ \A c \in Callers : pc[c] = "write" => writing[c] \in left[c]
  /\ asset # "partial"

IInv == TypeOK /\ DiskSound

\* The bundle is one of the kinds NetworkBundle and AssetBundle handle.
LEMMA BundleKind ==
  ASSUME TypeOK
  PROVE  bundle.source \in {"network", "asset"} /\ bundle.extension \in {".js", ".zip"}
BY BundleAssumption DEF TypeOK

\* Once it knows whether the directory exists, resolve is done or starts to
\* fetch, move or unpack; it is done at once only in a release build that
\* finds the directory.
LEMMA CheckExistsTarget ==
  ASSUME TypeOK, NEW c \in Callers, CheckExists(c)
  PROVE  \E l \in {"resolved", "create", "move", "unpack"} :
           /\ pc' = [pc EXCEPT ![c] = l]
           /\ l = "resolved" => ~Debug /\ dir
           /\ l # "resolved" => Debug \/ ~dir
           /\ l = "move" => bundle.source = "asset"
<1>1. bundle.source \in {"network", "asset"}
  BY BundleKind
<1>2. CASE ~Debug /\ dir
  <2>1. AfterCheck(IF Debug THEN FALSE ELSE dir) = "resolved"
    BY <1>2 DEF AfterCheck
  <2> QED
    BY <1>2, <2>1 DEF CheckExists, Goto
<1>3. CASE Debug \/ ~dir
  <2>1. CASE bundle.source = "network"
    <3>1. AfterCheck(IF Debug THEN FALSE ELSE dir) = "create"
      BY <1>3, <2>1 DEF AfterCheck
    <3> QED
      BY <1>3, <3>1 DEF CheckExists, Goto
  <2>2. CASE bundle.source = "asset"
    <3>1. AfterCheck(IF Debug THEN FALSE ELSE dir) \in {"move", "unpack"}
      BY <1>3, <2>2 DEF AfterCheck
    <3> QED
      BY <1>3, <2>2, <3>1 DEF CheckExists, Goto
  <2> QED
    BY <1>1, <2>1, <2>2
<1> QED
  BY <1>2, <1>3

\* A first launch finds an empty disk.
LEMMA InitIInv == Init => IInv
<1> SUFFICES ASSUME Init PROVE IInv
  OBVIOUS
<1>1. TypeOK
  BY DEF Init, TypeOK, Over, Content
<1>2. DiskSound
  BY DEF Init, DiskSound
<1> QED
  BY <1>1, <1>2 DEF IInv

\* Every await, failure and kill keeps the disk sound.
LEMMA NextIInv == IInv /\ [Next]_vars => IInv'
<1> SUFFICES ASSUME IInv, [Next]_vars PROVE IInv'
  OBVIOUS
<1> USE BundleAssumption DEF IInv, TypeOK, DiskSound, Over, Content, Files, Goto,
                             disk, unpackVars
<1>1. ASSUME NEW c \in Callers, InitInstance(c), UNCHANGED bundle PROVE IInv'
  BY <1>1 DEF InitInstance
<1>2. ASSUME NEW c \in Callers, CheckExists(c), UNCHANGED bundle PROVE IInv'
  <2>1. PICK l \in {"resolved", "create", "move", "unpack"} : pc' = [pc EXCEPT ![c] = l]
    BY <1>2, CheckExistsTarget
  <2>2. /\ pc[c] = "resolve"
        /\ UNCHANGED <<bundle, dir, files, saved, asset, doomed, left, writing, instance>>
    BY <1>2 DEF CheckExists
  <2> QED
    BY <2>1, <2>2
<1>3. ASSUME NEW c \in Callers, CreateDirectory(c), UNCHANGED bundle PROVE IInv'
  BY <1>3 DEF CreateDirectory
<1>4. ASSUME NEW c \in Callers, StartDownload(c), UNCHANGED bundle PROVE IInv'
  BY <1>4 DEF StartDownload
<1>5. ASSUME NEW c \in Callers, Received(c), UNCHANGED bundle PROVE IInv'
  BY <1>5 DEF Received
<1>6. ASSUME NEW c \in Callers, MoveFile(c), UNCHANGED bundle PROVE IInv'
  BY <1>6 DEF MoveFile
<1>7. ASSUME NEW c \in Callers, ReadArchive(c), UNCHANGED bundle PROVE IInv'
  <2>1. CASE Goto(c, "extract") /\ left' = [left EXCEPT ![c] = Entries]
             /\ UNCHANGED <<doomed, writing>>
    BY <1>7, <2>1 DEF ReadArchive
  <2>2. CASE UnpackError(c)
    BY <1>7, <2>2 DEF ReadArchive, UnpackError
  <2> QED
    BY <1>7, <2>1, <2>2 DEF ReadArchive
<1>8. ASSUME NEW c \in Callers, NEW f \in Entries, CreateFile(c, f), UNCHANGED bundle
      PROVE IInv'
  BY <1>8 DEF CreateFile
<1>9. ASSUME NEW c \in Callers, TruncateFile(c), UNCHANGED bundle PROVE IInv'
  BY <1>9 DEF TruncateFile
<1>10. ASSUME NEW c \in Callers, WriteFile(c), UNCHANGED bundle PROVE IInv'
  BY <1>10 DEF WriteFile
<1>11. ASSUME NEW c \in Callers, Install(c), UNCHANGED bundle PROVE IInv'
  BY <1>11 DEF Install
<1>12. ASSUME NEW c \in Callers, ReadMain(c), UNCHANGED bundle PROVE IInv'
  BY <1>12 DEF ReadMain
<1>13. ASSUME NEW c \in Callers, DownloadError(c), UNCHANGED bundle PROVE IInv'
  BY <1>13 DEF DownloadError
<1>14. ASSUME NEW c \in Callers, ExtractError(c), UNCHANGED bundle PROVE IInv'
  BY <1>14 DEF ExtractError, UnpackError
<1>15. ASSUME DeleteDirectory, UNCHANGED bundle PROVE IInv'
  BY <1>15 DEF DeleteDirectory
<1>16. ASSUME Crash, UNCHANGED bundle PROVE IInv'
  BY <1>16 DEF Crash
<1>17. CASE UNCHANGED vars
  BY <1>17 DEF vars
<1> QED
  BY <1>1, <1>2, <1>3, <1>4, <1>5, <1>6, <1>7, <1>8, <1>9, <1>10, <1>11, <1>12,
     <1>13, <1>14, <1>15, <1>16, <1>17 DEF Next, Work, Fail

\* Every reachable state has a sound disk.
THEOREM Inductive == Spec => []IInv
BY InitIInv, NextIInv, PTL DEF Spec

\* The state of the boot procedure keeps its type, with any number of
\* overlapping calls.
THEOREM TypeCorrect == Spec => []TypeOK
<1>1. IInv => TypeOK
  BY DEF IInv
<1> QED
  BY <1>1, Inductive, PTL

-----------------------------------------------------------------------------
(* What resolve leaves behind in a debug build, one call at a time *)

\* A launch, a failure or a kill does not change the build.
LEMMA DebugKept == [Next]_vars => (Debug' <=> Debug)
BY DEF Next, vars, Debug

\* While an archive is unpacked every entry that is not left is whole; a
\* script is moved only after it was received to the end; and resolve has
\* returned only with main.js whole.
Unpacked ==
  /\ ResolvedReadable
  /\ \A c \in Callers : pc[c] \in {"extract", "write"} =>
       \A f \in Entries \ left[c] : files[f] = "whole"
  /\ \A c \in Callers : pc[c] = "move" /\ bundle.source = "network" => saved = "whole"

\* No await of resolve, no failure and no kill breaks that.
LEMMA NextUnpacked ==
  ASSUME OneCaller, Debug, UrlName = Main, IInv, Unpacked, [Next]_vars
  PROVE  Unpacked'
<1> USE BundleAssumption DEF OneCaller, IInv, TypeOK, DiskSound, Unpacked,
          ResolvedReadable, Over, Content, Files, Goto, disk, unpackVars
<1>1. ASSUME NEW c \in Callers, InitInstance(c), UNCHANGED bundle PROVE Unpacked'
  BY <1>1 DEF InitInstance
<1>2. ASSUME NEW c \in Callers, CheckExists(c), UNCHANGED bundle PROVE Unpacked'
  <2>1. PICK l \in {"resolved", "create", "move", "unpack"} :
          /\ pc' = [pc EXCEPT ![c] = l]
          /\ l = "resolved" => ~Debug /\ dir
          /\ l = "move" => bundle.source = "asset"
    BY <1>2, CheckExistsTarget
  <2>2. UNCHANGED <<bundle, dir, files, saved, left>>
    BY <1>2 DEF CheckExists
  <2> QED
    BY <2>1, <2>2
<1>3. ASSUME NEW c \in Callers, CreateDirectory(c), UNCHANGED bundle PROVE Unpacked'
  BY <1>3 DEF CreateDirectory
<1>4. ASSUME NEW c \in Callers, StartDownload(c), UNCHANGED bundle PROVE Unpacked'
  BY <1>4 DEF StartDownload
<1>5. ASSUME NEW c \in Callers, Received(c), UNCHANGED bundle PROVE Unpacked'
  BY <1>5 DEF Received
<1>6. ASSUME NEW c \in Callers, MoveFile(c), UNCHANGED bundle PROVE Unpacked'
  <2>1. bundle.source \in {"network", "asset"}
    BY BundleKind
  <2> QED
    BY <1>6, <2>1 DEF MoveFile
<1>7. ASSUME NEW c \in Callers, ReadArchive(c), UNCHANGED bundle PROVE Unpacked'
  <2>1. CASE Goto(c, "extract") /\ left' = [left EXCEPT ![c] = Entries]
    BY <1>7, <2>1 DEF ReadArchive
  <2>2. CASE UnpackError(c)
    BY <1>7, <2>2 DEF ReadArchive, UnpackError
  <2> QED
    BY <1>7, <2>1, <2>2 DEF ReadArchive
<1>8. ASSUME NEW c \in Callers, NEW f \in Entries, CreateFile(c, f), UNCHANGED bundle
      PROVE Unpacked'
  BY <1>8 DEF CreateFile
<1>9. ASSUME NEW c \in Callers, TruncateFile(c), UNCHANGED bundle PROVE Unpacked'
  BY <1>9 DEF TruncateFile
<1>10. ASSUME NEW c \in Callers, WriteFile(c), UNCHANGED bundle PROVE Unpacked'
  BY <1>10 DEF WriteFile
<1>11. ASSUME NEW c \in Callers, Install(c), UNCHANGED bundle PROVE Unpacked'
  BY <1>11 DEF Install
<1>12. ASSUME NEW c \in Callers, ReadMain(c), UNCHANGED bundle PROVE Unpacked'
  BY <1>12 DEF ReadMain
<1>13. ASSUME NEW c \in Callers, DownloadError(c), UNCHANGED bundle PROVE Unpacked'
  BY <1>13 DEF DownloadError
<1>14. ASSUME NEW c \in Callers, ExtractError(c), UNCHANGED bundle PROVE Unpacked'
  BY <1>14 DEF ExtractError, UnpackError
<1>15. ASSUME DeleteDirectory, UNCHANGED bundle PROVE Unpacked'
  BY <1>15 DEF DeleteDirectory
<1>16. ASSUME Crash, UNCHANGED bundle PROVE Unpacked'
  BY <1>16 DEF Crash
<1>17. CASE UNCHANGED vars
  BY <1>17 DEF vars
<1> QED
  BY <1>1, <1>2, <1>3, <1>4, <1>5, <1>6, <1>7, <1>8, <1>9, <1>10, <1>11, <1>12,
     <1>13, <1>14, <1>15, <1>16, <1>17 DEF Next, Work, Fail

\* In a debug build, with one call at a time and a url that ends in main.js,
\* bundle.resolve() returns only with a complete main.js in place.
THEOREM AlwaysReadable ==
  ASSUME OneCaller, UrlName = Main
  PROVE  Spec => []ResolvedReadable
<1> DEFINE DebugUnpacked == Debug => Unpacked
<1>1. Init => DebugUnpacked
  BY DEF Init, Unpacked, ResolvedReadable
<1>2. IInv /\ DebugUnpacked /\ [Next]_vars => DebugUnpacked'
  BY NextUnpacked, DebugKept
<1>3. DebugUnpacked => ResolvedReadable
  BY DEF Unpacked, ResolvedReadable
<1> HIDE DEF DebugUnpacked
<1> QED
  BY <1>1, <1>2, <1>3, Inductive, PTL DEF Spec

-----------------------------------------------------------------------------
(* A release build, one call at a time *)

\* A call that goes on to fetch or unpack found no directory: what it has not
\* written yet is not there.
Fresh ==
  \A c \in Callers :
    /\ pc[c] \in {"create", "download", "receive", "move", "unpack"} =>
         \A f \in Files : files[f] = "absent"
    /\ pc[c] = "extract" => left[c] # {} /\ \A f \in left[c] : files[f] = "absent"
    /\ pc[c] = "write" => /\ files[writing[c]] = "partial"
                          /\ \A f \in left[c] \ {writing[c]} : files[f] = "absent"

Complete == dir /\ \A f \in Entries : files[f] = "whole"

\* No await, failure or kill puts a call back in front of files it would have
\* to overwrite.
LEMMA NextFresh ==
  ASSUME OneCaller, ~Debug, IInv, Fresh, [Next]_vars
  PROVE  Fresh' /\ (Complete => UNCHANGED <<dir, files>>)
<1> DEFINE Good == Fresh' /\ (Complete => UNCHANGED <<dir, files>>)
<1> USE BundleAssumption DEF OneCaller, IInv, TypeOK, DiskSound, Fresh, Complete,
          Over, Content, Files, Goto, disk, unpackVars
<1>1. ASSUME NEW c \in Callers, InitInstance(c), UNCHANGED bundle PROVE Good
  BY <1>1 DEF InitInstance
<1>2. ASSUME NEW c \in Callers, CheckExists(c), UNCHANGED bundle PROVE Good
  <2>1. PICK l \in {"resolved", "create", "move", "unpack"} :
          /\ pc' = [pc EXCEPT ![c] = l]
          /\ l # "resolved" => Debug \/ ~dir
    BY <1>2, CheckExistsTarget
  <2>2. UNCHANGED <<bundle, dir, files, left, writing>>
    BY <1>2 DEF CheckExists
  <2> QED
    BY <2>1, <2>2
<1>3. ASSUME NEW c \in Callers, CreateDirectory(c), UNCHANGED bundle PROVE Good
  <2>1. files[Main] = "absent"
    BY <1>3 DEF CreateDirectory
  <2>2. Fresh'
    BY <1>3 DEF CreateDirectory
  <2> QED
    BY <2>1, <2>2
<1>4. ASSUME NEW c \in Callers, StartDownload(c), UNCHANGED bundle PROVE Good
  BY <1>4 DEF StartDownload
<1>5. ASSUME NEW c \in Callers, Received(c), UNCHANGED bundle PROVE Good
  BY <1>5 DEF Received
<1>6. ASSUME NEW c \in Callers, MoveFile(c), UNCHANGED bundle PROVE Good
  BY <1>6 DEF MoveFile
<1>7. ASSUME NEW c \in Callers, ReadArchive(c), UNCHANGED bundle PROVE Good
  <2>1. CASE Goto(c, "extract") /\ left' = [left EXCEPT ![c] = Entries]
    BY <1>7, <2>1 DEF ReadArchive
  <2>2. CASE UnpackError(c)
    BY <1>7, <2>2 DEF ReadArchive, UnpackError
  <2> QED
    BY <1>7, <2>1, <2>2 DEF ReadArchive
<1>8. ASSUME NEW c \in Callers, NEW f \in Entries, CreateFile(c, f), UNCHANGED bundle
      PROVE Good
  <2>1. f \in left[c] /\ files[f] = "absent" /\ \A d \in Callers : d = c
    BY <1>8 DEF CreateFile
  <2>2. /\ pc'[c] = "write" /\ writing'[c] = f /\ left' = left
        /\ files' = [files EXCEPT ![f] = "partial"]
    BY <1>8, <2>1 DEF CreateFile
  <2>3. /\ files'[f] = "partial"
        /\ \A g \in left[c] \ {f} : files'[g] = "absent"
    BY <1>8, <2>2 DEF CreateFile
  <2>4. Fresh'
    BY <2>1, <2>2, <2>3
  <2> QED
    BY <2>1, <2>4
<1>9. ASSUME NEW c \in Callers, TruncateFile(c), UNCHANGED bundle PROVE Good
  BY <1>9 DEF TruncateFile
<1>10. ASSUME NEW c \in Callers, WriteFile(c), UNCHANGED bundle PROVE Good
  BY <1>10 DEF WriteFile
<1>11. ASSUME NEW c \in Callers, Install(c), UNCHANGED bundle PROVE Good
  BY <1>11 DEF Install
<1>12. ASSUME NEW c \in Callers, ReadMain(c), UNCHANGED bundle PROVE Good
  BY <1>12 DEF ReadMain
<1>13. ASSUME NEW c \in Callers, DownloadError(c), UNCHANGED bundle PROVE Good
  BY <1>13 DEF DownloadError
<1>14. ASSUME NEW c \in Callers, ExtractError(c), UNCHANGED bundle PROVE Good
  BY <1>14 DEF ExtractError, UnpackError
<1>15. ASSUME DeleteDirectory, UNCHANGED bundle PROVE Good
  BY <1>15 DEF DeleteDirectory
<1>16. ASSUME Crash, UNCHANGED bundle PROVE Good
  BY <1>16 DEF Crash
<1>17. CASE UNCHANGED vars
  BY <1>17 DEF vars
<1> QED
  BY <1>1, <1>2, <1>3, <1>4, <1>5, <1>6, <1>7, <1>8, <1>9, <1>10, <1>11, <1>12,
     <1>13, <1>14, <1>15, <1>16, <1>17 DEF Next, Work, Fail

\* In a release build, with one call at a time, a bundle that is complete on
\* disk is never touched again.
THEOREM NeverTouched ==
  ASSUME OneCaller
  PROVE  Spec => CompleteStable
<1> DEFINE ReleaseFresh == ~Debug => Fresh
<1>1. Init => ReleaseFresh
  BY DEF Init, Fresh
<1>2. IInv /\ ReleaseFresh /\ [Next]_vars => ReleaseFresh'
  BY NextFresh, DebugKept
<1>3. IInv /\ ReleaseFresh /\ [Next]_vars =>
        [~Debug /\ dir /\ (\A f \in Entries : files[f] = "whole") => UNCHANGED <<dir, files>>]_vars
  BY NextFresh DEF Complete
<1> HIDE DEF ReleaseFresh
<1> QED
  BY <1>1, <1>2, <1>3, Inductive, PTL DEF Spec, CompleteStable

=============================================================================
