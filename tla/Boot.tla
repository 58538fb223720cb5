-------------------------------- MODULE Boot --------------------------------
(***************************************************************************)
(* How an app gets from Sano.initInstance to a running script: resolving   *)
(* the bundle into the assets directory of its version, creating the       *)
(* singleton, and reading main.js.  Every await is a step of its own:      *)
(* calls overlap, the network and the disk fail, and the process may be    *)
(* killed between any two steps and start again on the same disk.          *)
(***************************************************************************)
EXTENDS Integers, FiniteSets

CONSTANTS
  Callers,    \* calls of initInstance that may overlap
  Entries,    \* the files of the archive
  Main,       \* the file main.js
  UrlName,    \* the file name at the end of the bundle's url
  Bundles,    \* the builds of an app: where the bundle comes from, in which
              \* format, and kDebugMode, in which assertions are on
  Faults,     \* downloads and file operations may fail
  Crashes,    \* the process may be killed
  None        \* no instance, no file

Files == Entries \cup {Main, UrlName}

ASSUME BundleAssumption ==
  /\ Main \in Entries
  /\ IsFiniteSet(Entries)
  /\ None \notin Callers \cup Files
  /\ Bundles \subseteq [source : {"network", "asset"}, extension : {".js", ".zip"},
                        debug : BOOLEAN]
ASSUME SwitchAssumption ==
  /\ Faults \in BOOLEAN
  /\ Crashes \in BOOLEAN

VARIABLES
  bundle,    \* NetworkBundle or AssetBundle, the extension of its url, and
             \* the kind of build
  dir,       \* disk: the assets directory exists
  files,     \* disk: the files in it
  saved,     \* disk: the downloaded file in the cache directory
  asset,     \* disk: the file AssetBundle's url names
  doomed,    \* the delete() that _zipDecoder does not wait for is under way
  pc,        \* what each call is waiting for
  left,      \* archive entries it has not written yet
  writing,   \* the entry it is writing
  instance   \* Sano._instance: the call that created it

disk == <<dir, files, saved, asset>>
vars == <<bundle, dir, files, saved, asset, doomed, pc, left, writing,
          instance>>

Debug == bundle.debug

Content == {"absent", "partial", "whole"}

\* A call that is over: the app may call initInstance again.
Over == {"idle", "failed", "running", "silent"}

(* The type invariant. *)
TypeOK ==
  /\ bundle \in Bundles
  /\ dir \in BOOLEAN
  /\ files \in [Files -> Content]
  /\ saved \in Content
  /\ asset \in Content
  /\ doomed \in BOOLEAN
  /\ pc \in [Callers -> Over \cup {"resolve", "create", "download", "receive",
               "unpack", "extract", "write", "move", "resolved", "installed"}]
  /\ left \in [Callers -> SUBSET Entries]
  /\ \A c \in Callers : left[c] # {} => pc[c] \in {"extract", "write"}
  /\ writing \in [Callers -> Entries \cup {None}]
  /\ instance \in Callers \cup {None}

Init ==
  /\ bundle \in Bundles
  /\ dir = FALSE
  /\ files = [f \in Files |-> "absent"]
  /\ saved = "absent"
  /\ asset = "whole"
  /\ doomed = FALSE
  /\ pc = [c \in Callers |-> "idle"]
  /\ left = [c \in Callers |-> {}]
  /\ writing = [c \in Callers |-> None]
  /\ instance = None

-----------------------------------------------------------------------------

Goto(c, l) == pc' = [pc EXCEPT ![c] = l]

unpackVars == <<left, writing>>

\* initInstance: the assertion, then bundle.resolve() up to its first await.
InitInstance(c) ==
  /\ pc[c] \in Over
  /\ Goto(c, IF Debug /\ instance # None THEN "failed" ELSE "resolve")
  /\ UNCHANGED disk
  /\ UNCHANGED <<doomed, unpackVars, instance>>

\* Where resolve goes once it knows whether the directory exists.
AfterCheck(exists) ==
  CASE exists -> "resolved"
    [] ~exists /\ bundle.source = "network" -> "create"
    [] ~exists /\ bundle.source = "asset" -> IF bundle.extension = ".js" THEN "move" ELSE "unpack"

\* Mutants of CheckExists: a debug build trusts the directory too, and no
\* build does.
CheckExistsDebug(c) ==
  /\ pc[c] = "resolve"
  /\ Goto(c, AfterCheck(dir))
  /\ UNCHANGED <<disk, doomed, unpackVars, instance>>

CheckExistsNever(c) ==
  /\ pc[c] = "resolve"
  /\ Goto(c, AfterCheck(FALSE))
  /\ UNCHANGED <<disk, doomed, unpackVars, instance>>

CheckExists(c) ==
  /\ pc[c] = "resolve"
  /\ Goto(c, AfterCheck(IF Debug THEN FALSE ELSE dir))
  /\ UNCHANGED disk
  /\ UNCHANGED <<doomed, unpackVars, instance>>

CreateDirectory(c) ==
  /\ pc[c] = "create"
  /\ dir' = TRUE
  /\ Goto(c, "download")
  /\ UNCHANGED <<files, saved, asset, doomed, unpackVars, instance>>

\* _download: the server answers and the file is opened, truncated ...
StartDownload(c) ==
  /\ pc[c] = "download"
  /\ saved' = "partial"
  /\ Goto(c, "receive")
  /\ UNCHANGED <<dir, files, asset, doomed, unpackVars, instance>>

\* ... and written to the end.  A call that is still receiving the same file
\* may have torn it.
Received(c) ==
  /\ pc[c] = "receive"
  /\ saved' \in {"whole"} \cup
       (IF \E d \in Callers \ {c} : pc[d] = "receive" THEN {"partial"} ELSE {})
  /\ Goto(c, IF bundle.extension = ".js" THEN "move" ELSE "unpack")
  /\ UNCHANGED <<dir, files, asset, doomed, unpackVars, instance>>

\* No connection, or it breaks (dio removes what it had received).
DownloadError(c) ==
  /\ Faults
  /\ pc[c] \in {"download", "receive"}
  /\ saved' = IF pc[c] = "receive" THEN "absent" ELSE saved
  /\ Goto(c, "failed")
  /\ UNCHANGED <<dir, files, asset, doomed, unpackVars, instance>>

\* A single script: rename it into the assets directory.  NetworkBundle keeps
\* the name it has in the url, AssetBundle calls it main.js.
MoveFile(c) ==
  LET from   == IF bundle.source = "network" THEN saved ELSE asset
      target == IF bundle.source = "network" THEN UrlName ELSE Main
      moves  == dir /\ from # "absent"
  IN  /\ pc[c] = "move"
      /\ files' = IF moves THEN [files EXCEPT ![target] = from] ELSE files
      /\ saved' = IF moves /\ bundle.source = "network" THEN "absent" ELSE saved
      /\ asset' = IF moves /\ bundle.source = "asset" THEN "absent" ELSE asset
      /\ Goto(c, IF moves THEN "resolved" ELSE "failed")
      /\ UNCHANGED <<dir, doomed, unpackVars, instance>>

-----------------------------------------------------------------------------
(* _zipDecoder, in an isolate of its own *)

Archive == IF bundle.source = "network" THEN saved ELSE asset

\* The catch block starts to delete the directory and rethrows.
UnpackError(c) ==
  /\ doomed' = TRUE
  /\ Goto(c, "failed")
  /\ left' = [left EXCEPT ![c] = {}]
  /\ writing' = [writing EXCEPT ![c] = None]

ReadArchive(c) ==
  /\ pc[c] = "unpack"
  /\ \/ /\ Archive = "whole"
        /\ Goto(c, "extract")
        /\ left' = [left EXCEPT ![c] = Entries]
        /\ UNCHANGED <<doomed, writing>>
     \/ /\ Archive # "whole" \/ Faults
        /\ UnpackError(c)
  /\ UNCHANGED disk
  /\ UNCHANGED instance

\* file.create(recursive: true)
CreateFile(c, f) ==
  /\ pc[c] = "extract"
  /\ f \in left[c]
  /\ dir' = TRUE
  /\ files' = [files EXCEPT ![f] = IF @ = "absent" THEN "partial" ELSE @]
  /\ writing' = [writing EXCEPT ![c] = f]
  /\ Goto(c, "write")
  /\ UNCHANGED <<saved, asset, doomed, left, instance>>

\* file.writeAsBytes: truncates the file, then fills it.
TruncateFile(c) ==
  /\ pc[c] = "write"
  /\ writing[c] # None
  /\ files[writing[c]] = "whole"
  /\ files' = [files EXCEPT ![writing[c]] = "partial"]
  /\ UNCHANGED <<dir, saved, asset, doomed, pc, unpackVars, instance>>

\* Mutant of WriteFile: resolve does not wait for the rest of the archive.
WriteFileEarly(c) ==
  /\ pc[c] = "write"
  /\ files[writing[c]] = "partial"
  /\ files' = [files EXCEPT ![writing[c]] = "whole"]
  /\ left' = [left EXCEPT ![c] = {}]
  /\ writing' = [writing EXCEPT ![c] = None]
  /\ Goto(c, "resolved")
  /\ UNCHANGED <<dir, saved, asset, doomed, instance>>

WriteFile(c) ==
  /\ pc[c] = "write"
  /\ files[writing[c]] = "partial"
  /\ files' = [files EXCEPT ![writing[c]] = "whole"]
  /\ left' = [left EXCEPT ![c] = @ \ {writing[c]}]
  /\ writing' = [writing EXCEPT ![c] = None]
  /\ Goto(c, IF left[c] = {writing[c]} THEN "resolved" ELSE "extract")
  /\ UNCHANGED <<dir, saved, asset, doomed, instance>>

\* A file operation of the loop fails.
ExtractError(c) ==
  /\ Faults
  /\ pc[c] \in {"extract", "write"}
  /\ UnpackError(c)
  /\ UNCHANGED disk
  /\ UNCHANGED instance

\* Directory.delete(), not recursive: only an empty directory goes.
DeleteDirectory ==
  /\ doomed
  /\ doomed' = FALSE
  /\ dir' = IF \A f \in Files : files[f] = "absent" THEN FALSE ELSE dir
  /\ UNCHANGED <<files, saved, asset, pc, unpackVars, instance>>

-----------------------------------------------------------------------------

\* resolve is done: create the singleton, load the plugins, start _runApp.
Install(c) ==
  /\ pc[c] = "resolved"
  /\ instance' = c
  /\ Goto(c, "installed")
  /\ UNCHANGED disk
  /\ UNCHANGED <<doomed, unpackVars>>

\* _runApp: read main.js and evaluate it.  initInstance has completed and
\* nobody awaits _runApp: when the file cannot be read, nobody is told.
ReadMain(c) ==
  /\ pc[c] = "installed"
  /\ Goto(c, IF dir /\ files[Main] = "whole" THEN "running" ELSE "silent")
  /\ UNCHANGED disk
  /\ UNCHANGED <<doomed, unpackVars, instance>>

\* The process dies; the next launch finds the disk as it was left.
Crash ==
  /\ Crashes
  /\ pc' = [c \in Callers |-> "idle"]
  /\ left' = [c \in Callers |-> {}]
  /\ writing' = [c \in Callers |-> None]
  /\ doomed' = FALSE
  /\ instance' = None
  /\ UNCHANGED disk

Work(c) ==
  \/ CheckExists(c)
  \/ CreateDirectory(c)
  \/ StartDownload(c)
  \/ Received(c)
  \/ MoveFile(c)
  \/ ReadArchive(c)
  \/ \E f \in Entries : CreateFile(c, f)
  \/ TruncateFile(c)
  \/ WriteFile(c)
  \/ Install(c)
  \/ ReadMain(c)

Fail(c) == DownloadError(c) \/ ExtractError(c)

Next ==
  /\ \/ \E c \in Callers : InitInstance(c) \/ Work(c) \/ Fail(c)
     \/ DeleteDirectory
     \/ Crash
  /\ UNCHANGED bundle

Spec == Init /\ [][Next]_vars

\* Fairness: every await of a call completes, unless the process dies first
\* (connectTimeout bounds the connection; a transfer that hangs forever is
\* the network's, and is left out).
FairSpec ==
  /\ Spec
  /\ \A c \in Callers : WF_vars(Work(c) /\ UNCHANGED bundle)
  /\ WF_vars(DeleteDirectory /\ UNCHANGED bundle)

-----------------------------------------------------------------------------
(* Properties *)

\* In a debug build, when bundle.resolve() has returned, the entry script is
\* in the assets directory, complete: initInstance may go on to _runApp.  (A
\* release build trusts the directory it finds, and a launch that was cut
\* short leaves one behind.)
ResolvedReadable ==
  Debug => \A c \in Callers : pc[c] \in {"resolved", "installed"} => dir /\ files[Main] = "whole"

\* In a release build a bundle that is complete on disk is left alone by later
\* launches, however the launches before it ended.
CompleteStable ==
  [][~Debug /\ dir /\ (\A f \in Entries : files[f] = "whole") => UNCHANGED <<dir, files>>]_vars

\* In a debug build a call that gets past the assertion ends with the script
\* running or reports a failure to its caller, unless the process is killed.
NoSilentFailure ==
  \A c \in Callers : Debug /\ pc[c] = "resolve" ~> pc[c] \in {"running", "failed", "idle"}

=============================================================================
