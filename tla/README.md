# TLA+ models of the AirDC++ core share engine

This directory holds TLA+ models of parts of `src/`, checked with TLC. It has:

- the modules (`*.tla`);
- the TLC configurations (`*.cfg`);
- `PROJECT.json`, which lists the runs, the mutants, the map from each definition to the source lines it models, the findings and the hazards.

## 1. The system

### 1.1 Inventory

| Part | Source | State | Operations | Threads |
|---|---|---|---|---|
| Root registry | `src/ShareManager.cpp` | `shares` (real path → virtual name), `directories` (real path → root tree) | `load`, `addDirectory`, `removeDirectory`, `renameDirectory` | GUI |
| Refresh engine | same | `refreshing` (atomic flag), `refreshOptions`, `refreshPaths`, `bundleDirs`, `aShutdown` | `refresh(aDir)`, `refresh(int)`, `initRefreshThread`, `getDirectories`, `run()`, Minute timer | GUI, timer, refresh thread |
| Content index | same | per-root `tthIndex` multimap, `sharedSize`, bloom filter, type masks | `updateIndices`, `rebuildIndices`, `cleanIndices`, `onFileHashed`, `on(BundleHashed)` | hasher, queue, refresh thread |
| Hash manager | `src/airdcpp/HashManager.h` (header only) | work queue `w`, `paused`, `pausers`, hash store | `checkTTH`, `hashFile`, `stopHashing`, `HashPauser` | hasher |
| Search | `src/ShareManager.cpp` | none; reads the trees under the read lock | NMDC and ADC `search`, `Directory::search`, `AdcSearch` | hub / UDP threads |
| Virtual paths | same | reads `directories` | `toReal`, `toVirtual`, `findVirtuals`, `getByVirtual`, `findFile` | upload threads |
| Temp shares | same | `tempShares` multimap | `addTempShare`, `removeTempShare`, `findTempShare` | upload threads |
| Excluded folders | same (`ExcludeFolders.tla`) | `notShared` | `shareFolder`, `addExcludeFolder`, `removeExcludeFolder` | GUI, refresh thread (reads) |
| File lists | same | `fileLists`, dirty flags | `generateXmlList`, `createFileList`, `saveXmlList`, partial and TTH lists | any |
| New share tree | `src/airdcpp/ShareDirectory.cpp` | `ShareDirectory` nodes, `ShareRoot` records, the caller's TTH and name multimaps, `sharedSize`, root paths, dirty profiles | `createRoot`, `createNormal`, `setParent`, `addFile`, `cleanIndices`, `findDirectoryByPath`, `getTotalSize`, `getContentInfo`, `search`, `toFileList`, `FilelistDirectory::toXml` (`FileListMerge.tla`) | the caller's (not in this tree) |
| Upload bundles | `src/airdcpp/UploadBundle.cpp`, `UploadBundleInfoReceiver.cpp` | bundles, their upload tokens, idle timer | UBN/UBD handlers, `addBundleConnection`, `removeBundleConnection`, `removeIdleBundles` | connection threads, timer |
| HTTP | `src/airdcpp/connection/http/HttpConnection.cpp` | connection state, redirect list, byte counts | `on(Data)`, `on(Line)`, redirect handling | socket thread |
| UTF-8 and charsets | `src/airdcpp/Text.cpp` | none (pure functions) | `utf8ToWc`, `wcToUtf8`, `validateUtf8`, `utf8ToWide`, `wideToUtf8`, `sanitizeUtf8`, `toLower`, `toDOS`, `acpToWide`, `convert`, `toUtf8`, `fromUtf8` | any |
| Magnet links | `src/airdcpp/core/classes/Magnet.cpp` | the parsed fields `fname`, `fsize`, `hash`; the constructor's local `hashes` map | `Magnet(aLink)`, `parseMagnet`, `makeMagnet`, `getDupeType`, `getTTH` | any |
| Others | `DCPlusPlus.cpp`, `HubEntry.cpp`, `windows/QueueFrame2.cpp`, headers, `boost/` | — | parsing, startup sequence, data holders, GUI, library | — |

### 1.2 How the share parts interact

- All tree changes take the write lock `cs`. Searches and lookups take the read lock.
- The refresh thread reads `shares` (`getDirectories`). It then builds every root with `buildTree` without holding the lock. Only after that does it take the write lock to splice the new trees in.
- During the scan, the other threads may change `shares` and `directories`:
  - the GUI (add, remove, rename);
  - the hasher, through `onFileHashed`;
  - the queue, through `BundleHashed`.
- `buildTree` shares only files whose hash is current (`checkTTH`). It hands the other files to the hasher. Those files reach the tree later through `onFileHashed`.
- While a refresh or an `addDirectory` scans, `HashPauser` pauses the hasher. A file already being hashed still finishes.
- `buildTree` asks `shareFolder` about every subdirectory it walks into. `shareFolder` refuses one that is on the list `notShared`, which the settings page edits through `addExcludeFolder` and `removeExcludeFolder`.

### 1.3 Hazards

`PROJECT.json` lists each hazard at the line where it bites. These are the main ones:

- the refresh splices a snapshot taken before a concurrent add or remove;
- a hash callback lands in a tree that is about to be replaced;
- the TTH index and the tree drift apart;
- `sharedSize` is updated incrementally and drifts;
- shutdown arrives between the scan and the splice;
- the `refreshing` flag must be cleared on every exit path of `run()`;
- an upload connection moved between upload bundles, and the idle-bundle timer racing a queued callback;
- the newer core's file list merging roots and directories of one name, where a file or directory must appear once.

## 2. Plan

Modules are listed in order of importance. Those marked *done* exist.

1. **ShareManager** (*done*). Root registry, refresh thread, hasher callback, GUI root edits, BundleHashed and shutdown. This is where the threads meet.
2. **ShareSearch** (*done*). The ADC `Directory::search`, step by step over an explicit frame stack, checked against a reference definition of "all files matching every term", including the early return at `maxResults`, which skips the restore of `aStrings.include`. Also in this module: the NMDC search, the lookups by virtual path or TTH, and the temp shares.
3. **ShareExtras**. These extend ShareManager:
   - the `bundleDirs` exclusion with the queue's forbidden paths;
   - `REFRESH_INCOMING`;
   - excluded folders and their size adjustment (*done*, as the separate module ExcludeFolders, section 3.9).
4. **UploadBundles** (*done*). The UBN/UBD handlers and the bundle-connection bookkeeping. Connections are processes and messages may be reordered. The idle-removal timer is included.
5. **HttpConnection** (*done*). The connection state machine, with redirects. It refines the abstract request of `HttpRequest`.
6. **Text** (*done*). `utf8ToWc`/`wcToUtf8` as operators and the `utf8ToWide`/`wideToUtf8` loops as steps, checked against an RFC 3629 reference over all short byte sequences.
7. **ShareAbstract**. An abstract share (a set of shared files with their TTH) that ShareManager refines when the threads are idle.
8. **ShareDirectory** (*done*). The node API of the newer core's share tree, called in any order, with its indices and aggregates.
9. **Magnet** (*done*). The magnet constructor's token loop, `parseMagnet` and `makeMagnet`, over links of a few tokens, checked against a reference reading of the link.
10. **FileListMerge** (*done*). The newer core's file-list merge and writer, full and partial, checked against a reference definition of the union of the roots (section 8.1).

## 3. Module ShareManager

### 3.1 State

| Variable | Code |
|---|---|
| `shares` | `StringMap shares` |
| `directories` | `DirMap directories`. Each root is a record: `name`, `files` (file → TTH and size), `index` (the root's `tthIndex` as a bag of ⟨TTH, file⟩) |
| `sharedSize` | `int64 sharedSize` |
| `refreshing`, `refreshOptions`, `refreshPaths`, `aShutdown` | the members of the same name |
| `rt`, `dirs`, `toScan`, `newDirs` | where the refresh thread is in `run()`, and the locals of `run()` |
| `gui`, `addPath`, `addRoot` | the GUI thread inside `addDirectory`, between the unlocked scan and the write lock |
| `disk`, `hashStore`, `hashQueue`, `hashing` | the environment: file contents on disk, the hash store, the hasher's queue and the file it is hashing, with the content it read |

### 3.2 Data abstraction

- A directory tree is reduced to the set of files it holds. Directory nodes, release names, the bloom filter and type masks carry no property.
- A file content is a model value that is also its TTH. `SizeOf` gives its size.
- `Below[p]` says which directories of `Paths` lie under `p`. It stands for the case-insensitive prefix comparisons of the code.

### 3.3 Actions

| Action | Code |
|---|---|
| `RefreshPathStarted`, `RefreshPathNotFound` | `refresh(const string&)` |
| `RefreshAll` | `refresh(REFRESH_ALL)` from the GUI or the Minute timer |
| `RunStart` | the start of `run()`, including `getDirectories`. For a refresh path no longer in `shares`, `find()->second` is undefined behaviour; the model takes an arbitrary virtual name |
| `ScanRoot(p)` | `buildTree` of one root, with `checkTTH` queueing the files that are not hashed |
| `ScanRootAbort(p)` | `if(aShutdown) goto end` |
| `Splice` | the write-locked part of `run()` and `end:` |
| `AddDirectoryStart` | removal of overlapping roots, the pause and `buildTree` |
| `AddDirectoryCommit` | the write-locked insert and `updateIndices` |
| `RemoveDirectory` | `stopHashing`, then the write-locked erase and `rebuildIndices` |
| `RenameDirectory` | `renameDirectory` |
| `HashStart`, `HashFinish` | the hasher, and `onFileHashed`, split into `RehashFile` and `AddHashedFile` |
| `BundleHashed(d)` | `cleanIndices`, `buildTree(create = false)` and `updateIndices` |
| `Shutdown` | `shutdown()` |
| `ModifyFile` | a change on disk |

### 3.4 Initial state

`Init` is the state after `load()` and `loadCache()`:

- the configured roots are never nested (`addDirectory` keeps them so);
- each root's tree is the cached tree of the files hashed when the cache was written.

### 3.5 Fairness

Weak fairness holds for:

- the refresh thread's steps;
- the hasher's steps;
- the commit of a started `addDirectory`.

These are threads that run to completion once started. Nothing obliges a user request, a file edit, a completed bundle or a shutdown, so these have no fairness.

### 3.6 Bounds

`MC_ShareManager` / `ShareManager.cfg` use:

- three directories: `pa`, and `pb` with a subdirectory `pbsub`;
- one file in `pa` and one in `pbsub`;
- two contents of sizes 1 and 2;
- two virtual names;
- `MaxEdits = 1` modification on disk;
- `MaxRequests = 2` requests (refresh, add, remove, rename, bundle hashed).

These bounds are enough for the cases that matter:

- Nested roots exist, so `addDirectory` of an overlapping path and `BundleHashed` of a subdirectory occur.
- Two independent roots exist, so a directory refresh has another root to leave alone.
- The sizes differ, so a size mismatch is visible.
- Two requests allow a refresh racing an add or a remove. They also allow a second scan while a file queued by the first is being hashed.

Deadlock is not checked: once the requests are used up, every thread is idle and waits, as the program does.

### 3.7 Runs

The pass run is `share_core` (`ShareManager.cfg`). Its `Init` picks a mode. In the mode "share" it explores the share engine: about 312,000 distinct states. In the mode "exclude" it explores the excluded-folder calls of section 3.9. The run takes about two minutes. It checks:

- **TypeOK.**
- **IndexConsistent.** Every live root's `tthIndex` holds exactly one ⟨TTH, file⟩ entry per file of its tree. This concerns `onFileHashed`'s erase and reinsert, `updateIndices`' duplicate check, `cleanIndices` and `rebuildIndices`.
- **HashedFilesShared.** Once the threads are idle and the hasher has nothing queued, every hashed file under a root is in its tree. A hash that lands in a tree the refresh then replaces is recovered, because the refresh's own `checkTTH` queued the file again.
- **RefreshCompletes.** `refreshing ~> ~refreshing`, including the shutdown abort.
- **SpliceKeepsOtherRoots.** An action property: a directory refresh changes only the roots it refreshed.
- **ExTypeOK** and **ImplementsExcludeAbstract**, for the excluded folders (section 3.9).

The violation runs each check one property. Each shows a disagreement between the code and what it should do (see `findings` in `PROJECT.json`):

| Run | Property | What TLC finds |
|---|---|---|
| `refresh_path_removed` | RefreshPathsConfigured | `removeDirectory` after `refresh(aDir)` and before `getDirectories`, which then dereferences `shares.end()` |
| `shared_roots_diverge` | SharedRootsMatchConfig | a root removed during a refresh of it is put back by the splice. The same splice, under `REFRESH_ALL`, also drops a root added during the scan. |

`SharedSizeMatches` is defined in the module but is not one of the runs. It says that `sharedSize` is the total size of the shared trees. TLC finds it violated: `on(BundleHashed)`'s `cleanIndices` removes the bundle directory's files without subtracting their sizes, and `updateIndices` adds the rebuilt files' sizes again. `addDirectory` does the same when `directories.insert` keeps an existing root. The hazard list records it. The newer core's `ShareDirectory::cleanIndices` subtracts; section 8 checks that accounting.

`ShutdownAbortsRefresh` is defined in the module but is not one of the runs. TLC finds it violated: a shutdown after the last `buildTree` does not stop the splice, contrary to the spec. The hazard list records it.

`EntrySizeMatchesTTH` is also defined in the module but is not one of the runs. It says that `onFileHashed` stores a TTH together with the size of the content that was hashed. TLC finds it violated: the code stores the size on disk at callback time, so a file rewritten during hashing gets the wrong size. The hazard list records it.

### 3.8 Mutants

Each property of the pass run has a mutant that breaks it. The mutant is an operator placed just before the definition it replaces:

| Property | Mutant | Change |
|---|---|---|
| TypeOK | `GetDirectoriesNoName` | an unconfigured refresh path gets no name |
| IndexConsistent | `RehashFileKeepsOldEntry` | the old index entry is not erased |
| HashedFilesShared | `AddHashedFileIgnored` | a file not yet in the tree is ignored |
| RefreshCompletes | `ScanRootAbortKeepsFlag` | the abort skips `refreshing.clear()` |
| SpliceKeepsOtherRoots | `EraseRefreshedAll` | a directory refresh clears every root |
| ExTypeOK | `AddExcludeFolderNoLower` | the excluded path is stored as given, not lower-cased |
| ImplementsExcludeAbstract | `AddExcludeFolderFullSize` | excluding a parent does not subtract the sizes of the exclusions it replaces |

### 3.9 Excluded folders

`ExcludeFolders.tla` models the list `notShared` of `src/ShareManager.cpp` and the three functions that use it:
- `AddExcludeFolder(path)` is `addExcludeFolder` when the call goes through. The guard is the code's two early returns: `path` must be longer than a share and start with it, and it must not be at or below an existing exclusion. The action erases the exclusions below `path`, appends `path` lower-cased, and adds to `bytesExcluded` what the call returns: the size of `path` minus the sizes of the erased exclusions. A refused call changes nothing and is a stuttering step.
- `RemoveExcludeFolder(path)` is `removeExcludeFolder(path, true)`. It erases every exclusion at or below `path` and subtracts their sizes. `returnSize = false` is for folders already gone from disk, and this model deletes none.
- `ShareFolder(path, thorough, quick)` is `shareFolder` in all three of its modes. `BuildTree` is the descent of `buildTree`: it enters a subdirectory (its name plus the separator) only if `ShareFolder(d, FALSE, FALSE)` holds.

`bytesExcluded` is the caller's running total of the returned sizes. The settings page uses that total to adjust the share size it shows.

Paths are TLA+ strings in ShareManager's form: real paths that end in `\`. Comparisons follow the code:
- `stricmp` compares lower-cased strings, and `Text::toLower` on ASCII is `AsciiCase.tla`;
- `Util::compare` compares exactly;
- `Util::getDirSize` sums the files below a path on a file system that ignores case.

`Util` is not in this tree, so these three are marked `spec_modelled`.

The `share_core` run's exclude mode has:
- two shares, `s\` and `t\`;
- below `s\`, the folders `a\`, `a\b\` and `ab\` (`ab` starts like `a`);
- `t\D\`, whose real name is upper-case;
- an unshared root `u\` with `u\c\`.

The inputs include the share root itself, the unshared `u\c\`, and `S\A\` for `s\a\`. The list's bound `MaxExcludes = 4` is never reached: the largest list of non-nested exclusions has 3 entries.

`ExcludeAbstract.tla` is what the list promises, as a set `hidden` of directories:
- excluding a visible folder inside a share hides its subtree;
- taking an exclusion back shares its subtree again, unless the folder lies inside another hidden folder;
- the caller's total grows and shrinks by the size of what is hidden or shared.

The property is **ImplementsExcludeAbstract.** Under the mapping `hidden <- ` the subtrees of the entries and `bytes <- bytesExcluded`, the module implements `ExcludeAbstract`. This needs the prefix tests, the erase of the exclusions below, the lower-casing and the size arithmetic all to be right. The input `t\d\` names the directory `t\D\`, so the mapping is checked across real and input case.

`RefreshHonoursExclusions` is defined but is not a property of the run. It says that a refresh shares exactly the directories below a share that no exclusion covers, tying `buildTree`'s descent and `shareFolder` to the list. TLC finds it violated in this model: after `t\d\` is excluded, `shareFolder` compares the real-case `t\D\` exactly with the lower-cased entry, and the refresh still shares it. With only lower-case directories the property would hold by construction and hide this, so it is left out of the run. The run budget is spent on the findings of other runs.

The mapping is restated in `MC_ShareManager` with the subtree map evaluated once. TLC re-evaluates a constant definition of an instanced module at every use, and doing so on each of the million share-engine steps cost minutes.

Two hazards are outside the run:
- **Case.** `addExcludeFolder` stores the path lower-cased, but `buildTree` asks about each directory in its real case, and `compare` is exact. A directory whose real name has an upper-case letter therefore stays shared after it is excluded. `RefreshHonoursExclusions` fails on `t\D\`, as described above. `ImplementsExcludeAbstract` holds, because its mapping goes only through `stricmp`. `Util::compare` is not in this tree, so the exact compare is an assumption.
- **Erase.** The erase loops do `j = erase(j); j--;`, which decrements `begin()` when the first entry goes. That is undefined behaviour. The model takes the release-build outcome.

`shareFolder`'s thorough mode tests `path[e.size()] == '\\'`. With exclusions that end in the separator, that character is the first one of the next name, so the mode never refuses a subfolder of an exclusion. No caller in this tree uses the thorough mode.

## 4. Module UploadBundles

`UploadBundles.tla` models the upload side of the bundle protocol:
- `UploadBundleInfoReceiver.cpp` handles the UBD and UBN commands a downloader sends;
- `UploadBundle.cpp` is the per-bundle object.

### 4.1 State

| Variable | Code |
|---|---|
| `bundles` | `bundles` (bundle token → `UploadBundlePtr`) |
| `uploadMap` | `uploadMap` (upload token → `UploadBundlePtr`) |
| `bUploads`, `bDelay`, `bSingle`, `bSize`, `bSegments` | `UploadBundle::uploads`, `delayTime`, `singleUser`, `size`, `uploadedSegments` |
| `live` | the uploads the upload manager holds |
| `pending` | per connection, the lambdas posted with `UploadManager::callAsync`, in order |
| `udp` | the UDP thread between a failed `callAsync` and its `uploadMap` save (lines 316–321) |

A bundle object is a pair `<<token, generation>>`. The code holds `shared_ptr`s in `uploadMap` and in the posted lambdas. So a bundle that was removed and then created again under the same token is a different object. The properties have to tell those two apart.

### 4.2 Actions

Each UBD flag has its own action, and UBN has one:
- `CreateBundle` for AD. A create for an existing token runs `changeBundle`, which is the `ChangeBundle` action.
- `ChangeBundle` for CH.
- `UpdateBundleInfo` for UD, with MU, SU and size.
- `RemoveBundleConnection` for RM.
- `OnUBN`.

All of them go through `AddBundleConnection` and keep its line-304 call `removeBundleConnection(aUploadToken, aBundle)` exactly as written. FI only fires an event, so it has no action.

The other actions:
- The upload manager's `Created` and `Removed` events are `UploadCreated` and `UploadRemoved`.
- A queued lambda runs as `RunCallback`. It is `addBundleConnectionUnsafe` or `removeBundleConnectionUnsafe`.
- The Second timer's `removeIdleBundles` is `RemoveIdleBundles`. The tick/speed part of the timer changes no modelled state.

The `UploadBundle` methods these handlers call are operators of their own, used inside the actions: `NewBundle` (the constructor), `SetSingleUser`, `AddUpload`, `AddUploadedSegment` and `RemoveUpload`. The speed counters (`currentUploaded`, `speed`, `actual`, `totalSpeed`) are not modelled. Of these, `setSingleUser` writes only `currentUploaded` and `totalSpeed`.

Commands are inputs chosen freely, in any order. UDP may lose, repeat or reorder them, and a downloader may send anything.

`UploadManager::callAsync` is not in this source tree. The model assumes the following:
- it posts to the connection's thread;
- the connection runs posted tasks in order;
- the tasks die with the connection.

### 4.3 Fairness and bounds

Weak fairness applies to three things:
- the UDP thread finishing its handler;
- each connection running its queue;
- the timer, which `TimerManager` fires every second.

The commands and connections come from the environment and get no fairness.

`UploadBundles.cfg` uses these bounds:
- two bundle tokens and two upload tokens;
- one generation per token;
- size 1;
- three commands;
- two connection creations;
- `BUNDLE_DELAY_SECONDS` = 1.

With these bounds a connection can be moved between two bundles and both bundles can expire. The run has 332k distinct states and takes about 90 s. The violation configs use sizes {1, 2}, which a size shrink needs.

Each run in `PROJECT.json` asks one question:
- `upload_bundles` (pass) checks `TypeOK` and the liveness property `IdleBundleExpires`: a bundle left without connections is eventually removed.
- `connection_in_two_bundles` shows the line-304 bug. After a CH or AD to a new bundle, the connection is in both bundles, so the old bundle never becomes idle.

Two more properties are defined but kept out of the runs. The hazard list records both:
- `UploadMapTargetsAlive` is violated when `uploadMap` is saved for a bundle the timer has already erased. In the code this needs `BUNDLE_DELAY_SECONDS` of idleness inside the window.
- `SegmentsWithinSize` is violated because `setSize` does not clamp `uploadedSegments`.

The mutants are:
- `AddUploadedSegmentUnchecked` drops the size guard, which breaks `TypeOK`.
- `RemoveIdleBundlesNoTick` never increments `delayTime`, which breaks `IdleBundleExpires`.

## 5. Module HttpConnection

`HttpConnection.tla` models `HttpConnection.cpp`, a one-shot HTTP/1.1 GET over a `BufferedSocket`.

### 5.1 Why the server is the thing explored

The connection listens to its socket. All its handlers run on the socket thread, so they never interleave with each other. The only input the owner gives is `downloadFile`. The behaviour to explore therefore comes from the server and the network.

For every connect, the server (in `Connected`) picks any well-formed response:
- status 200, 302 or 404;
- a Location header for 302: absolute, `/path` or relative;
- a Content-Length, chunked (one-byte chunks) or close-delimited body of up to `MaxBody` bytes.

`Script` turns that response into the tokens the socket reads:
- in line mode, each token is a line, and a body byte is a line of text;
- in data mode, each token is a byte.

So the connection's choice of mode decides how the server's bytes are interpreted, as in the code.

The network may fail the socket at any time (`SocketFailed`). A server that has sent everything closes the connection (`ServerClosed`).

`BufferedSocket`, `LinkUtil` and `Util` are not in this source tree. The model assumes the following about them:
- `setDataMode(n)` passes exactly `n` bytes and then fires ModeChange;
- a socket whose connect threw fires nothing;
- `sanitizeUrl` leaves the abstract URL unchanged.

### 5.2 State and actions

The variables are the members `currentUrl`, `query`, `connState`, `size` and `done`, plus the socket's state and mode. `completes` and `fails` count the Complete and Failed events of the owner's current `downloadFile`. `selfHops` counts consecutive redirects that fetch the same path and query again.

`Line` is the handler's if/else chain, one disjunct per case, in the order of the code:
- `LineChunk`
- `LineStatus`
- `LineLocation`
- `LineBlank`
- `LineHeader`

A URL is a path, a query and whether it shows a port. The loop check compares URLs as strings, so `LocationUrl` builds them exactly as lines 215–233 do. That includes the always-true `port != "80" || port != "443"`.

### 5.3 Runs

- `http_connection` (pass) covers 41,469 states in under 10 seconds. The bounds are:
  - two paths, so a redirect can go elsewhere or come back;
  - queries none and `q`;
  - bodies up to 3 bytes (three chunks);
  - three redirects and three `downloadFile` calls, so a request starts after a completed one and after a failed one.

  It checks:
  - `OutcomeOnce`: at most one Complete or Failed per `downloadFile`;
  - `FramedBodyComplete`: Complete only after the whole Content-Length or chunked body;
  - `ImplementsHttpRequest`: the refinement described below.

  The "too much data" branch of `on(Data)` is never taken, because a socket in data mode never passes more than it was asked for.

  Deadlock checking is off: after the owner's last call the connection is idle, as it is in the program.
- `BodyComplete` is defined but is not one of the runs; the hazard list records it. TLC finds it violated. A 200 response without Content-Length is taken as chunked (line 250), so the first body line is read as a chunk size and the request completes with nothing read.
- `redirect_loop_with_query` (violation). `/p?q` answered with a redirect to `/p` is fetched again forever. The loop check at line 235 runs before line 242 appends the query.

`HttpRequest.tla` is the abstract specification. It states what the connection promises its owner through `HttpConnectionListener`. The owner's request is idle, running, completed or failed. `downloadFile` starts a request, or fails it at once when the connect throws. A running request ends with Complete or Failed. Weak fairness on those two steps says that a started request is never left hanging.

`HttpConnection` instantiates it with the refinement mapping `RequestStatus`, which is read off the `completes` and `fails` counters of the current `downloadFile`. Redirects, headers, chunks and data are stuttering steps of the abstract request. The liveness half holds only under the fairness of the socket thread described above. Every handler path that calls `abortRequest` must also fire an event. A path that only aborts leaves the owner waiting for ever.

`OutcomeOnce` stays a separate invariant. The mapping shows the first outcome, so a second one would be invisible to the refinement.

The mutants are:
- `DataEndsLate`, which ends the data mode one byte late and breaks `TypeOK`;
- `AbortRequestKeepsListener`, which breaks `OutcomeOnce`;
- `ModeChangeCompletes`, which completes at the end of every chunk and breaks `FramedBodyComplete`;
- `LineStatusNoFailed`, whose unexpected-status path aborts without firing Failed, and which breaks `ImplementsHttpRequest`.

Weak fairness applies to the socket thread's handlers and to the server's close. Network failures and owner calls get none.

## 6. Module Text

`Text.tla` models the UTF-8 functions of `src/airdcpp/Text.cpp`:

- `Utf8ToWc(s, k)` is `utf8ToWc` applied at byte `k`, and `Continue` is its loop over the continuation bytes. The result is the pair (return value, `c`).
- `WcToUtf8(c)` gives the bytes `wcToUtf8` appends.
- `ValidateUtf8` is `validateUtf8`'s loop.

These are pure operators (RECURSIVE where the code loops). The code's masks and shifts are written as the equal arithmetic on powers of two (`x & 63` is `x % 64`, `x >> 6` is `x \div 64`), because the Bitwise module's recursive operators made the run too slow.

`utf8ToWide`'s and `wideToUtf8`'s loops are actions, one iteration per step:
- `SanitizeUtf8(s)` starts the decode loop;
- `WideToUtf8(w)` starts the encode loop on its own;
- `Utf8ToWideStep`/`Utf8ToWideEnd` and `WideToUtf8Step`/`WideToUtf8End` run the loops.

Two more functions return at once, so they are operators with a call action each:
- `ToLowerUtf8` is `toLower(const string&)`, and its loop is `ToLowerFrom`. Each decoded character is lowered and encoded again with `WcToUtf8`. A rejected sequence becomes `_`, and the cursor skips the `abs(n)` bytes `utf8ToWc` examined. `TowLower` is `towlower` in the locale that `Text::initialize` installs from the environment with `setlocale(LC_ALL, "")` (Text.cpp line 45). The model takes the C/POSIX locale, which an unset `LANG` gives, so only A–Z are mapped. Other locales map more characters (and a Turkish one maps `I` to `ı`); those tables are not modelled. The Win32 `CharLowerW` table is not modelled.
- `ToDOS` is `toDOS`, and its loop is `DOSLoop`. The string and wide overloads run the same loop. The loop runs from index 1 while `i < size() - 1`, with the size read again after every insert, exactly as in the code.

The charset conversions call the C library, which is not in this source tree. The module models what glibc does for them, and that model is the environment assumption of these runs:
- `AcpToWide` is `acpToWide` in a UTF-8 locale. Its loop is `AcpToWideFrom` and `MbrtowcLen` is `mbrtowc`: 0 at a NUL, the length of a well-formed character, otherwise -1. A rejected byte becomes `_` and is skipped.
- `ConvertCall` is `convert(str, from, to)`, and `ToUtf8`/`FromUtf8` are its two wrappers. `Iconv` is one `iconv` call. It converts character by character and stops with `EINVAL` (a character cut short by the end of the input), `EILSEQ` (invalid, or not representable in the target) or `E2BIG` (no room). `Decode` and `Encode` give iconv's view of UTF-8, ISO-8859-1 and big-endian UCS-4. An unknown charset makes `iconv_open` fail and `convert` return an empty string.
- `ConvertLoop` is `convert`'s loop. The buffer starts at twice the input length and doubles on `E2BIG`. Writing resumes at `used`. The `EILSEQ` branch writes `_` without advancing (`Underscore`), and the other error branch calls `tmp.replace` (`Replace`). The loop ends with the cut to `len - outleft`.
- `With(v, F)` binds an intermediate result, such as one `iconv` call's outcome, once. A `LET` definition or an operator argument would be evaluated again at every use while TLC profiles coverage.

A byte past the end of the string reads as the NUL terminator, which `utf8ToWc` relies on. The width of `wchar_t` is the constant `WcharBits`: 32 on Linux, 16 on Windows. Assignments to `c` wrap modulo 2^16 only in the 16-bit build, because a 21-bit value never wraps a 32-bit `wchar_t`.

The reference is RFC 3629, written independently of the code:
- `RFCCharLen` is the RFC's table of well-formed sequences, with its restricted second bytes after E0, ED, F0 and F4;
- `RFCCodePoint` is its decoding;
- `RFCEncode` is its encoding.

### 6.1 Runs

- `text_utf8` (pass) runs `MagnetSpec` from `Magnet.tla`, which adds the magnet calls of section 6.2 to the Text calls. It explores about 379,000 states in about 25 seconds. The inputs are:
  - every byte string of up to 4 bytes over 13 byte values, one of each class the RFC and `utf8ToWc` tell apart. The same strings feed `acpToWide`;
  - every byte string of up to 4 bytes over `ConvBytes`: ASCII `A`, the continuations 80 and A0, the leads C2 and E0, and the never-valid F8. These feed `toUtf8` from UTF-8, Latin-1 and an unknown charset, and `fromUtf8` to Latin-1, UCS-4 and UTF-8. Between them they reach each of iconv's outcomes: `EILSEQ` (F8, a stray continuation, U+0800 into Latin-1), `EINVAL` (a lead at the end), `E2BIG` (ASCII into UCS-4, two-byte characters from Latin-1), and `E2BIG` after output was already written. The smaller set keeps the step from the initial state, which computes every call at once, within seconds;
  - every wide string of up to 2 characters over the 14 code points at each boundary of `wcToUtf8` and of validity;
  - every `toDOS` input of up to 4 characters over CR, LF and `a`.

  It checks:
  - `EncoderMatchesRFC`: the output is the RFC encoding of each wide character, with U+FFFD for invalid ones;
  - `DecoderMatchesRFC`: a well-formed string decodes to the RFC's code points;
  - `ToLowerMatchesRFC`: `toLower` returns well-formed UTF-8 for any input, and for well-formed input only the case changes;
  - `DOSConversionStable`: text already in DOS form is returned unchanged, and a second `toDOS` changes nothing;
  - `AcpToWideMatchesRFC`: a well-formed string without NULs decodes to the RFC's code points, and a malformed one gets a `_`;
  - `ConvertComplete`: a convertible string comes out as exactly the target encoding of each of its characters, however often the buffer grew, and a Latin-1 string survives `toUtf8` and then `fromUtf8`;
  - `MagnetMatchesReference`: see section 6.2.
- `ConvertMarksInvalid` says that `convert` leaves a `_` for input it cannot convert, as both error branches intend. TLC finds it violated by `toUtf8` of the single byte 0x80 from UTF-8, which gives an empty string. The `EILSEQ` branch writes its `_` at `used` without advancing, and the final cut drops it. The project's violation runs are spent on other findings, so the hazard list records it.
- `DOSConvertsAll` says that every line ending comes out as CR LF. TLC finds it violated by the one-character string LF. The loop never looks at the first or the last character, so a leading LF and a final CR or LF stay bare. The project's violation runs are spent on other findings, so this one is recorded in the hazard list only.
- `overlong_utf8_valid` (violation). `validateUtf8` accepts `C0 80`. `utf8ToWc` never checks that a value needed as many bytes as were used, so it also accepts `E0 80 80` and `F0 80 80 80`. `sanitizeUtf8` turns `C0 80` into a NUL byte.
- With `WcharBits = 16`, `DecoderMatchesRFC` fails: `F0 90 80 80` (U+10000) decodes to 0. None of the runs uses that setting; the hazard list records it.

The mutants are:
- `Utf8ToWideStepNoAbs`, which advances by the negative return value and breaks `TypeOK`;
- `WcToUtf8LateThree`, which encodes U+0800 in two bytes and breaks `EncoderMatchesRFC`;
- `Utf8ToWcLeadMask`, which keeps six bits of every lead byte and breaks `DecoderMatchesRFC`;
- `ToLowerRawByte`, which copies a rejected byte through instead of writing `_`, and breaks `ToLowerMatchesRFC`;
- `DOSLoopNoLookahead`, which gives every CR an LF whether or not one follows, and breaks `DOSConversionStable`;
- `AcpToWideByteStep`, which advances one byte after every character, and breaks `AcpToWideMatchesRFC`;
- `ConvertLoopRestart`, which writes from the start of the grown buffer after `E2BIG`, and breaks `ConvertComplete`;
- `TokenFirstHashWins` (of `Token` in `Magnet.tla`), which keeps the first hash of a type as `emplace` would, and breaks `MagnetMatchesReference`.

### 6.2 Magnet links

`Magnet.tla` extends `Text` and models `src/airdcpp/core/classes/Magnet.cpp`:
- `Token` is one iteration of the constructor's loop. It lowers the key with `StrToLower` (Text's `toLower` on ASCII) only when the token has an `=`. It then tries the four URN forms of `UrnHash`, each recognised by its exact length and a case-insensitive prefix (`Strnicmp`). A URN sets `hashes[type]`. Otherwise a type of `dn` sets the name and `xl` the length (`ToInt64`, 0 for text that is not a number).
- `Magnet` folds `Token` over the link from `Empty` (`fsize = -1`). `PickHash` then takes `xt`, else `xs`, else `as`.
- `ParseMagnet` refuses a magnet without a name, a length or a hash, or with a hash that is not 39 base32 characters. `MakeMagnet` writes `xt`, then `xl` only for a positive size, then `dn`.
- `MagnetCall` and `MagnetReturn` put one link in the variable `magnet` while no Text call is running. This makes the property a state predicate that is evaluated once per link.

A link is a sequence of up to 3 of 13 tokens. They are given after `LinkUtil::encodeURI` (percent-decoding) and `StringTokenizer`, neither of which is in `src/`. The tokens cover:
- `xt` in lower and upper case;
- `xs` as a bitprint;
- `as` in the `/1024` form;
- the `/:` form with a hash that is not base32;
- a 38-character hash;
- a `dn` whose value is a URN;
- two names;
- `xl` of 2 and of -1;
- bare `dn` and `XL` without `=`.

Hashes are real 39-character strings, because the code tells URNs apart by length.

`MagnetMatchesReference` compares `Magnet` with `RefMagnet`, which is written from the constructor's comments. In the reference, each field comes from the last token that supplies it, and the hash is that of `xt`, else `xs`, else `as`, whatever the order of the tokens.

`MakeMagnetParses` says that a link `makeMagnet` writes parses back to the same hash, name and size. It is violated at size 0: `makeMagnet` leaves out `xl`, so `fsize` stays -1 and `parseMagnet` refuses the link. The hazard list records it.

`aLink.substr(8)` throws on a link shorter than 8 characters inside the `noexcept` `parseMagnet`. This is a hazard, but it is outside the model.

## 7. Module ShareSearch

`ShareSearch.tla` models the read side of `src/ShareManager.cpp` over one share tree. `Init` picks one of four modes, and each behaviour is one call:

| Mode (`pc` in Init) | Code | Actions |
|---|---|---|
| `"start"` | ADC `ShareManager::search(params)`, `AdcSearch`, `Directory::search` | `Start`, `TopStep`, `TopEnd`, `FileStep`, `FilesDone`, `ChildStep`, `Exit` |
| `"nmdc"` | NMDC `ShareManager::search` and its `Directory::search` | `NmdcSearch` |
| `"lookup"` | `toRealWithSize`, `getTTH`, `getFileInfo`, `toVirtual`, `getRealPaths`, `getRealPath(TTH)` | one action each |
| `"temp"` | `addTempShare`, `removeTempShare` | `AddTempShare`, `RemoveTempShare`, repeated |

The ADC walk is modelled step by step because of the `aStrings.include` pointer it shares between frames (7.2). The NMDC search and the lookups run under the read lock, and their frames share nothing. So each is one atomic step whose result a RECURSIVE operator computes (`NmdcDir`, `Walk`, `FindVirtuals`, `FindFile`).

### 7.1 Data abstraction

The tree has a fixed shape, set by constants: two roots, R1 with a subdirectory D1 holding file F1, and R2 holding file F2. Both files have TTH t1. The temp shares start as t2 with no key, t2 with key `other`, and t1 with no key.

A name is abstracted differently for each use:
- **For a search:** a name is the set of terms it contains, so `StringSearch::match` is membership.
- **For a lookup:** a name is one of `x` and `y`. A root's virtual name is one of `S` and `T`. Names are distinct within a directory, as the `Directory::Map` and `File::Set` keys are.
- **For the NMDC type checks:** a file name is its ending, with these fields:
  - the last three characters, which is what `IS_TYPE` compares;
  - the type2 suffixes it ends with;
  - whether it is ASCII;
  - whether it has at least five characters;
  - whether `RAR_regexp` matches it.

  The endings are `song.mp3`, `tune.669`, `a.xm` and `readme`. The extension tables are the code's, in full.

`Init` chooses:
- the names;
- for ADC, the parameter list (up to two parameters), `maxResults` and the roots the hub excludes;
- for NMDC, the files' endings.

The lookup and NMDC actions choose their inputs:
- a virtual path of up to three segments, including empty segments and a trailing `/`;
- a TTH or a file-list name;
- the user's hubs, each with its unshared roots;
- the user's CID;
- for NMDC, the query: `$` tokens, search type, size, file type and `maxResults`.

The bloom filter passes any term that some name contains. It may also pass a term no name contains, as a false positive.

`hasType` is not in the repository. It is modelled from the spec's content-type mask, and a search for any type is never pruned (`HasType`, marked spec_modelled). The mask itself is computed as the code does: `addType(getType(name))` for every file below the directory.

### 7.2 The include pointer

The recursion is an explicit stack of frames. `aStrings.include` is the variable `include`. It is the id of the list it points to:
- `"base"` is `includeX`;
- a directory id is the `newStr` that directory's frame owns.

A frame's return frees its list (`freed`). `Exit` compares the two lists' sizes as line 2215 does. When `include` points to a freed list the read is undefined, so both outcomes are allowed and `dangling` records the read.

### 7.3 Runs

`share_search` (pass) explores about 2.3 million states in about 2 minutes. Deadlock checking is off, because each behaviour is one call, which returns; the temp mode never stops. It checks:
- `TypeOK`.
- `SearchResultsMatch`: an ADC name search returns only matches of the reference, each once, and all of them unless it stopped at `maxResults`. The reference (`RefMatches`) is declarative: a term is consumed by any non-excluded directory name on the path, and the file tests use the remaining terms.
- `ToRealMatchesShare`: `toRealWithSize` serves a shared file exactly when one the user may see has the asked virtual path or TTH. A root is hidden only when every hub the user is in unshares it. This holds whichever of the roots sharing a virtual name has the file. Otherwise it serves a temp share of the TTH with no key or the user's CID. `getTTH` answers for the same files.
- `RealPathsComplete`: `getRealPaths` of a directory path returns every directory with that path, one per root of the virtual name.
- `RemovedTempShareGone`: after `removeTempShare(key, tth)` no temp share of that key and TTH remains. This holds because `addTempShare` never inserts a second one.
- `NmdcResultsMatch`: an NMDC name search returns only matches of the reference `NmdcRef`, each once. A search of any type or of directories returns all of them, unless it stopped at `maxResults`.

`search_include_dangling` (violation), on `NoDanglingInclude`. The trace:
1. `AN a` is searched with `maxResults` 1.
2. D1 is named `a`. D1 consumes `a`, adds itself without a cap check, and adds F1.
3. F1's result reaches `maxResults`, so D1 returns early: its `newStr` is freed and `include` still points to it.
4. R1's frame then reads `include->size()`, which is a use after free.

The mutants, each a plausible bug in the code, and the property each breaks:

| Mutant | What it does | Breaks |
|---|---|---|
| `FileStepSkipsNext` | advances twice past a non-matching file | `TypeOK` |
| `VisitConsumesExcluded` | a directory name that matches an exclude term still consumes include terms | `SearchResultsMatch` |
| `GetByVirtualNoExclusion` | forgets the hub exclusion | `ToRealMatchesShare` |
| `GetRealPathsFirstOnly` | returns after the first directory | `RealPathsComplete` |
| `AddTempShareNoKeyCheck` | inserts a duplicate | `RemovedTempShareGone` |
| `NmdcDirNoErase` | passes the caller's terms on | `NmdcResultsMatch` |

Four more properties are defined in the module but are not among the runs. TLC finds each violated. The hazard list records the first (the results cap); the other three are recorded only here, because the hazard list is full:
- `ResultsCapped`: a directory result is added without checking `maxResults`, so the ADC search returns `maxResults + 1` results.
- `DirResultsAllowed`: a directory whose name is excluded, or a directory in a TY1 (files only) search, is returned when no terms are left.
- `FileInfoVisible`: `getFileInfo`'s hub-exclusion check is commented out (line 377). A hub that unshares R1 is therefore told the path of a file in R1.
- `NmdcTypedSearchComplete`: `getType` tries `RAR_regexp` before the category lists. So `tune.669`, an audio type, marks its directory as compressed, and an NMDC audio search never looks there.

Not modelled here:
- `Directory::getRealPath`'s check that the file exists, and its `findRealRoot` fallback, which depend on the file system;
- the file-list generation that `toReal` triggers for `files.xml.bz2`;
- `getTree`;
- the release-name lookups `isDirShared`/`getDirPath`;
- the NMDC search statistics.

## 8. Module ShareDirectory

`ShareDirectory.tla` models the node API of the newer core's share tree, `src/airdcpp/ShareDirectory.cpp`. The code's callers (the newer ShareManager's refresh and root management) are not in this source tree. The model therefore lets an environment call the API in any order that spec sections 4.1 and 4.2 allow, keeping the preconditions the code asserts with `dcassert`.

State:
- each node is a model value of `Dirs`;
- `alive`, `parent`, `subdirs`, `realName`, `root` and `files` are the node fields;
- `size` is the level size;
- the caller's `sharedSize_`, `tthIndex_`, `dirNameMap_`, `rootPaths_` and `dirtyProfiles_` are variables. The two multimaps are bags.

A name is a model value, and `Lower` is its lower-case form. Children and files are keyed by it, as the sorted vectors are.

Actions:
- `CreateRoot` and `CreateNormal` use `Construct` (the constructor) and `AddDirName`. `createNormal` returns nullptr with no change when a sibling has the same lower-case name.
- `SetParent` hangs a detached fragment under a node.
- `AddFile` first removes a same-key file from the indices, then indexes the new one. With a dirty set, it calls `CopyRootProfiles`.
- `RemoveSubtree` is the static `cleanIndices` followed by the caller's release. The recursion over `Subtree` unindexes every file and directory, and the subtree is erased from its parent by key.
- `RemoveRoot` and `RenameRoot` are spec 4.2's `remove_root` and `rename_root`. They compose the same calls.
- `SetRootProfile` is `addRootProfile` or `removeRootProfile`.

The queries are operators: `GetTotalSize`, `GetContentInfo`, `GetProfileInfo`, `CountStats`, `GetAdcPath`, `GetRealPath` and `FindDirectoryByPath`.

The run `share_directory` (pass) uses three nodes, names `na`/`nA` (equal when lowered) and `nb`, two spellings of one file name, one hash, sizes 1 and 2, one root path and one profile. Node symmetry applies. With the list mode of section 8.1 it explores about 125,000 states in about 2 minutes. With three nodes there is a root with a child and a grandchild, or a fragment beside a root. Case-equal names exercise the duplicate checks, and the two file spellings exercise replacement. It checks:
- `TreeLinksConsistent`: parent and child links agree both ways, siblings have distinct lower-case names, and there are no cycles (spec 3);
- `IndicesMatchTree`: the TTH bag and the name bag hold exactly one entry per live file and live directory;
- `SizesMatchFiles`: level sizes, `sharedSize`, and the `getTotalSize`, `getContentInfo`, `getProfileInfo` and `countStats` aggregates all agree with the files;
- `FindInvertsAdcPath`: `findDirectoryByPath` finds every directory from its ADC path.

The root registry (`rootPaths_`) is kept in the state, but no property is stated about it. With one root path only one root can be live, so a uniqueness property would restate `createRoot`'s assignment. Spec 4.2's case of two roots with nested real paths needs several real paths, and they would multiply the state space.

The mutants are:
- `AddFileSwapSizes` (`TypeOK`);
- `SetParentNoInsert` (`TreeLinksConsistent`);
- `AddFileKeepsOldEntry` (`IndicesMatchTree`);
- `CleanIndicesKeepSharedSize` (`SizesMatchFiles`);
- `FindDirectoryByPathNoEndTest` (`FindInvertsAdcPath`);

`FindAcceptsBarePath` says that a path without the trailing separator is found too. TLC finds it violated. Without a separator `find` returns npos, `npos + 1` wraps to 0, and the search goes one level deeper with the same name. No caller in this tree passes such a path, so the hazard list records it.

### 8.1 The file-list merge

`FileListMerge.tla` models what a peer receives as the newer core's file list. `ShareDirectory::toFileList` (lines 528–546) merges the roots into a tree of `FilelistDirectory` entries. `FilelistDirectory::toXml` (585–633) and `filesToXml` (636–663) write it.

- A share directory is a record: name, `lastWrite`, files (name and size) and subdirectories.
- `ToFileList` finds the entry of the directory's lower-case name, or creates it (`NewListDir`). It raises the entry's date to `lastWrite`, appends the directory to `shareDirs`, and with `aRecursive` merges each subdirectory into that entry.
- `ToXml` writes an entry.
  - Recursively, it writes the child entries and the files `FilesToXml` chooses. The first share directory with files writes them all. A later one writes a file only if no earlier share directory has its lower-case name; otherwise the file counts as a dupe.
  - Otherwise, it writes the entry with the sums of `ContentInfo` (`getContentInfo`) over its share directories.
- XML escaping, indentation and the dupe report callback are left out. An entry is a record of what it states.

The caller, the newer ShareManager's list generation, is not in this tree. Its steps are spec-modelled:
- `GenerateList`: a request with a root sequence and `aRecursive`;
- `MergeRoot`: one `toFileList` per root, in order;
- `WriteList`: the top entries are written;
- `ListDone`: the list is handed out.

The reference is spec 4.2's "a peer sees the union under one virtual directory". `PathsOf` and `Placed` list every directory of every root by its lower-case path, and `At(p)` gives the directories on path `p` in root order. `RefDir(p)` is the union entry: the first directory's spelling, the latest date, the union of the children, and for each lower-case file name the file of the first directory that has one. `FullInfo` counts what a full entry shows.

The run `share_directory` checks it in a second mode (`mode = "list"` in `MC_ShareDirectory`). That keeps the two state spaces additive. The roots are six trees:
- top names `na`, `nA` and `nb`, where `na` and `nA` are one name;
- subdirectory names that collide across roots in either case;
- the file spellings `fa` and `fA` with different sizes;
- an empty root, and a subdirectory two levels down.

Every sequence of one to three roots is requested, recursively and not. The run checks:
- `ListingIsUnion`: a full list equals `{RefDir(p) : p \in TopPaths}`. Each path and each file name appears once, under the first root's spelling, with the latest date.
- `PartialListingAgrees`: a partial list has one entry per top path, with the full list's name and date. Its size, file and directory counts are never below the full list's, and are equal for an entry of a single root.
- `FlTypeOK`: among the types, every entry of the list root is keyed by a lower-case name.

The mutants are:
- `ToFileListDisplayKey` (`FlTypeOK`), which keys an entry by the display name it is inserted under;
- `FilesToXmlAllFiles` (`ListingIsUnion`), which makes a later share directory write every file;
- `ContentInfoNoFolders` (`PartialListingAgrees`), which drops `folders_ += directories.size()`.

The partial counts are not equal for merged entries. `getContentInfo` is summed over every merged share directory, so a file or directory in two roots of one name is counted twice, while the full list shows it once. Spec 4.2 gives no count, so this is recorded as a hazard and checked as an inequality.

`listDirs` is looked up by `getVirtualNameLower()` but inserted under `&newListDir->name`, the display name. Its comparator is declared in a header that is not in this tree. The model keys the map by lower-case name, which is what the lookup needs. A case-sensitive comparator would list `na` and `nA` twice.

## 9. Not modelled, and why

- **HashManager.** Only its header is in the repository, so the hasher is modelled as the environment the header describes:
  - a set-like work queue;
  - one file in flight;
  - pausing that stops new files but not the one being hashed;
  - `stopHashing` dropping queued files.
- **The rest of Text.cpp.** `wideToAcp` and the Win32 code-page branches call library code with no loop of their own to check. `toLower(wstring)` is `towlower` per character. `isLower`, `isAscii` and `isSeparator` are one-line tests.
- **The older core's file lists, the GUI, startup and boost.** These are formatting, presentation or library code. The newer core's merge and writer are modelled (section 8.1).
- **The older core's file-list cache** (`generateXmlList`, `createFileList`, ShareManager.cpp lines 1455–1575). It is a dirty flag and a generating flag around XML and bzip2 output. Two races stand out:
  - `xmlDirty = false` at the end of `createFileList` loses a `setDirty` made during the generation;
  - a forced generation clears the generating flag while a non-forced one is still running.

  They are listed here, not modelled, because `setDirty` is declared in a header that is not in this tree. The project's run budget is also spent.
- **The release-name list** (`addReleaseDir`, `deleteReleaseDir`, `isDirShared`). `onFileHashed` reaches `addReleaseDir`, which pushes without `sortReleaseList`. `isDirShared`'s `binary_search` then runs on an unsorted vector and can report a shared release as not shared. The list is derived data, and modelling it would need another run.
- **The rest of Magnet.** `getDupeType` and `getTTH` only query `DupeUtil` and `TempShareManager`, which are not modelled. `encodeURI`, `StringTokenizer` and `Encoder` are not in `src/`, so links are given as decoded tokens.
- **Directory sizes, the bloom filter and the release-name list of the older core.** These are derived data. Only `sharedSize` is kept, because it is maintained incrementally and can drift. The newer core's level sizes are modelled in ShareDirectory.
- **The callers of the exclusion calls.** The settings page that calls `addExcludeFolder` and `removeExcludeFolder` is not in this tree. The model takes their results as a running total `bytesExcluded`. `removeExcludeFolder(path, false)` is for folders already gone from disk, and no folder is deleted in the excluded-folder model.
- **ShareDirectory's search, cache XML, TTH list, timestamps and bloom filter.** The search depends on `SearchQuery`, which is not in this source tree. The older core's search is modelled in ShareSearch. The rest is output formatting or disk reads. The file-list merge is modelled (section 8.1).
- **The file list built from the live tree.** `FileListMerge` takes its roots from a fixed set of six trees, not from the tree that `ShareDirectory.tla` builds. Reading the live tree would multiply the two state spaces. The fixed trees reach cases of case collision and depth that the three-node tree cannot.
