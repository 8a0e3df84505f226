# A verification of dtkgui in TLA+

dtkgui is the library between Qt Gui and the Deepin applications: the
application helper (theme, palette, single instance), the platform plugins and
window handles, icons in the DCI format and their animations, thumbnails, file
drags.  This directory holds TLA+ modules that model parts of it, the
configurations with which TLC checks them on small instances, and theorems
about them that TLAPS proves for every value of the constants.

    tlc -workers 2 -config ThumbnailProvider.cfg MCThumbnailProvider.tla
    tlapm Thumbnails_proofs.tla

All paths below are relative to the repository; `PROJECT.json` gives, for every
definition that models code, the lines it stands for.

## 1. Inventory

| part | source | state it keeps | modelled |
|---|---|---|---|
| thumbnail queue | `src/util/dthumbnailprovider.cpp` | queue, recorded removals, flag `running`, lock, thread | `ThumbnailProvider` |
| thumbnail store | same | thumbnails and fail markers on disk, `errorString` | `ThumbnailStore` |
| DCI image player | `src/util/ddciiconplayer.cpp` (first half) | images, current image, frame and loop, frame cache, flags, timer | `ImagePlayerOps`, `DciImagePlayer` |
| DCI icon player | `src/util/ddciiconplayer.cpp` (second half) | icon, mode, queue of transitions, image shown, calls in the event loop | `DciIconPlayer` |
| single instance | `src/kernel/dguiapplicationhelper.cpp` | lock file, local socket, static server and lock | `SingleInstance` |
| application theme | `src/kernel/dguiapplicationhelper.cpp`, `dpalette.cpp` | palette type, size mode, palettes, system and application theme | `AppTheme` |
| platform theme | `src/kernel/dplatformtheme.cpp`, `dnativesettings.cpp` | cached palette, delayed change, settings of the platform | `PlatformTheme`, in `AppTheme` |
| window handles | `src/kernel/dplatformhandle.cpp`, `src/plugins/dplatformwindowinterface.cpp` | handles per window, properties | `PlatformHandle`, `WindowLook` |
| xcb plugin | `src/plugins/platform/xcb/` | properties of windows, radius, titlebar; settings of the theme | `XcbWindow`, `PlatformTheme` |
| treeland plugin | `src/plugins/platform/treeland/` | contexts of windows, pending requests; what the compositor told | `TreelandWindow`, `PlatformTheme` |
| window manager helper, groups, foreign windows | `src/kernel/` | cached window manager, group members | no |
| region monitor | `src/kernel/dregionmonitor.cpp` | registration with a D-Bus service | no |
| file drag | `src/filedrag/` | drag sessions in two processes, static maps | `FileDrag` |
| DCI icons, palettes | `src/util/ddciicon.cpp`, `ddciiconpalette.cpp` | shared icon and image data | `DciIcon`; for the players in their modules |
| icon theme and engines | `src/util/dicontheme.cpp`, `src/util/private/` | caches of paths and pixmaps, engine of each icon | `IconTheme` |
| image processing | `src/util/dimagehandler*.cpp` | file, options, cached image, static table of formats | `ImageFilters`, `ImageHandler` |
| SVG renderer | `src/util/dsvgrenderer.cpp` | next to none | no |
| desktop services, task bar, fonts | `src/util/` | next to none | no |

How they interact.  A client of `DThumbnailProvider` appends requests from its
own threads; the provider's thread serves them, writes to the store, and calls
back.  A widget sets modes on a `DDciIconPlayer`, which drives a
`DDciIconImagePlayer` through signals (`updated`, `finished`) and calls queued in
the event loop; the image player advances the `DDciIconImage` objects it shares
with everybody who holds a copy.  `DGuiApplicationHelper` listens to the
`DPlatformTheme` objects of system and application, which a platform plugin
fills; a `DPlatformHandle` passes window properties to a
`DPlatformWindowInterface`, which the plugin implements.  `setSingleInstance`
connects processes.

What is hard, and what makes each part correct:

- *Thumbnail queue.*  Threads, a lock, a wait condition woken outside of the
  lock, a set touched outside of the lock, a destructor that waits.  Requests
  are answered once and in order, finished removals are honoured, nobody waits
  for ever.
- *Thumbnail store.*  Files are modified while they are read, images written in
  place while others load them, crashes.  What is served is whole and not older
  than what the caller knows; creation is given up only for cause.
- *Image player.*  Every public call may come between two frames; six flags,
  three loop counters, a cache indexed by position.  The right frame is shown,
  nothing is skipped, continued animations resume, aborted ones end.
- *Icon player.*  Requests arrive faster than animations play and are offset,
  merged or reversed; calls are queued.  The queue leads to the last mode, does
  not stall, and the image at rest is that of the mode.
- *Single instance.*  Processes start, exit, crash and ask again in the midst of
  each other's calls.  There is one, it is found, and it is told of the others.
- *Theme, palette, size mode.*  Desktop, saved type, environment and program are
  sources of different precedence, change in any order and are told through timers
  and queued calls; a palette is cached that signals refresh colour by colour.
  Followers end up knowing what is in force; no cached colour is old.
- *Window handles, plugins.*  A window, its surface, its handles and the
  compositor's manager come and go in any order, and properties are set before they
  can be applied.  Whatever was asked reaches the surface there is.
- *File drag.*  Objects of two processes die in any order while signals are on the
  bus and answers overtake them.  The static maps hold no client that deleted itself,
  a client knows what the server has and hears of its end.
- *Icons.*  Files, themes and types change under caches keyed by some of them.  An
  icon's engine and its pictures are those of the theme at the time.
- *Image processing.*  Filters work in integers of a byte over rows with padding;
  look-ups write to a static table; a rotation writes a file someone has open.
  Pixels stay pixels, formats are found alike, a file is turned as asked.

## 2. The modules

| module | extends | models |
|---|---|---|
| `ThumbnailProvider` | | the thread and its queue |
| `ThumbnailStore` | | the files |
| `Thumbnails_proofs` | `ThumbnailProvider`, `ThumbnailStore` | theorems about either |
| `ImagePlayerOps` | | the functions of the image player, as operators on a record |
| `DciImagePlayer` | `ImagePlayerOps` | the image player used by any client |
| `DciIconPlayer` | `ImagePlayerOps` | the icon player with its image player inside |
| `ImagePlayer_proofs` | `DciImagePlayer` | lemmas about image players, theorems |
| `IconPlayer_proofs` | `ImagePlayer_proofs`, `DciIconPlayer` | theorems about the icon player |
| `SingleInstance` | | the processes |
| `SingleInstance_proofs` | `SingleInstance` | theorems |
| `PlatformTheme` | | settings of the desktop as a program reads, caches and writes them |
| `AppTheme` | `PlatformTheme` | palette, type and size mode of an application on top of it |
| `AppTheme_proofs` | `AppTheme` | theorems |
| `WindowLook` | | abstract: a window looks as it was last asked to |
| `TreelandWindow` | instantiates `WindowLook` | a window's helper and its contexts with the compositor |
| `XcbWindow` | | a window's properties on X11 |
| `PlatformHandle` | `TreelandWindow`, `XcbWindow` | the handles of a window on either platform |
| `PlatformHandle_proofs` | `PlatformHandle` | theorems, the refinement among them |
| `DciIcon` | | the images of a DCI file and the search among them, as operators |
| `IconTheme` | `DciIcon` | icons by name: files, engines and caches |
| `FileDrag` | | servers and clients in two processes |
| `FileDrag_proofs` | `FileDrag` | theorems |
| `ImageFilters` | | the filters, as operators on pixels and images |
| `ImageChecks` | instantiates `ImageFilters` | the filters against references, as assumptions TLC evaluates |
| `ImageHandler` | | a handler, its file and the table of formats |
| `Images_proofs` | `ImageHandler`, `ImageFilters`, `IconTheme` | theorems about images and icons |
| `MC...` | one of the above | instances for TLC |

Names are those of the source.  An operator `X_Y` beside an `X`, with a comment
that begins with *Mutant*, is `X` with a plausible bug; nothing uses it, it is
there to see that the property named with it in `PROJECT.json` notices the bug.

### ThumbnailProvider

`produceQueue`, `discardedProduceInfos`, `running`, `dataReadWriteLock` are the
members of the private class; `wpc` and `task` are the program counter and the
request of `run()`, `cpc` and `arg` the call each thread is in, `dpc` the
destructor.  One action is what happens under one acquisition of the lock, or one
access without it: `CallAppend` (which tests `isRunning`), `AppendRaw` (the branch
before the thread runs), `AppendLock`, `AppendPush`, `AppendWake` (`wakeAll` after
the lock is released); `RemoveLock`, `RemoveUnlock`, `RemoveInsertBegin/End` (the
`QSet` is changed after the lock has gone out of scope, in two steps so that two
threads can be inside); `WorkerLock` to `WorkerLoop` (`run()`), with
`WorkerTakeEmpty` for the `dequeue` of an empty queue, after which nothing is
said; `DestroyClear`, `DestroyWake`, `DestroyJoin`.  Callbacks may call the
provider from the worker.  `CallersAssumption` says that only one thread uses the
provider until it runs, because the class offers no safe way to do otherwise.
The rest of the variables are history.

### ThumbnailStore

A file is the sequence of its versions, each with a modification time and a
content that can or cannot be read; a `QFileInfo`, which reads the disk once,
is the number of the version it has seen.  `thumb` and `fail` are the file in the
directory of the size and the marker in the fail directory: absent, partial
(`QImage::save` writes in place) or complete, stamped with a time.  `Create*` and
`Save*` follow `createThumbnail` from one access to the disk to the next,
`Lookup*` follow `thumbnailFilePath` in other threads; `Modify` is any program,
`Crash` the end of this one.  The worker is the only thread that creates.

### ImagePlayerOps, DciImagePlayer

`ImagePlayerOps` has one operator per function of `DDciIconImagePlayerPrivate`,
from the record of the player's members to the next one; indexing a vector out of
range gives the state `"undefined"`.  `DciImagePlayer` wraps them in actions: the
public methods, `readImage` (what a client does on `updated`), `timerEvent`, and
`CopyDies` (the destruction of a copy of a shared image rewinds it).  `Players` is
the set of all such records, of any images, frames, palettes and counters.

### DciIconPlayer

The variable `d` is the record of the icon player and contains the image player's
record; `calls` are the calls of `_q_playFromQueue` that wait in the event loop,
each with the flags it was given.  A request, a queued call or a timer event is
one step with all the signals it emits: `setMode`, `setIcon`, `setLook` (theme,
size and device pixel ratio), `setIconPalette`, `play`, `stopIcon`, `abort`,
`InvokeQueued`, `TimerFires` (two names of the source are lengthened, and its
specification is `IconPlayerSpec`, since the proofs extend both players).  `Transition` says which images the step from one
mode to another shows or plays, and `Perform` does so.  Clients do not call the player from its own signals
and timers can be started (what happens when one cannot is in `DciImagePlayer`).
`meddled` remembers what else than `setMode` was called since the player was last
at rest; the properties use it to say what they tolerate.  `Fluent` are the icons
whose animated transitions are followed by animated ones, but to Disabled: after a
transition without animation the code does not go on with the queue (`icon_queue`
below), so only their queues go on by themselves.

### SingleInstance

`lock` and `path` are the lock file and the path of the socket of each key;
`lockKey` and `listening` the keys of each process's static `QLockFile` and
`QLocalServer`; `server` and `link` its connection as a client, `inbox` the
messages it has not read.  A call is a sequence of steps: `Call` (the server is
closed), `Unlock`, `TryLock`, then `Listen` or `ListenFails`, or `Connect` or
`ConnectFails`, and `Reply`, `WaitFails` or `WaitTimeout`; the event loop does
`NewConnection` and `ReadyRead`.  `ExitUnlock` and `ExitClose` are the destructors
of the two static objects, in that order, because the server was constructed
first.  A key stands for everything the socket's name is made of.  Of Qt it is
assumed that a stale lock can be taken, that `listen()` with access options
renames its socket over the path, that `close()` removes the path, and that a
connection needs no help of the server's event loop.

### PlatformTheme, AppTheme

A *key* stands for the getter, the setter and the change signal of one setting.
`desktop` is what is in effect, `seen` what the getters return, `late` the keys
whose change is on its way; a change carries no value, what it meets when it is
delivered is read.  On X11 the interface is attached from the start, on Treeland
once the manager is active (`ManagerActive`); setters write to the desktop, or do
nothing where the code says so (`XcbWrites`, `TreelandWrites`).  `cache` is the
palette, filled by `ReadPalette` (`palette()`) or colour by colour (`DeliverColor`),
`ticking` and `due` the timer of 300 ms that gathers the changes (`PaletteTick`).

`AppTheme` is the helper.  `links` is how often its slots are connected to the
theme: the function that starts the helper runs again for a second application, and
then each notification is posted twice.  `paletteType`, `mine` (the saved type as
it was read), `appPalette` and the theme decide `InForce`, the palette, and
`ThemeType`; `explicitSizeMode`, `env` and `systemSizeMode` decide `SizeMode`.
`posted` are the queued calls of `notifyAppThemeChanged`, `delay` the timer of
100 ms.  `toldPalette`, `toldType` and `toldSize` are what a follower of the three
signals knows.  `silent` and `silentSize` are history: the last change in what is in
force was one nobody announces, the first read of the saved type or of the cache.

### TreelandWindow, XcbWindow, PlatformHandle, WindowLook

`PlatformHandle` has one action for what a program does with a handle
(`NewHandle`, `DeleteHandle`, `Set`, `BlurArea`, `CallStatic`) and `Environment` for
the events; `platform` chooses the part that answers.  On X11 a property of the window is
what is asked; `heard` is what the followers of each handle have read, `following`
whether the theme's radius is followed, `creatorFilter` the event filter that gives
the titlebar to a window that is not there yet.  On Treeland `member` and
`initialized` are what was asked, `dirty` what is yet to be sent, `context` the
surface whose context the helper has, `look` what the surface looks like.
Surfaces are numbered; 0 is none.  `lost` remembers that a surface went before the
helper was connected to it, whose context is then kept.

`WindowLook` is what the helper promises: a program may ask for features at any
time, and a shown window looks as asked.  `TreelandWindow` implements it with
`want` the helper's members, `effects` whether an effect was ever asked for,
`shown` whether the helper is connected and has a context of the present surface,
and `look` the surface's.  An abstract window may turn out to be shown when it is
asked, since a setter makes the context.

### DciIcon, IconTheme

`LoadIconList` and `TryMatchIcon` are the loader and the search of a DCI icon; `RightMatch`
is their reference: by mode, then type, then size, what the format prescribes.
`InOrder` says that the directories of a file come by size, as the library that reads
it returns them: the search relies on it (`std::lower_bound`).
`IconTheme` has the files as places (theme, own directory, plain, built into the
program), of which some are installed later.  An icon has an engine (`"dci"`,
`"builtin"`, `"xdg"`, `"qt"`) with its cached pixmap; `paths` is `DIconTheme`'s
cache, `nonBuiltin` the built-in engine's.  Actions are the making, copying, use and
end of an icon, a change of theme, type or files.  `early` remembers that an
unscaled pixmap was asked of an engine that had not heard of a change.

### FileDrag

One process has a server per drag (`server`, `report`, `target`), the other makes
clients (`clients`, registered in `connections`) that subscribe to the one service
(`match`, `ifacemap`).  `signals` is what the bus carries in order; an answer to a
call is read at once and may overtake signals.  `Ask` and `SetTarget` are the calls to
the server, `Deliver` one signal, `DeleteClient` the program's delete, `Reap` the
client's own (`deleteLater`), `SourceDies` the end of the other process.

The private data of a client go in the reverse order of their declaration, so the last
client destroys the shared relay and then the shared interface, whose deleter passes
the relay to `disconnect` (`UsesDestroyed`).  The same deleter captured the private
data of the client that made the interface (`maker`), which may be gone
(`Garbage`).  Either is undefined: the receiver crashes (`receiver`, `Crashes`) or
nothing is disconnected, and the relay's match rules go with the relay (`Forgets`).
Garbage may moreover name another service, so that an expired interface stays in the
map; `garbled` remembers that the deleter went by it.

### ImageFilters, ImageChecks, ImageHandler

`ImageFilters` has the filters of a pixel, those that walk over the bytes
(`Through`) and those of a pixel with its neighbours (`Contour`, `LaplaceSharpen`,
`SobelEdges`), in integers; `Unset` is what the code leaves unset or undefined.
`ImageChecks` compares them with what they are for: eight named assumptions that
TLC evaluates in `icon_theme`, whose module extends it.

`ImageHandler` is one `DImageHandler`, its files on the `disk` and the static
table `freeImageFormats`.  A picture is what it shows and its turn in quarters;
a file has a type FreeImage recognises, the format of its first bytes, its picture
and the turn EXIF asks for.  The libraries FreeImage and LibRaw, loaded at run time,
are constants: there or not.

## 3. The runs

| run | instance | checks |
|---|---|---|
| `thumbnail_queue` | one caller and callbacks, 2 keys, 3 requests, 2 removals | `IndInv`, `NoRequestLost`, `CancelHonoured`, `EmptyTakeNeedsLateWake`, `AnsweredInOrder`, `EveryRequestAnswered`, `DestroyReturns` |
| `thumbnail_store` | one file, one client, 3 times, 3 versions | `StoreInv`, `ServedFresh`, `RefusedForCause` |
| `image_player` | an animation of 2 frames, an endless one, a still image; lists of one and two; 5 sets of flags; 2 palettes; loops 1 and 2, the loop counter at most 2 below zero | `PlayerOK`, `ShownRight`, `PaletteFresh`, `DefinedUse`, `NoFrameSkipped`, `ContinueResumes`, `AbortEndsLoops` |
| `icon_player` | an icon with Hover (2 frames) and Pressed (1) animated, 2 jobs, 2 calls, one kind of other call between rests | `IconPlayerOK`, `NeverOutOfRange`, `LeadsToMode`, `UndisturbedQueueGoesOn`, `BusyEnds`, `RestImage`, `TurnsAround` |
| `icon_still` | an icon without animation, 2 palettes, 3 jobs, 3 calls, every other call | `PaletteShown` |
| `single_instance` | 3 processes, 2 keys, 4 calls | `IndInv`, `OnePrimary`, `PrimaryReachable`, `FirstCallAnswers` |
| `app_theme` | X11 and Treeland, 2 colour roles, 4 starts, 2 changes of settings, 3 events, 1 posted call, 2 applications | `AppThemeOK`, `CacheFresh`, `FollowersTold`, `ChangeReachesFollowers` |
| `window` | 2 handles, 3 surfaces, 5 calls, X11, Treeland and neither | `HandlesOK`, `RadiusFollowsTheme`, `ShowsWhatWasAsked` (the refinement) |
| `icon_theme` | 2 icons of one name, 2 themes, 6 starts, 2 events, symmetric icons | `EngineFits`, `PicturesAreRight`; as assumptions the search for sizes 14 to 34 in three files, and `ImageChecks` |
| `file_drag` | 2 drags, 2 clients, 1 field of 2 values, 1 signal when a report is made | `ClientsFollow`, `EndIsHeard` |

The bounds.  Two requests of one key and one of another are what reordering,
double removal and a removal aimed at the wrong request need; callbacks make the
worker a second caller, and the theorems speak of any number.  With three
versions of a file a look-up can hold the first while the second is stored and
the third current.  Two frames are the least number with a first, a last and a
step in each direction (in `icon_player` Hover has two, so that the pair of
Hover and Pressed has three); two images are what skipping, looping and cache
places need.  Jobs are offset or turned around against the last one, so that
two, with one more in `icon_still`, reach every branch of `playToQueue`; the
bound is a constraint on new requests.  Four calls let three processes compete
while one calls again, and let two single instances call each other's key.

Two changes and three events let a change of the desktop, one of the saved type and
one of the program overlap, in either order, with one notification on its way; a
second application is what connects the helper twice; two roles are the colour the
type is computed from and another.  Three surfaces are one that is lost, one that
is hidden and the one shown; two handles tell what a handle keeps from what the
window keeps; five calls set, drop and set again.  Two themes and one file that is
installed late make a cached path or pixmap stale, with a second icon to fill the
shared cache; the starts put the file in each of its places.  Two clients of one
drag are what replacing needs, two drags what the shared interface needs; a
signal under way with an answer in front of it is the overtaking.

`CHECK_DEADLOCK FALSE` stands where the system may stop: the provider is
destroyed or its bounds are used up, a player of the `DciImagePlayer` became
undefined, the processes have made their calls.

Fairness.  `ThumbnailProvider`: a call that has begun goes on, the worker and the
destructor go on (threads are scheduled); nobody has to append, remove or
destroy, and no mutex fairness is assumed beyond that.  `DciImagePlayer`: a pending timer
fires and a frame that was announced is read.  `SingleInstance`: a call goes on,
and a process in its event loop handles each connection; nobody has to call,
exit, crash or give up.  `AppTheme`: the event loop runs, so changes are delivered,
timers fire and queued calls are made, and the compositor announces its manager;
nobody has to change or call anything.  `FileDrag`: the bus delivers signals;
servers need not end, clients need not be deleted, either process may die.

### Where the code and its documentation part

Two runs show a documented statement violated by the code; each property quotes
it.

- `icon_queue`, `SeamlessQueue`: a transition without animation that follows a
  playing one ends the processing of the queue; the jobs behind it stay.
- `single_retry`, `AttemptTriggersSignal`: a process whose first call failed and
  whose second succeeds never answers.

Six further configurations are there to be run by hand.  In five of them TLC
finds the property violated, which is as it should be:

| configuration, module | property | what happens |
|---|---|---|
| `ThumbnailRemove.cfg`, `MCThumbnailProvider` | `DropOnlyIfAsked` | `removeInProduceQueue` of a thumbnail that is not queued discards the *next* request for it |
| `ThumbnailLost.cfg`, `MCThumbnailStore` | `ReturnedThumbnailExists` | a look-up that meets the thumbnail half written removes it as outdated, and `createThumbnail` still returns its path |
| `DciImageLoop.cfg`, `MCDciImagePlayer` | `EndlessLoopIsReported` | an image to be played two or more times is played for ever and `currentLoopForever()` denies it |
| `DciIconHover.cfg`, `MCDciIconPlayer` | `HoverEndsAtItsLastFrame` | the way back from Pressed to Hover ends elsewhere when the Hover image is already at its end |
| `FileDragEnd.cfg`, `MCFileDrag` | `SelfDeletionIsSafe` | the last client deletes itself when its server is destroyed: its relay is destroyed before the interface whose deleter calls it, and the program may crash |
| `ImageHandler.cfg`, `MCImageHandler` | all of `ImageHandler` | nothing: the properties proved in `Images_proofs` hold (58 000 states) |

Other limits of the code appear as the conditions of properties that hold:
`EmptyTakeNeedsLateWake` (the worker dequeues from an empty queue after a late
`wakeAll`), `DestroyReturns` (the destructor hangs if it comes while the last
request is served), `CancelHonoured` (two threads in the `QSet`), `DefinedUse`
(the uses that index out of range: cached and uncached plays mixed or
the cache cleared between, images that are not animated, a loop count above one, a
loop counter that went below zero), `UndisturbedQueueGoesOn` (`stop()`
leaves the queue behind), `RestImage` (an icon without an image for Pressed or
Disabled keeps the frame of an aborted animation), `TurnsAround` (a cache given up
for another palette while its frames were out of order), `OnePrimary` (the lock of another key),
`PrimaryReachable` (a process that exits removes its successor's socket),
`FollowersTold` (two changes that are never announced, the type under the program's
own palette), `ReachesTheSurface` (a surface lost before the helper was connected),
`EngineFits` (copies forget the icon's options), `PicturesAreRight` (a cache key that
names the old theme), `ClientsFollow` and `EndIsHeard` (an interface given up by the
data of a client that was freed), `DetectionIsStable` (bitmaps under another name), `RotatedAsAsked`
(without FreeImage the EXIF turn is dropped).

More that the models follow the code in, and a reader may not expect:

- The helper of a second application is connected to the theme twice.
- The timer that gathers palette changes is not single-shot: once started it fires
  every 300 ms, and tells when a colour has changed since.
- A theme made after Treeland's manager became active gets no contexts, so that its
  setters do nothing.
- Colour getters and setters of the theme are not implemented on X11.
- To ask a window whether it has no titlebar (`isEnabledDXcb`,
  `isEnabledNoTitlebar`) makes a handle, which takes the titlebar.
- The path cache of DCI icons has a maximal cost of 0, a copied icon forgets its
  options, and a copied built-in engine its information.
- `setData` for a destroyed server follows a null pointer.
- Filters that walk over `width * height` pixels miss the end of padded images; warm and
  cool colours wrap below 0; `grayScale` weighs green twice and leaves blue out;
  `laplaceSharpen` adds the row below and leaves the first row and column unset
  in other formats than RGB888; the Sobel operator divides 0 by 0 for a dark
  picture; `changeStauration` divides by zero from a saturation of 100 on.
- The look-up in the table of image formats is an `operator[]`, which enters
  unknown suffixes as BMP.  A file without suffix is readable by its first bytes but
  is loaded by its empty suffix where FreeImage is there.  What FreeImage loads is not
  turned by EXIF.  A save that fails, of FreeImage or Qt, may leave the file empty.
  `rotateImageFile` reports success though Qt did not save, and leaves the cached
  image as it was.  `clearCache` empties the format and leaves the
  options, and `setFileName` of the same name does nothing.

## 4. What is proved

TLAPS proves, for any threads, keys, files, clients, times, processes and bounds:

| theorem | states |
|---|---|
| `Thumbnails_proofs!Invariance` | `Spec => []IndInv` |
| `RequestsAccounted`, `RemovalsHonoured`, `EmptyTakeCause` | `NoRequestLost`, `CancelHonoured`, `EmptyTakeNeedsLateWake` |
| `FirstInFirstAnswered` | `AnsweredInOrder` |
| `DiskIsTrue` | `StoreSpec => []StoreInv` |
| `LookupsAreFresh`, `RefusalsHaveCause` | `ServedFresh`, `RefusedForCause` |
| `SingleInstance_proofs!InstanceInvariant` | `Spec => []IndInv` |
| `NoSecondInstance`, `InstanceFound` | `OnePrimary`, `PrimaryReachable` |
| `ImagePlayer_proofs!PlayerInvariant` | `Spec => []IInv`, the image player |
| `PlayerIsOK`, `FramesAreRight`, `PaletteIsFresh`, `UseIsDefined` | `PlayerOK`, `ShownRight`, `PaletteFresh`, `DefinedUse` |
| `NoFrameIsSkipped`, `ContinueGoesOn`, `AbortingEndsLoops` | `NoFrameSkipped`, `ContinueResumes`, `AbortEndsLoops`: what a step may never do |
| `IconPlayer_proofs!IconInvariant`, `QueueInvariant`, `SeenInvariant` | `IconPlayerSpec => []IconInv`, `[]QueueInv`, `[]SeenInv`, the icon player |
| `IconPlayerIsOK`, `NoIndexOutOfRange`, `QueueLeadsToMode` | `IconPlayerOK`, `NeverOutOfRange`, `LeadsToMode` |
| `UndisturbedQueue`, `BusyComesToAnEnd`, `StillShowsPalette` | `UndisturbedQueueGoesOn`, `BusyEnds`, `PaletteShown` |
| `RestShowsTheMode`, `AnimationTurnsAround` | `RestImage`; `TurnsAround`: what a step that turns an animation around leads to |
| `AppTheme_proofs!AppThemeIsOK`, `CacheIsFresh`, `FollowersAreTold` | `AppThemeOK`, `CacheFresh`, `FollowersTold` |
| `PlatformHandle_proofs!HandlesInvariant`, `RadiusIsFollowed` | `HandlesOK`, `RadiusFollowsTheme` |
| `LookImplemented` | `ShowsWhatWasAsked`: a Treeland window implements `WindowLook` |
| `FileDrag_proofs!ClientsAreFollowing` | `ClientsFollow` |
| `Images_proofs!FiltersGivePixels`, `FiltersTwice` | every filter of a pixel gives a pixel; three of them, twice, give the pixel back or the same as once |
| `StaurationIsDefined`, `OrientationsAreShown` | no division by zero below 100; every EXIF orientation is shown on its sides, for every size |
| `ImagesAreOfTheFile`, `DetectionDoesNotDrift` | `OptionsFit` and `CacheIsOfTheFile`; `DetectionIsStable` |
| `FilesAreRotatedAsAsked` | `RotationsAreRight` |
| `SearchIsRight` | `TryMatchIcon` finds the `RightMatch` in every file, of every size, type and mode |
| `EnginesFit`, `PicturesAreOfTheTheme` | `EngineFits`, `PicturesAreRight` |

The assumptions are those of the modules on their constants (`CallersAssumption`,
`BoundsAssumption`, `StoreAssumption`, `InstanceAssumption`, `ImagesAssumption`,
`ClientAssumption`, `IconAssumption`, `IconThemeAssumption`,
`PlatformThemeAssumption`, `AppThemeAssumption`, `TreelandWindowAssumption`,
`PlatformHandleAssumption`, `FileDragAssumption`), which TLC evaluates in the runs.
The theorems about `ImageHandler` state theirs, `ConstantsOK` (file names are
names, contents are pictures or damaged, angles are integers), as a hypothesis.

*The queue.*  `NoRequestLost` is not inductive: it does not say where in the order
of requests the worker is.  `QueueOrder` does: the queue holds the last requests in
order, all before them but the one in the worker's hands are answered or dropped.
`LockDiscipline` (the lock's owner is determined by the threads' positions) gives
that nobody changes the queue while the worker tests and takes.  `CancelRecorded`
keeps a removal's record until its request is met, which needs that it is the
first of its key; `WakeCause` and `LifeCycle` connect wake-ups, emptiness and the
destructor.

*The store.*  A complete file on the disk is true of a version (`ThumbsTrue`,
`MarkersTrue`) because what the worker is about to write is (`WritesTrue`), which
depends on `errorString` being cleared; and the version read is not older than the
info the file is stamped with (`InfosOK`).  If versions differ in time, a stamp
equal to the caller's time then means a version at least as new.

*The single instance.*  Who holds a lock is at a place where it may
(`LockHeld`), who listens has the lock of the key (`LockMatches`), listens alone and
is found at the path (`PathMatches`).  Each part is kept by the one before it.

*The image player.*  Each function of `ImagePlayerOps` has a lemma that says what it
returns (`StopIs`, `EnsureCurrentIs`, `TimerIs`...), each action one that says
what it keeps.  The invariant `IInv` places the player: its image and frame are in the
list and in the animation, the images' own positions agree with it while nobody
destroys a copy, the frames of the cache are those of the images at its places, in
order, and of the player's palette unless the next stop empties it, and a timer runs
exactly while it plays.  `ShownRight` needs
that the cache is filled from one end, which is what mixing cached and uncached plays
destroys, and `DefinedUse` names the ways there are to leave the place it needs.

*The icon player.*  `Sound` is what the icon player makes of its image player: at most
two animated images, played once, and two only with a cache, so that each index it
uses is in range.  `StartSucceeds` says that such a player starts whatever it is
given, even when it has to go on in the midst of a cache.  `IconInv` adds that the
queue is a chain of transitions whose last ends at the mode (`Chained`): `playToQueue`
has four outcomes, `Ignored`, `Offset`, `Behind` and `Anew`, each of which keeps the
chain at its end, while the queue only ever loses jobs at its front.  `QueueInv` says
how far a fluent icon's queue has got: what follows a smooth job is smooth
(`Followed`), so that the handler of `finished()` always starts another animation; every
other job has a call in the event loop (`Going`); and a busy player plays or its first
job is one that will play (`Coming`).  `StillInv` says that an icon without animation
never plays and has shown its palette or has a job left.

*What the icon player shows.*  `RestImage` speaks of moments of rest and `TurnsAround`
of one kind of step; neither is inductive.  `SeenInv` says at any time what the picture
is, by the place of the image player: while it plays, the picture is the frame at that
place (`FrameAt`, `Shows`), the player has the images and the direction of the
transition of the first job (`Serves`), and the image to end with is that of the
transition (`EndsWith`).  For this the cache must be described as well, across
transitions, icons and palettes: plays with and without a cache can bring a late frame
forward in it but never an early one back (`NoneEarly`), which is why the last place
always has the last frame (`LastFrame`) and an animation that was played to its end shows
it; and the cached frames are of the palette unless the next stop empties the cache
(`Fresh`).  `LastPlan` lists what the last transition to a mode can come to, hence
what is seen when it is over (`ShownIsRight`, `ComeToRestIsRight`).  An animation turns
around in place because the opposite transition plays the same images
(`OppositeAnimates`), so that they are not given anew and the stopped player still has
its place and its frame (`StopKeepsTheFrame`).

*The theme.*  `CacheFresh` is inductive with the types: every change of a colour
goes through the cache.  `FollowersTold` speaks of the moments when nothing is
under way, and is not inductive; `PaletteToldOrPending` and `TypeToldOrPending` say at
any time that followers know what is in force or a notification is certain to
come (`Pending`), with `UnreadType` for the time before the saved type is first
read and `SilentSince` and `SilentDiffers` for the changes nobody announces.
`SizeTold` stands alone.

*The window.*  On X11 `RadiusKept` says who holds the radius property, the program
or the theme's slot, which is what a change of the theme needs.  On Treeland
`SentWhatWasAsked` says that nothing is sent that was not asked for and that a
connected helper has sent it all to the surface there is.  With it each setter maps
to `Ask`, a surface that comes or goes to showing and hiding, and the rest to a
stutter.

*The drag.*  `ClientsFollow` needs that the last signal under way for a field
carries the value the server has (`LastIsLatest`), and that a client knows that value
or has yet to hear such a signal (`HeardLatest`).  A client meets it because the
match rule and the shared interface are there while there are clients
(`SharedByAll`) and it is registered (`Registered`); `Unborn` says that nobody knows
of a drag whose server is not made yet.  A crash of the receiver leaves nobody
registered and nobody who has heard anything (`CrashesKeeps`), a deletion that goes
well keeps the rest (`ForgetsKeeps`).

*The images.*  The table of formats stays `Faithful`: look-ups only ever add
suffixes it did not know, as BMP.  `FaithfulDetection` concludes that two faithful
tables agree on every file but a misnamed bitmap, which is why the cached image
and the options keep to the file.

*The icons.*  What `TryMatchIcon` finds follows from the order of the directories: the
first one of at least the size is the least of them.  An engine fits because a
look-up never changes once it is in the cache of paths and an engine is known by what
was looked up for it (`EngineFits` with the caches); a pixmap by the key it is kept
under, which does not name the theme, hence `early`.

Only model-checked: the references of `ImageChecks` (filters over whole rows, written
with folds), and the five liveness properties (`EveryRequestAnswered`,
`DestroyReturns`, `FirstCallAnswers`, `ChangeReachesFollowers`, `EndIsHeard`), because
ENABLED and fairness are out of the prover's reach.  Every other property of a
passing run is stated by a theorem.

## 5. What is not modelled, and the plan

What could be added, in this order:

1. *Themes with a parent* (`PlatformTheme`): the themes of a single application and
   of a window, and the fallback to the system's.
2. *Abstract specifications* of the thumbnail queue (first in, first answered,
   with cancellation) and of the icon player's queue (a walk from mode to mode), and
   the refinements.
3. *Window manager helper on Treeland and region monitor*: a cached state against
   events that were sent before it was asked for.  The order of events is that of a
   server outside of the repository.

Left out for good: the window manager helper, foreign windows and groups on X11
(each call asks the X server), desktop services, task bar and font sizes (D-Bus
calls that are sent and forgotten, a table), the SVG renderer and the command line
tools (calls of libraries), logging and formatting.  Inside the modelled parts: the
speed of animations, the sizes and default directories of thumbnails,
`createThumbnail` outside of the worker, the arguments and environment that
single instances exchange, messages that arrive in pieces; the arithmetic of
colours and the painting of an icon's layers; the settings of a theme that only pass
through; the XDG engine, which wraps the one of another library; the mime data of a
drag; `bilateralFilter` and the meta data of images.
