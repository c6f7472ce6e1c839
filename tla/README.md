# TLA+ models of OpenDAFF

OpenDAFF stores directional audio data (impulse responses, magnitude and phase
spectra, DFT coefficients measured on a spherical grid) in DAFF files. The
repository holds a C++ reader library, a visualization library on VTK, a Qt
viewer, a command line tool, a Matlab writer and bindings for Matlab, Python
and C#. This directory models the parts that keep state, checks them with TLC
and proves the properties that matter most with TLAPS.

Paths in this file are relative to the repository.

## 1. Inventory

| Part | Source | State | Operations | What is hard |
|---|---|---|---|---|
| Reader life cycle | `src/DAFFReaderImpl.cpp` 21-450, 444-830 | file handle, five blocks, metadata instances, frequency list, validity flags, file name, orientation, lazy peak | `openFile`, `deserialize`, `closeFile`, `setOrientation`, `setDefaultOrientation`, `getOverallPeak`, destructor, `DAFFReader::create` | about twenty error exits with different clean-up; state that survives a close |
| Spherical grid | `src/DAFFReaderImpl.cpp` 747-787, 1126-1329, `src/DAFFUtils.cpp` 217-291 | main header, resolutions | `getRecordCoords`, `getNearestNeighbour`, `getCell`, `NormalizeDirection` | rounding at range ends, poles with one record, ranges over 0 degrees |
| Record access | `src/DAFFReaderImpl.cpp` 1339-1792 | the data block, lazy peak | the getters of coefficients, magnitudes, phases and spectra | zones of stored responses, pairs and single numbers, buffers of the caller |
| Samples | `src/Utils.cpp` | - | byte order, widening, scaling | sign, saturation |
| Writer | `matlab/daffv17_write.m` | - | one file per call | its layout must be the one the reader assumes |
| Metadata | `src/DAFFMetadataImpl.cpp` | map of keys | `load`, `insertKey`, `findKey`, getters | names that differ only in case; a block that fails half way |
| IR to DFT transformer | `src/DAFFTransformerIR2DFT.cpp` | input, window, output, buffer | `setInputContent`, `setWindowFunction`, `transform`, output getters | an output that is older than the input |
| Rotation | `src/DAFFSCTransform.cpp` | constants of an orientation | data view to object view and back | two conventions of angles |
| Scene graph of DAFFViz | `src/daffviz/DAFFVizSGNode.cpp`, `DAFFVizGlobalLock.cpp` | parent, children, VTK assembly, visibility | constructors, `AddChildNode`, `RemoveChildNode`, `SetVisible`, `SetColor`, destructor | two structures kept in step, recursion over trees that change, a lock that is not recursive |
| Plots of DAFFViz | `src/daffviz/DAFFVizBalloonPlot.cpp`, `DAFFVizCarpetPlot.cpp` | content, channel, frequency, scaling, range, mesh, scalars, probe | setters, `SetScalars`, probe | scalars of an earlier setting; a mesh built by index arithmetic |
| Coordinate assistants | `src/daffviz/DAFFVizSphericalCoordinateAssistant.cpp`, `DAFFVizCartesianCoordinateAssistant.cpp` | limits of axes, actors placed for them, visible parts | setters, `UpdateGrid`, `UpdateAxes` | actors placed for limits that have changed since |
| Viewer 3D widget | `apps/viewer/src/QDAFFVTKWidget.cpp`, `QDAFFViewerWindow.cpp` 80-180 | scene, plot, assistants, settings | `ReadDAFF`, `CloseDAFF`, change slots, export of a series | the same setting kept in the menu, the settings file, the widget and the plot |
| Viewer window | `apps/viewer/src/QDAFFViewerWindow.cpp` | reader, selected record, channel, frequency, angles | menu actions, slots, `OpenDAFFFile`, `LoadContent`, recent files | Qt signals that call slots while a slot runs; selections kept from the previous file |
| Viewer 2D plot, table | `apps/viewer/src/QDAFF2DPlot.cpp`, `QDAFFContentTable.h` | selection it was told | change slots, paint | what it was told while a file is opened |
| Bindings | `bindings/matlab/DAFFMexMain.cpp`, `bindings/python/pydaff.cpp`, `python/DAFF.py`, `bindings/csharp` | handles, readers, buffers, views | open, close, getters, finalizers | a handle or view after its reader is gone; buffers used again |
| Tool | `apps/tool/DAFFTool.cpp`, `Export.cpp` | - | print, export | - |

How they interact. The viewer window owns one `DAFFReader`; when a file is
opened it hands the content to the 3D widget, the 2D plot and the table. The 3D
widget builds plots, which are nodes of the scene graph, and reads records by
the indices `getNearestNeighbour` answers. Window, spin boxes, selector and
views tell each other of changes by Qt signals, which are direct calls. The
bindings and the tool call the reader directly. All calls are synchronous calls
on one thread; only DAFFViz takes a lock (`DAFFVizGlobalLock`), so that nodes
may be changed by another thread than the one that renders. The window of
`tests/daffviztest` takes the same lock around its rendering. In C# the garbage
collector runs finalizers at a time of its own.

What makes each part correct: a reader serves one content completely or none,
says truthfully which, and gives back what it allocated; the grid maps
directions to the records the writer stored for them, and a record gives back
the coefficients the writer was given; the transformer's output is about its
input; the scene graph is a forest, and the assembly VTK draws mirrors it
whenever the lock is free between calls; a plot shows what menu and selection
say; the viewer shows the record, channel and frequency of the content that is
open; a handle reaches its file until it is closed and nothing afterwards.

## 2. Modules

| Module | Role |
|---|---|
| `DAFFReader` | abstract specification of the reader interface: a load is atomic and all or nothing |
| `DAFFReaderImpl` | the reader's life cycle, implements `DAFFReader` |
| `DAFFGrid` | the spherical grid and the questions of a client |
| `DAFFSamples` | byte order, sample widths and quantisation, as operators |
| `DAFFRecordAccess` | the record getters, as operators on an opened file |
| `DAFFRecords` | the writer's records and a client that reads them; composes the two above |
| `DAFFTransformerIR2DFT` | the transformer |
| `DAFFMetadataImpl` | metadata, loaded, asked and released |
| `DAFFForest` | abstract specification of the scene graph: a forest with atomic operations |
| `DAFFSceneGraph` | nodes, assemblies, the lock and a render thread, implements `DAFFForest` |
| `DAFFHandles` | abstract specification of a binding: a table of handles |
| `DAFFBinding` | what the bindings share: reader objects and how a record leaves a file |
| `DAFFMexMain`, `pydaff` | the Matlab and the Python binding, implement `DAFFHandles` |
| `DAFFCSWrapper` | the C# binding with its views and finalizers |
| `DAFFVizPlot`, `DAFFVizBalloonPlot`, `DAFFVizCarpetPlot` | the plots, as operators on records |
| `DAFFVizSphericalCoordinateAssistant`, `DAFFVizCartesianCoordinateAssistant` | the assistants around balloon and carpet, as operators on records |
| `QDAFFVTKWidget` | the 3D view with menu and settings file; composes plots and assistants |
| `DAFFSCTransform` | the rotation between the views, over quarter turns |
| `QDAFFViewerWindow` | the window, its spin boxes, selector and views; composes grid and rotation |
| `QDAFFRecentFiles` | the list of recent files and its menu |
| `MC...` | instances for TLC: Reader, Grid, SceneGraph, Content, Bindings, Plots, Viewer |
| `DAFFInduction` | induction and recursion over natural numbers, for the proofs |
| `QDAFFViewerInvariant` | the inductive invariant of the viewer window, for its proofs |
| `...Proofs` | theorems: Reader, Grid, SceneGraph, Content, Bindings, VTKWidget, ViewerWindow |

A definition named after a slip (`ChangeRecordAgain`, `UpdateKeepsEntries`, ...)
that no action uses is a plausible error in the definition below it. Put in its place it
breaks the property that the pair is about; it documents what the property is able to see.

### DAFFReaderImpl

State corresponds to members one to one: `valid` is `m_bDAFFObjectValid`,
`fromFile` is `m_bDAFFObjectFromFileValid`, `file` is `m_file`, `block` maps each
block pointer (`m_pFileBlockTable`, `m_pMainHeader`, `m_pContentHeader`,
`m_pRecordDescriptorBlock`, `m_pDataBlock`) to the source whose bytes it
reaches, `metadata` is `m_vpMetadata`, `freqs` is `m_vfFreqs`, `trans` is the
orientation in `m_tTrans`. A source (a file's contents or a byte buffer) is
abstracted to its content type, orientation, peak and at most one *fault*: the
stage at which its load stops and how. `Assigned` says which pointers a load
that stops there has assigned, `OpenFileCleanup` and `DeserializeCleanup` say
how the function then leaves: through `tidyup`, without it, or after freeing
the block that `tidyup` frees once more. `lost` collects the kinds of
allocations that were overwritten or dropped without being released, and `call`
names the function that was called last; both are history variables. `heap` becomes `damaged` or `aborted` by a double free, which
is undefined behaviour: both outcomes are explored, and no call follows an
abort. That is why deadlock is not checked in the runs with such faults.

Error codes are grouped (see the comment at `ErrorCode`). Calls that assert a
loaded content are guarded by it. `deserialize` copies from memory and has no
short reads. A source has one metadata entry; a metadata block that fails
leaves the instances read before to `tidyup`, which the model merges into the
failing step (what exactly leaks then is in `DAFFMetadataImpl`).

### DAFFGrid

The variables hold the loaded main header, the last direction asked and the
answer; the functions of the reader are operators and each call of a client is
an action. Angles are integers in units of 1/`Degree` degree. With `Degree` =
2000 the rounding of `NormalizeDirection` to 1/1000 degree is visible. Grids are
assumed to have resolutions of a whole number of units (`ExactGrid`), so the
float arithmetic of the code is exact in the model; ties of float rounding are
outside the model. The number of records is the one `daffv17_write` produces.
The actions ask in the data view. The object view is rotated into it by
`DAFFSCTransform` and is asked in `QDAFFViewerWindow`.

### DAFFSamples, DAFFRecordAccess, DAFFRecords

A byte has `Base` values (4 in the runs), so that every sample of 2 or 3 bytes
can occur. `Quantise`, `LittleEndianBytes` and `Widen24` are what
writer and reader do with them; conversion is never the identity. The runs are
about machines that store the least significant byte first.

A file is a record: sizes from the headers, a data block of numbers and a
descriptor per record and channel. `WriteIR` cuts the quiet ends of responses as
`daffv17_effective_bounds` does, in multiples of four, and lays the zones one
behind the other. A getter answers a return code and the cells it has stored,
a function whose domain shows how far it went; `dest` is the caller's buffer
with four cells behind it that nobody asked the getter to write. `addFilterCoeffs` may follow any call that filled it.
Amount and angle of a pair are the constant operators `cabs` and `carg`.

### DAFFTransformerIR2DFT, DAFFMetadataImpl

A number of a spectrum is where it comes from: content, record, channel,
position, and whether a window was applied. So the model tells whether a
number is the right one, not what it is. The output asks the transformer, which
tests indices against its present input; both are variables of their own.

A metadata block is a sequence of instances of entries. A key object is named
by the entry it was made for, `live` holds the objects that have not been
deleted, and `Leaked` is what should be left of them once the metadata is
released: keys whose name came back later in their instance, and what was read of
an instance that did not load, which is in no list when `tidyup` runs. Names are members of a small set with a function to upper case.

### DAFFSceneGraph

`parent` and `children` are `m_pParentNode` and `m_vpChildNodes`, `parts` the
child assemblies in `m_pNodeAssembly`, `actors` the shapes whose own actors are
in it, `visible` and `shown` the visibility of an assembly and of a shape's
actors. `lock` is `DAFFVizGlobalLock`. The variable `stack` is the C++ call
stack of the thread that calls the nodes: a frame holds what a call has left to
do, the first frame runs, and each section under the lock is one action, so
that the render thread comes in wherever the code lets it. The client actions
`New`, `AddChildNode`, `RemoveChildNode`, `SetVisible`, `SetColor` and
`DeleteNode` put the first frame on an empty stack; the destructor, for
instance, continues with the `RemoveChildNode` of its parent (`Unlink`,
`Forget`), then deletes one child after another and frees the node.

There are three kinds of nodes: plain `SGNode`s, shapes, which own actors
(`Arrow` stands for them), and direction indicators, which create an arrow as
their child. Clients use nodes that exist, do not take an arrow away from its
indicator and link no node below itself: the code refuses only the node itself
and nodes that have a parent. The order of a list of children is not modelled:
`DeleteChild` and `VisitChild` take any child, which includes the code's order.
Setting a colour stands for the methods of a subclass that lock and call
another node. Transformations and the cameras of followers are not modelled.

The render thread is `VTKDAFFVizWindow::RenderInternal`. The repository starts
no such thread itself; the lock exists for clients that do. Locking a
`std::mutex` again on the same thread is undefined; the model waits, which is
what the common implementations do.

`DAFFForest` says what a client sees: nodes with parents, and four operations
each in one step. The refinement hides the nodes that a running delete is going
to free (`Doomed`), so that a delete takes effect when it is called.

### DAFFMexMain, pydaff, DAFFCSWrapper

A reader object is a piece of memory (`Readers`) that may be allocated again
after it was deleted. The tables of handles, the counters and the conversion
buffers are variables; `served` and `plhs`, `pyServed` and `pyResult`, and
`csResult` keep the last answer and the file it came from. Every command is an
action; commands that only ask for something differ in what they answer and
share the definition that finds the handle. An error (`mexErrMsgTxt`,
`PyErr_SetString`) leaves the state as it was. The three differ in what the
properties are about: Matlab has one buffer per handle that all channels and
getters pass through, Python a fresh one per channel and never deletes a reader,
C# hands out bare pointers into a reader whose finalizer may run once the client
has let the reader go (`Drop`, then `NativeDAFFDispose` at any time). Which
record is nearest is a constant here; the grid has its own model. Metadata is
answered as a whole.

### DAFFVizBalloonPlot, DAFFVizCarpetPlot, the assistants, QDAFFVTKWidget

A plot is a record of its members and a setter an operator that returns the
record after it, scalars recomputed where the code recomputes them.
Magnitudes are powers of ten in tenths, so that decibels are whole numbers, and
fractions are in thousandths. Faces of the mesh are sequences of record indices,
from the same index arithmetic as the code. The record that is nearest to a
direction is a constant that the instance for TLC computes with `DAFFGrid`.

An assistant is a record too. The spherical one has a set of visible parts and the
circles of its grid. The Cartesian one has limits per axis, and two copies of them
in `arrows` and `marks`: those that the actors were placed for. `ShownIsCurrent`
compares the copies with the open file.

In the widget `menu` is what is checked, `saved` the settings file, `widget` the
members it keeps for plots to come, `children` the nodes in the scene, `sca` and
`cca` the assistants, which live as long as the window. A toggle
goes through all of them in one action, as it does in one call. `Quit` stores the
menu and begins a new session from the file; `Crash` begins one without having
stored it. Left out are positions in space, colours, display modes and OpenGL.

### DAFFSCTransform, QDAFFViewerWindow, QDAFFRecentFiles

Qt's connections are direct: `emit` runs the slots before it returns, and
`QSpinBox::setValue` emits when the value changes. `todo` is what is left to
run, innermost call first. A call is one action: it takes itself off the list
and puts the calls it makes in front of it, so that a slot that reads a member
after an `emit` reads what the emission left there. The user acts when nothing is left to run.
Boxes have the ranges of the form and clip what they are told; the selector
emits when items are added or removed, as `QComboBox` does. Both
are modelled from how the window uses them.

Angles are multiples of a quarter turn when they pass through the rotation, so
sines and cosines are whole numbers; what a user types, the steps of the
phi and theta actions and the orientations of the files are chosen accordingly. A
box's rounding to its decimals then has no effect. Members that the
constructor does not set begin with any value of a small set.

`QDAFFRecentFiles` keeps the list in the settings and the menu that is rebuilt
from it entry by entry. It shares no state with the window and is a part of its own
in the run.

## 3. Runs

Passing runs:

| Run | Shows |
|---|---|
| `reader` | all sequences of loads of two good and ten faulty sources, by file and by buffer, with closing, orientation changes, the lazy peak, destruction and re-creation. `ServedContentIsWhole` and `ReturnCodeIsTrue` are invariants; `LossNeedsLeftovers` says which steps may lose something, and `LeftoversNeedFailedOpen` that handle and blocks without content are those of an `openFile` that rejected a header, never of a `deserialize`; `InterfaceSpec` is the refinement of `DAFFReader` |
| `grid` | eleven grids and about 240 directions around grid points, middles and boundaries: indices are records off the seam (`IndexIsValid`), each record of the writer is found (`WrittenRecordIsFound`), the answer is nearest on each axis (`NearestPerAxis`), cells enclose the direction (`CellEncloses`) |
| `scene` | all trees of a plain node, a shape and an indicator with its arrow, with frames drawn at any moment: the tree is a forest whose two representations agree (`Forest`, `TreeIsConsistent`), the assemblies mirror it (`AssembliesMirrorTree`), `SetVisible` reaches the subtree, nothing changes under the renderer (`SceneIsStillWhileDrawn`), every call returns, and `ImplementsForest` is the refinement |
| `content` | what the writer stores comes back at its place (`CoefficientsKeepTheirPlace`), also when a second response with another zone is added; spectra are read alike one at a time and all at once, from the pair asked for where pairs are stored, and within the buffer, but for three loops over combined spectra that run over it by at most one frequency (`SpectraAgree`; what a magnitude of a combined spectrum should be is the question of `content_mps`); the transformer's output answers its input as long as that is the content it was made for; each spelling of a key finds its last entry; and the keys that are never deleted are exactly those that `Leaked` names, for blocks that load and for blocks that do not (`OnlyKnownKeysLeak`) |
| `bindings` | Matlab handles own their readers; records reach the client in the layout of its language whatever the buffer held (`MexRecordsAreTrue`, `PyResultsAreTrue`); a C# view stays with the content it was taken of; `MexImplementsHandles` and `PyImplementsHandles` are refinements of `DAFFHandles` |
| `plots` | toggling, opening, closing, selecting, probing, exporting, quitting and crashing in any order: the plot goes by the menu (`PlotFollowsMenu`), its scalars and label are those of the present settings and the axes beside it are of the file (`ShownIsCurrent`) and in range (`ScalarsInRange`), meshes leave out no record (`EveryRecordIsDrawn`), the scene holds what belongs to the file (`SceneShowsFile`) |
| `viewer` | every chain of signals ends and stays within the stack (`WindowReturns`), and then the selected record is nearest to the direction shown (`RecordIsNearest`) and boxes, selector and plots agree (`SelectionsAgree`); in the middle of a chain too the views index the file they have (`ViewsIndexTheirFile`); the menu ends with the recent files (`RecentFilesAreOffered`) |

Runs that find a disagreement between the code and what is written about it:

| Run | Disagreement |
|---|---|
| `reader_peak` | the overall peak of the previous content is returned after reopening |
| `scene_lock` | `SetColor` of a direction indicator calls its arrow while it holds the lock |
| `content_mps` | `getMagnitudes` of a combined spectrum answers real parts, `getCoefficientsMP` of the same numbers their amounts |
| `csharp_view` | a view that says it is valid reaches a reader whose finalizer has run |
| `viewer_channel` | channel 2 of a file with three channels is selected, the file is closed, the box is set to 0 while no file is open, which the window ignores, and a file with one channel is opened: the box does not change any more, the selection stays at 2 and is stepped down to a channel that the file does not have |

Bounds.

- `reader`: one path suffices because the model never compares paths; two good
  sources differ in type, orientation and peak; the faults are one per way of
  leaving and per set of blocks assigned by then. The state space is finite
  without a bound on the number of calls. Deadlock is not checked because a
  double free may end the process.
- `grid`: the headers cover every branch of the index calculation, the directions
  every case of each comparison in it including its neighbours one unit away.
- `scene`: four nodes give chains of four, a node with three children, and every
  kind below every other that code can link; no colour is set on the indicator,
  because the call that `scene_lock` examines never returns.
- `content`: responses of eight coefficients hold two zones of four, so that a
  zone may begin and end in either; two records, so that
  one lies behind the other; `addFilterCoeffs` once, on a zone that differs. Two
  names that differ in case and one that does not, two instances.
- `bindings`: two handles on two reader objects, the second of which may get the
  memory of the first; two records, channels and elements, so that each pair of
  them can be exchanged; one file per type of content. Deadlock is not checked:
  a host that was given all handles and has closed them has nothing left to do.
- `plots`: `MaxChanged` = 2 menu items may differ from their default at a
  time, which has every pair of settings meet, and `MaxSaved` = 1 when a window is
  closed; seven files: sphere with poles,
  patch, ring with more and with fewer records than frequencies, phases, and
  two with responses for the carpet, so that the second finds the axes of the first. A series has no or three frames.
- `viewer`: three files, the second and third with fewer records, frequencies
  and channels than those before; `StackSize` = 40 calls pending, which only a chain
  without end reaches; `MaxRecent` = 3 (the code has 9) with four paths. The record index,
  which the constructor leaves unset, begins with an index the files have or with one they
  have not. The boxes of phi and theta are bounded in the instance, that of phi
  further to one side; in the form both go from -999 to 999.
  Of the angles of the data view `SelectionsAgree` speaks when every file has them: the
  window keeps the others, and a box is not told again when its range changes.

Fairness. A client of the reader, the grid or a binding may stop at any time: no
liveness is claimed there and no fairness assumed. In the scene graph, weak
fairness of the program and of the render thread says that a running thread goes
on when it can; neither calls nor requests for frames have to come. Requests are
made between calls only, so that at most two frames are drawn during a call and
weak fairness suffices for a call that waits for the lock. In the viewer, weak
fairness of `Call` says that calls that are left to run do run, which is how a
single thread executes; the user need not act.

The violating runs stay close to what the code says of itself. Other
disagreements were seen while modelling and have no run:

- Reader: a rejected header leaves the file open; three error paths free a block
  twice; the scan for the overall peak ends at length minus offset and misses
  coefficients; `NormalizeDirection` leaves negative elevations as they are;
  `getBetaSpan` answers the span of alpha.
- Grid: the half cell before 360 degrees is answered with an index behind the
  ring; on a single ring a hit of beta clears the out-of-bounds flag of alpha;
  alpha ranges over 0 degrees are never searched; near a pole the nearest record
  on the great circle is not found; the first corner of `getCell` is not always the lower one.
- Writer: the start and the length of a zone are rounded separately, so that the last loud
  coefficients may be cut off; the field for quantisation is
  reset before it is looked at.
- Scene graph: `GetRootNode` answers null for every node; child 0 cannot be had
  from `GetChildNode`; `AddChildNode` accepts the root of the node's own tree,
  which makes a cycle; `SaveScreenshot` of the test window takes its lock twice.
- Plots: the maximum of a DFT balloon runs over coefficients instead of records;
  the last column of a carpet over part of a circle never shows the last record;
  a balloon of two rings that are both poles has an index below 0 in its fan; the
  logarithmic scale has no effect on magnitude contents; a DFT spectrum that is silent in
  all records divides by 0 in decibels.
- Assistants: the marks of the time axis are those of the file before, as its limit is
  set after the last call that makes marks; `OnSetFollowerCamera` of the
  spherical assistant does not override that of `SGNode`, so its labels never
  turn to the camera; the level of the reference plane is used and never set.
- Widget and window: the direction indicator hidden for impulse responses is not shown
  again, as a slot is connected under another name; closing without a file adds
  an assistant that has a parent; the south pole cannot be reached by stepping
  (angles are taken modulo 180); a slot goes on with the values of before the nested
  emission it made; the frequency kept from one file is not checked for
  impulse responses; an exported series leaves the selection at its last frame; entries of
  the recent menu stay when the list shrinks.

## 4. Proofs

All theorems hold for every value of the constants that satisfies the named
assumptions of the module. The liveness properties are left to TLC, and so is what
RECURSIVE operators compute. A recursive function is unfolded in a proof by
`Recursion`: it exists by induction over the least argument for which there is
none, with the induction principle taken from well-founded sets (`LeastElement`,
`Induction`); `DAFFInduction` holds these for all the others.

`DAFFReaderProofs` (`ConstantsAssumption`): `TypeCorrect`, `WholeContent`,
`NamedFile`, `UnloadReleases`, `LossNeedsHeldAllocations`,
`ImplementsInterface`, `CodesAreTrue`, `LeftoversAreOfFailedOpens`. The inductive
invariant `IInv` is the conjunction of the type invariant,
`ServedContentIsWhole` and `OpenedFileIsNamed`. The last is needed for the first
two: a load appends to the metadata vector and only yields `<<s>>` because a
reader that is not valid has an empty vector, and a lost allocation can only be
one of three block kinds because an invalid reader never holds record blocks.
The refinement maps the served answers to the interface's variables; failed
loads stutter.

`DAFFGridProofs` holds for every `Degree`, every set of accepted exact headers
and all integer directions. An index answered by `getNearestNeighbour` or
`getCell` is at most one behind the last record (`TypeCorrect`), and off
the seam it is a record (`ValidIndex`). The argument bounds rounding
(`RoundBounds`), the alpha and beta index (`AlphaIndexBounds`,
`BetaIndexBounds`), the size of the end rings (`EndRings`) and the index of a
point (`RecordAtBounds`). `NearestIsAnswered`: off the seam no record is closer on
either axis. Rounding finds the nearest multiple of a resolution, out of bounds the
code compares the two ends, and what is nearest on the line of angles is nearest on
the circle. `WrittenIsReadBack`: each record of the writer is found under its own
direction, and `CellIsAround`: on the full sphere the corners of a cell lie around
the direction. The last two suppose `CoarseGrids`, resolutions of more
than 1/1000 degree: `NormalizeDirection` rounds every direction to that, so that a
finer grid really has records that cannot be found. `IInv` adds that the last
answer belongs to the last question.

`DAFFSceneGraphProofs` proves for any sets of nodes `TypeCorrect`, `NoCycles`,
`Consistent`, `Mirrored` and `EmptyAtEnd`. The four state properties hold only
together with a description of the stack, `StackOK`: which frames may wait below
the running one (`BuriedOK`), what the running frame may rely on (`TopOK`),
that a node under construction has no children (`InitsOK`), that construction
and destruction never mix (`PhasesOK`), that a node whose children are being
deleted has left its parent or is leaving it now, and is deleted once
(`DeletesOK`, `DeletesOnce`), and that an arrow stays with its indicator until
it is deleted (`ArrowsOK`). There is one lemma per action, and a few about how
a step moves the frames. The step with an idea is `AddChildNodeStep`: the set of
nodes above the new parent holds a part of any cycle the new link could close,
and that part would have been a cycle before. The only assumption is
`NodesAssumption`: kinds of nodes are disjoint, each indicator has an arrow of
its own, the null pointer is no node.

The same module is about calls as a whole too. `VisibilityReaches` needs to
know at each moment which nodes SetVisible has still to visit: there is a set of
nodes, each of which a running frame is to visit or has its parent in the set,
and all others are done (`VisitsOK`); when the stack is empty such a set would be a
cycle. `ImplementsForests` is the refinement of `DAFFForest`. A delete maps to one
step when it is called, and all its own steps to stutters, because every node of the
subtree that still exists is being destructed or has its parent in the subtree
(`DoomOK`) until the last frame frees the last one, and no other call runs a destructor
(`LivesOK`); both modules mean the same by a subtree (`SubtreeIsBelow`).
`DrawnSceneIsStill`: no step of the program changes an assembly, an actor or a
visibility while a frame is drawn. Its invariant adds to that of the tree that the
lock belongs to the renderer while it draws, that at most one frame of the stack is
to release the lock and then the program holds it (`LocksOK`), and that only shapes
have actors (`ShowsOK`).

`DAFFContentProofs` (`BaseAssumption`, `FilesAssumption`, `GainsAssumption`) follows a
coefficient through the file. `SampleIsKept`: its bytes are digits, and reading them is
division. `WrittenResponse`: the writer counts the offset of a zone over the records
before it, and an induction over the records shows that there the concatenated
zones have it. `RecordsKeepTheirPlace` and
`SpectraAreTrue` then follow from the loops of each getter; their invariant `RecInv` says
what every index of the caller's buffer holds after one and after two calls.
`RecordsKeepTheirPlace` supposes `ByteOrderIsServed`: no 24 bit file on a machine
whose most significant byte comes first, where the reader takes the sign from the wrong byte.

It adds the transformer and the metadata: `OutputIsTrue`
(`ContentsAssumption`, `NullAssumption`, `WindowsAssumption`) says that after every sequence
of calls the output is true of its content while that content is the input, and nothing of
an output that is asked after another input was set; the invariant is that the buffer
was filled for the content the output was made for, the rest that quotient and
remainder take a position apart as it was put together (`Quotient`). `MetadataAnswers`
and `MetadataIsReleased` (`BlocksAssumption`) are about maps built by recursion over a
block: each spelling finds the last entry of its key, and a map leads to exactly the keys
whose name does not come back (`MapOwns`), so that deleting the first instances of a block
leaves of them the others (`KeysLeft`), whether the block loads or fails at the next one.

`DAFFBindingsProofs` (`BindingAssumption`, `FilesAssumption`) proves
`MexOwnsReaders`, `MexKeepsPromise`, `PyOwnsReaders`, `PyKeepsPromise`,
`PyKeepsNumbers`, `MexKeepsNumbers` and `CsViewsAreTrue`. Commands are many but for the handles of
four kinds: an error, an answer about a known handle, an opening, a closing
(`MexSteps`, `PySteps`). Ownership is inductive together with the fact that no
handle beyond the counter is known; that fact also makes a handle that is given
a new one for `DAFFHandles`. What Python and C# receive rests on two lemmas about
the getters: a response is its stored zone with zeros around it
(`ResponseIsTrue`), a spectrum the numbers of its record (`SpectrumIsTrue`), both
for files whose zones and records lie within what their headers say
(`FilesAssumption`; the reader itself does not test this). The buffer of the Matlab
binding is a recursive function of the channels; it is filled one channel after the
other, so that what it held before is overwritten wherever the client looks
(`DirectionAssumption`: a direction has a record). A C# view keeps to its
content because a reader that has loaded once refuses to load again.

`QDAFFVTKWidgetProofs` proves `MenuIsFollowed`,
`PlotIsCurrent` and `SceneFollowsFile` (`ToggleAssumption`). The invariant adds that a plot
remains a record of the same members under every setter, that there is never a
balloon and a carpet at once, and for the assistants which parts are visible and
that each axis has its four limits. A series of screenshots is a function over its
frames, each of which sets the frequency last. `ScalarsStayInRange` also needs that the
selected file, channel, frequency and range exist (`SelectionRight`), also after a
series, whose last index lies between its ends (`LastBetween`). It rests on
`RangesAssumption` and on `ContentAssumption`: no magnitude is above the maximum of the
header and no spectrum is silent in all records. The latter the code asserts
(`dMax != NULL`); without it the plot divides by 0.

`EveryRecordIsShown` is `EveryRecordIsDrawn` for grids of any number of points. It has three
arguments. A mesh of rings and columns between two tips is closed whatever its points are, as long as they differ
and the order of the columns has no cycle of one or two: an edge is a spoke from a tip, an
arc of a ring or a rib between rings, and the faces with it are named (`SpokeInTwo`,
`ArcInTwo`, `RibInTwo`, `MeshIsClosed`). The mesh of the balloon is of this kind, its
points are the records because dividing an index by the number of columns gives ring
and column (`RingAndColumn`, `BalloonIsCovered`), and the records are as many as
`DAFFGridProofs`, of which the module takes an instance for the headers of the
contents, has counted (`RecordCount`). The carpet on display has the columns of its angle, which every setter keeps
(`CutRight`), and the answers along a full circle are the records of one ring
(`CutIsARing`). The theorem assumes `GridsAreDrawable`, which TLC evaluates for the seven
files: contents with as many records as their grid and points farther apart than the
precision of directions; for a balloon more than one record and, where it is a
whole sphere, three columns and three rings, as with two columns both sides of the sphere
have the same faces; a carpet cut at angles of the beta axis, as the viewer
does, where `NearestRecord` is what `DAFFGrid` answers.

`QDAFFViewerWindowProofs` (`SizeAssumption`, `ContentAssumption`, `FormAssumption`,
`UnsetAssumption`) proves `NearestIsSelected`: when all calls have returned the
selected record is the one nearest to the direction in the object view. In the middle
of a chain it need not be, so the invariant (`Following`) is about the calls that are
left to run: if it is not, one of them will mend it (`Mends`): the object view is to
follow the record, another direction or file is to be set, or the nearest record
itself is to be selected. A call of one of these kinds that returns early has found the
two in agreement, and each call that changes the file, the direction or the record
leaves such a call behind. Nothing is used of the reader's answers or of the
rotation, so that this holds for any grid. But of a recursion deeper than
`StackSize`, which the program does not survive, the model forgets calls, and the
theorems suppose that it does not happen (`NeverCut`, which `WindowReturns` checks on
the instance).

The parts of the invariant and what each call does in its words are in
`QDAFFViewerInvariant`.

`ViewsAreServed` is about every moment, also in the middle of opening a smaller file.
Its invariant `VInv` is again about the calls that are left to run, and about their order:
a call that opens comes first, and the range of the frequency box is set before the selector
is cleared and filled (`Ordered`). What a call is to tell the plots is a
record (`RecordIsServed`) or a frequency (`FrequencyIsServed`) of the open file, and so is what the window has
selected unless a call in front will correct it; nobody moves the box before its range is
set (`Box`), and the selector has no item the file has not (`Selector`). It supposes
`AnswersAreRecords`: the reader answers each direction with a record of the file.
`EveryAnswerIsRecord` of `DAFFGridProofs` shows that it does unless a grid goes round the
full circle and its last ring is no pole; there the index is one behind the last
record (end of section 3).

`EveryViewAgrees` shows `SelectionsAgree` from the same assumptions. Beside `VInv` its
invariant has three parts, each about what the calls left to run will still tell:

- `BoxPart`, the boxes of record and angles: one that does not agree is told next, or
  tells the window next, or waits for the emission that tells it (`BoxIsTold`). This needs
  that no box is given a range without the angles that every file has (`Ranges`).
- `ThetaPart`, the angle theta of the object view, which nobody sends again: the call that tells the
  plot carries the angle of the window, nothing in front of it changes that angle
  (`ThetaIsTold`), and it is told only when the record is the one nearest to it
  (`ThetaIsNearest`), so that no later answer to the record moves it.
- `FrequencyPart`, where box, selector and two plots answer each other. All calls of a
  frequency run in front of the others and are of one frequency, that which the box shows or is given
  (`DirectForm`); or the box can not show the frequency and has moved it to
  its last, and the selector, told right after it (`Adjacent`), moves it back
  (`RestoredForm`); or a frequency is typed (`TypedForm`). While a
  file begins the selector is empty and agrees with nothing (`Loading`). When no call of a
  frequency is left the four agree (`FreeRests`).

The proof has a lemma for each kind of call; TLC agreed on `FrequencyPart`
over all states of the run before it was proved.

`RecentAreOffered` (`RecentAssumption`) is about the recent files and the menu, for any number of keys:
the loop over the old list keeps its order without the opened file (`OthersAreKept`), and
as many entries leave the menu in front as are added behind (`MenuFollows`).

Model-checked only:

- of the scene graph `EveryCallReturns`, which is liveness;
- of the viewer window `WindowReturns`, which is liveness;
- the violations.

## 5. Not modelled

- `DAFFTool`: parses options and prints or exports what the reader answers.
- Drawing: curves of the 2D plot, the content table, positions, colours, display
  modes and labels of the 3D plots, dialogs, OpenGL.
- Transformations of nodes and the cameras of followers.
- Rotations by angles other than quarter turns, and ties of rounding: floating
  point. The Fourier transform and the window function: data.
- `SaveScreenshot` of the test window and other code of tests and notebooks.
- `DAFFVizGrid`, and the direction indicator beyond its place in the scene.
- Of the coordinate assistants positions, labels, the reference planes and what
  the viewer never calls.

What would come next: the rotation over a larger set of exact directions, and liveness
once a prover for it is at hand.
