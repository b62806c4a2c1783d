# A verification of libass

libass renders ASS/SSA subtitles. This directory models the parts of it in
which the order of events matters - the worker pool, the caches, the event
list, collision handling, fonts, frames, scripts, the text of an event - and
those in which a long sequence of small decisions has to come out right - shaping,
runs, outlines, the stroker, the rasteriser, clipping, blurring, layers, numbers -
as TLA+
modules, checks them with TLC on
small instances, and proves the properties that matter most with TLAPS for
every value of the constants. `PROJECT.json` lists the components, the runs,
the theorems, the hazards, and the source lines every definition stands for.

## 1. Inventory

| Component | State | Operations | What is hard |
|---|---|---|---|
| Worker pool, `ass_threading.c` | threads, one lock, one condition variable, the list of posted regions (each in its poster's stack frame), per-thread id and exclusive depth | create, run (nestable), destroy | interleavings, missed wakeups, a region used after its frame is gone, threads that do not start |
| Caches, `ass_cache.c` | per cache shards of hash chains, an eviction queue, a size; items with a reference count and a key that may refer to other items | get, inc/dec_ref, cut, empty, done | counts that go to zero and up again, duplicate misses, items that outlive their shard |
| Image lists, `ass_render.c` (end) | lists of images, each referring to its source bitmap; a reference count per list | ass_render_frame, ass_frame_ref, ass_frame_unref | released by another thread, or after the renderer is gone |
| Event list, `ass.c` | events, the ReadOrder bitmap, `prune_next_ts` | ass_process_chunk, script lines, flush, prune | packets delivered again, out of range, half-way failures |
| Collision handling, `ass_render.c` | `render_priv` of every event, the places taken in a frame | fix_collisions, fit_rect, ass_reconfigure | places noted in earlier frames and under other settings |
| Fonts, `ass_font.c`; selection, `ass_fontselect.c` | the faces of a font, added on demand; the font database, extended on demand | ass_font_new, ass_font_get_index, ass_font_select, providers | order of requests from several threads, one face used for many symbols |
| Renderer lifecycle, `ass_render.c`, `ass_render_api.c` | settings, `render_id`, caches, worker contexts, the last two image lists | set_*, start/end frame, update_pool, done | failures half-way, settings that change between frames, change detection |
| Event rendering, `ass_render.c` | the text of one event: glyph runs, lines, bitmaps | ass_render_event and its steps | long sequential pipeline with floating-point geometry |
| Script parser, `ass.c` | sections, header, styles, embedded fonts | ass_process_line and its callees | formats that appear late, twice or never |
| Override tags, `ass_parse.c` | the rendering state of an event | ass_parse_tags | nested tags, transforms, resets |
| Shaper, `ass_shaper.c` | buffers, runs, directions, the font lock | find_runs, shape, reorder, cleanup | mapping between characters, runs, clusters and glyphs; joiners at the ends of runs; paragraphs and lines counted apart |
| Runs of glyphs, `ass_render.c` | combined bitmaps, items left to the workers | render_and_combine_glyphs, raster_task | rounding to a common origin, arrays that move, what a failure leaves |
| Drawings, `ass_drawing.c` | tokens, the pen, the start of a spline | tokenize, parse | commands that complete or repeat what others began |
| Outlines, `ass_outline.c` | the state of the stroker | build, convert, stroke | pieces whose end is put out by whatever comes next; pieces that are skipped |
| Rasteriser, `ass_rasterizer.c` | two buffers of lines, winding numbers | set_outline, fill, export of tiles | lines that touch an edge or a corner of a part; buffers shared by the halves of a window |
| Bitmaps and blur, `ass_bitmap.c`, `ass_blur.c` | none between calls | combine, clip, blur, also by bands in parallel | pixels lost or done twice; sizes foreseen in one step and reached in many |
| Layers of runs, `ass_render.c` | the list of images | shadows, borders, fills; drawn or left to a consumer | two ways to decide the same |
| Font providers (fontconfig, CoreText, DirectWrite) | platform handles | callbacks of the selector | platform behaviour |
| Utilities, `ass_strtod.c`, `ass_utils.c` | none | reading of numbers and colours, UTF-8, UTF-16 | exponents and integers at the ends of their widths, names that are not well formed |
| Library object, `ass_library.c` | settings, embedded fonts, style overrides | getters, setters, ass_add_font | ends before or after its users |

How they interact. `ass_render_frame` posts one job per frame to the pool, a
task per event; a task renders its event with the scratch of the worker that
runs it, and may post a nested job for the bitmaps of the event. All tasks share
the caches: a bitmap's key refers to outlines, an outline's key to a font. The
images of a frame refer to the bitmaps, and so does whoever called
`ass_frame_ref`. When all events are there the calling thread groups them by
layer and moves colliding ones apart, compares the list with the previous one,
cuts the caches to their limits and prunes the track.

What makes each correct: the pool runs every task once and returns only then,
nobody sleeps for ever, scratch is not shared; the caches keep what is referred
to, free the rest, and never hold a key twice; the event list holds every packet
once, whatever is delivered again; events of a layer do not overlap and do not
jump; a symbol keeps the face it was drawn from. The text of an event is cut into
runs that one font can draw, and read in the direction of its paragraphs; an
outline is closed; a bitmap shows what is inside its outlines; every pixel is shown
once, where it belongs; a consumer that draws layers by itself draws what the
renderer would have.

## 2. Modules

| Module | Models | Extends / uses |
|---|---|---|
| `ParallelFor` | what `ass_thread_pool_run` promises: every index once, return when all are done | - |
| `ThreadPool` | `ass_threading.c`, from creation to destruction and rebuilding | implements `ParallelFor` |
| `ThreadPoolProofs` | proofs about the pool | `ThreadPool` |
| `Cache` | `ass_cache.c`, and what the renderer and its consumers do to the caches | - |
| `CacheProofs` | proofs about items, references and lists | `Cache` |
| `Track` | `ass_process_chunk`, script lines, flush and prune of `ass.c` | - |
| `TrackProofs` | proofs about the event list | `Track` |
| `Collisions` | `fix_collisions`, `fit_rect`, `shift_event`, `get_render_priv` | - |
| `CollisionsProofs` | proofs about collision handling | `Collisions` |
| `FontSelect` | `ass_fontselect.c`: the font database and its search, as operators | - |
| `Fonts` | `ass_font.c`: faces of logical fonts, shared by the tasks of a frame | `FontSelect` |
| `FontsProofs` | proofs about the faces of a font and the glyphs drawn | `Fonts` |
| `Frames` | `ass_render_frame` from start to end, the settings, `ass_renderer_update_pool` | - |
| `FramesProofs` | proofs about frames, settings and the pool's contexts | `Frames` |
| `Script` | `process_line` and its callees in `ass.c`: sections, header, formats, styles, embedded fonts, overrides | - |
| `ScriptProofs` | proofs about styles, the default style, embedded fonts | `Script` |
| `Values` | `ass_strtod`, integers and colours of headers and tags, UTF-8 and UTF-16 | - |
| `Parser` | the two of these together, for one run | `Script`, `Values` |
| `Tags` | `ass_parse_tags` and what sets its state up and resets it, as operators | - |
| `Event` | `ass_render_event`, from the text of an event to the places of its lines; karaoke | `Tags` |
| `EventProofs` | proofs about the text of an event | `Event` |
| `Outline` | `ass_drawing.c`, the building of outlines, the conversion of a font's glyphs | - |
| `Stroker` | `ass_outline_stroke` | `Outline` |
| `Raster` | `ass_rasterizer.c`, `ass_outline_to_bitmap`, the filling of tiles | `Outline` |
| `Shaper` | `ass_shaper.c`: runs, shaping, visual order | - |
| `Runs` | `render_and_combine_glyphs` and its tasks | `Shaper` |
| `Images` | combining bitmaps by bands, the images of a run, clips | - |
| `Blur` | `ass_blur.c`: stages, sizes, bands | - |
| `Layers` | shadows, borders and fills of runs, drawn or left to a consumer | - |
| `Glyphs` | all of these, and the entries of the outline cache | `Runs`, `Stroker`, `Raster`, `Images`, `Blur`, `Layers` |
| `MC*` | values for the constants of TLC's runs | the module named |

**ThreadPool.** A thread's C stack is a sequence of `run` and `task`
activations; a `TaskRegion` lives in the frame of the run that posted it and is
`Dead` when the frame is gone. One step is what happens between two points at
which another thread can get in: a critical section up to a wait, one iteration
of the loop of `run_tasks`, the atomic increment of `done` (which is made
outside the lock, so that its reader, the owner, can overtake the rest of the
finisher). `Claim`, `FinishTask`, `Rejoin`, `LoopWait`, `ReturnFromRun` and
`WorkerExit` are that loop; `Run`, `Publish` and `Inline` are
`ass_thread_pool_run`; `Create` to `AwaitRelock` are `ass_thread_pool_create`,
with its failures, and `Destroy`, `Shut`, `Join` the destruction. The mutex and
the condition variable are a holder and a set of sleepers.

**Cache.** The items of all caches are slots; a key says which cache it is of,
which chain, and which keys it refers to. What a thread has still to do after it
has given up a lock (the second half of `ass_cache_dec_ref`, the loop of a
destructor, of `ass_cache_cut` or of `ass_cache_empty`) is a stack of pending
operations, so that every other thread can act in between. The renderer's driver
starts and ends frames, changes settings and closes; workers look items up and
draw images; a consumer holds and releases lists of images. The address of a list
that nobody refers to can be that of a new one only when the last of its images has
been freed (`Unused`), which is after its count has become 0.

**Track.** `read_order_bitmap` is a set of ReadOrders or `NULL`. A packet goes
through the head of `ass_process_chunk` (the rebuilding of the bitmap), its own
test-and-set, and the storing of the event, each of which may fail.

**Collisions.** A layer's events in their order, the `render_priv` each keeps
from frame to frame, the rectangles taken so far. `Keep` and `Place` are the
iterations of the two loops of `fix_collisions`; `Fit` is one iteration of
`fit_rect`, `FitEnd` its end. An event has one image, which may lie anywhere:
`render_glyph` clips to the frame, `my_draw_glyph` of the deferred modes does not,
and in the outline mode an image has no rows (`outline`). The history variable `drawn`
has the events as they were rendered, so that it can be said where an image that was
moved should be (`Follows`); an event that is not moved is not clipped either, and
nothing is said of where its image lies.

**FontSelect, Fonts.** The database is a sequence of entries with uids; what a
font holds and what a provider answers are constants. The renderer serialises
everything about fonts by one recursive lock, so a step is a whole
`ass_font_new` or `ass_font_get_index`; the interleaving that is left is the
order in which the tasks of a frame get there. A frame's tasks first open the
fonts of their text, then look up its symbols.

**Frames.** A frame is started (`StartFrame`, or `FailedFrame`, which changes
nothing but what is reported), its events are rendered (`Rasterise` and `Combine`
are the misses in the two caches, `GetSource` the hits, `RenderText` makes the
images and takes run ids), and ended (`EndFrame`: sort, concatenate, compare,
let the previous list go). In between, the setters empty the caches they affect.
`mem` is the memory in use; a block lives while something refers to it, and its
address is free afterwards, so that comparing addresses can go wrong if the
order of the steps does. `SetThreadCount` to `CreatePool` are
`ass_renderer_update_pool`, one context at a time, with its failures.
Not in it: borders, clips, karaoke, and events without a place (a failed
`ass_render_event` is an event without runs). `ass_image_compare`
leaves `run_id` and `clip_id` out on purpose (ass_render.c, lines 4015-4018), and so do
`Compare` and what a consumer is taken to see: that two frames group the same images
differently is outside what is said of change.

**Script.** A line of a text is a record whose `kind` says what it begins with;
a format is the sequence of its field names, a Style or Dialogue line the
sequence of its values. `Line` is `process_line`: what a line does depends on the
section (`state`), so that there is one action for each kind of line in each
section. `Begin` and `EndData` to `EndStyles` are the calls that read texts; a
track may be given any number of them, and `state`, the formats and the header
carry over from one to the next, as in the code. Memory may run out at any
allocation whose failure the code notices. `given`, `written` and `open` are
history: what the texts say, to compare with what the track has. `Sessions`
bounds a behaviour to a set of lines and of calls, chosen at the start.

**Values.** The parts of `ass_strtod` are steps, every other call is one. A text
is a sequence of characters, as a number's digits are what its value is about.
Widths are constants: `size_t` has `SizeMod` values, an `int` four bytes of `Byte`
values, and the longest exponent is one less than 2 to the number of `Powers`; the
code's own are too many to run through. A double is the integer of its mantissa
and a power of ten, so what is lost by rounding is left out. What is read is
compared with what was written: place values for digits, and for UTF-16 which
units have another half.

**Tags, Event.** A text is a sequence of characters and blocks, a block a
sequence of tags, a tag a name with its arguments as integers. What tags do to
the `RenderContext` is in `Tags`, one operator per group of tags that work alike:
those that `\t` animates (`Animate`; `\t` is past, halfway, or yet to come), those
that take effect at once (`Switch` and others), those that count once an event
(`Position`, `Origin`, `Align`, `Fade`), clips, and karaoke. `NextTag` is the loop
of `ass_parse_tags` with its recursion for `\t`, whose tags end at the first `)`
whichever tag it was meant for. `Event` goes through the phases of
`ass_render_event`: `Block` and `Glyph` are the iterations of `parse_events`,
`Split` is `split_style_runs`, `WrapGlyph` and `WrapBreak` those of
`wrap_lines_naive`, `Balance` and `BalanceEnd` the two loops of
`wrap_lines_rebalance`, `Trim`, `Measure`, `Karaoke`, `Reorder` and `AlignLines` the
functions of these names. One context renders an event after the other, as a
worker's does; what is left of the one is what the next starts from. Widths are
advances, metrics are font sizes; shaping and bitmaps are in the modules below;
margins and the place in the frame are left out. `rendered` and `discarded` are
history.

**Glyphs.** What becomes of a text once it is laid out. A behaviour is a session,
chosen at the start: a text, an outline, a bitmap, the images of a run, its
bitmaps, its blur, or the layers of an event. They are in one module because they
share what an outline or an image is, and in one run; they do not otherwise depend
on each other, as the functions they model do not.

**Shaper, Runs.** A text is a sequence of characters with what the font database,
FriBidi and HarfBuzz say of each: these are external, and any of their answers is
tried. `FindRuns` is `ass_shaper_find_runs`, `FindLevels`, `ShapeRun` and
`ReorderLine` are the loops of `ass_shaper_shape` and `ass_shaper_reorder`, with
their failures. A glyph is the chain of parts HarfBuzz made for its character.
`Walk` is the loop of `render_and_combine_glyphs` that begins runs and collects
glyphs; what it leaves to workers (`Later`) is done by `RasterItem` in any order, at
the end of which the results are collected. What is compared with is the same
without workers (`SerialRuns`).

**Outline, Stroker.** An outline is its points, its segments, and room for more;
drawing commands become tokens (`Tokenize`), tokens an outline (`ParseDrawing`),
a glyph's contours another (`Convert`). Of a drawing there is one coordinate. The
stroker is modelled without its geometry: whatever it can conclude from it (two
points are one; the path turns left or right; an offset does, may or cannot
intersect itself) is a choice, so that what is left is the bookkeeping of which
piece ends which. One thing is assumed of the geometry, in the head of the module.

**Raster.** The rasteriser is modelled with its numbers, which are exact: lines
are cut where the window is halved, until a part of the window is solid, is cut by
one line, or is a tile. `SplitSegment` is the body of `polyline_split_horz` and of
`polyline_split_vert`, which are the same with the axes exchanged; `SplitLevel`,
`FillSolid`, `FillHalfplane` and `FillTile` are the ways `rasterizer_fill_level` goes
on, with its recursion as a stack (`levels`). A tile is recorded as it is filled or
exported. The scaling of a line's coefficients, which does not change their signs,
and antialiasing are left out.

**Images, Blur, Layers.** Rectangles of pixels: bands of rows and of stripes in any
order, the pieces an inverse clip leaves, with the drawing that clips and may fail.
A blur is the sequence of its stages on each axis, as sizes and origins. Layers are
what is drawn of a run and from what coverage, by the renderer and, apart from that,
by `render_run_deferred` and `render_shadow_deferred` for a consumer.

## 3. Runs

| Run | Question | Bounds, and why they are enough |
|---|---|---|
| `ThreadPool_safety` | Is the pool safe in every interleaving, and does it implement `ParallelFor`? | 2 workers and the caller, 3 regions, 2 tasks each, 1 nested run per task, spurious wakeups, failing creation. 3 threads and 3 regions give a thread that helps a second job while its own is unfinished, and a third thread that finishes either. |
| `ThreadPool_liveness` | Does every run, and destruction, return under weak fairness? | As above with 2 regions and no spurious wakeups, which would hide a missed broadcast. |
| `Cache_safety` | Are references, chains and books right? | 2 workers that miss the same key, a chain of three keys (bitmap, border, glyph) so that one eviction releases others, limit of 1, 2 frames. |
| `Cache_unref_race`, `Cache_fonts` | findings, see below | the smallest instance that shows each |
| `Track_safety` | Are duplicates discarded, and is the bitmap exact? | 3 events, ReadOrders 0 to 2 of which 2 is out of range, times 0 to 2, failures of allocation anywhere. |
| `Collisions_safety` | Do events of a layer keep apart and stay put, and do their images go with them? | 3 events over any number of frames and 2 `render_id`s: one that stays, one that comes, one that a shift past the first brings up against; their images are combined ones that are cut at the frame, and glyphs and outlines that reach beyond it above and below, before they are moved and after. |
| `Fonts_safety` | Is no face opened twice, does a symbol keep its glyph? | 2 events a frame, 2 frames, 4 logical fonts over 7 faces, at most 2 faces a font so that the table fills up. |
| `Frames_safety` | Is change reported, nothing stale drawn, every run id unique, the pool whole? | 2 frames of 4 scenes (a glyph, the same moved, two events with a shadow and a transparent fill, no events), 4 addresses so that they are used again and run out, 2 looks, all modes, up to 2 threads; any number of setters. Two frames are what a comparison is about; addresses are symmetric. |
| `Script_safety` | Does an explicit ScaledBorderAndShadow win, is the default style the last of its name, do fonts arrive whole; do numbers, colours and encodings mean what they say? | Any lines in any order, any calls, memory failing anywhere, in three kinds of sessions: headers, formats and sections with at most 1 style; bodies with 2 styles and 2 events; 2 fontname lines with 2 data lines each. Two of a kind are what order, replacement and the end of the one by the other are about. And calls that read a value, in a `size_t` of 32 and with exponents of up to 15: numbers whose digits and zeros, before and behind the point, and whose exponents go past what is kept, what fits, and where unsigned numbers wrap; integers of more bits than an `int`; colours; texts of the shortest and longest characters of every length; names with halves of surrogates in any order, cut off, in buffers that are too short. |
| `Event_safety` | Is each run sung on time, are lines broken, trimmed, measured and placed right, does balancing end, does an event depend on the one before? | Three kinds of sessions: songs of three characters with any of 9 blocks before each, or of four with any of 5 (a syllable, one cut by a style, a clock that is set within a run, and a run after it: what the rules are about); texts of up to 10 letters and blanks on a frame of 5, which makes three lines, so that a move changes what the next is compared with, and shorter ones with both kinds of line feeds in each way of wrapping; an event, any other with up to two blocks of any kind, and the first again. Room for 2 lines at first, so that it must grow and may fail to. |
| `Glyphs_safety` | Is text shaped and reordered right, is every outline closed, does a bitmap show the inside of its outlines, is every pixel shown once where it belongs, and do the two ways to make layers agree? | Texts of up to 4 characters of 8 kinds (two scripts, joiners, ligatures, two parts, a line and a paragraph that end, a style), and of 6 looks; drawings of up to 3 commands, and 4 after a beginning, with any points; contours of up to 5 tags; borders around 1 to 4 segments, with every conclusion of the geometry. Triangles on a grid of 9 points and quadrilaterals on one of 6, on edges and corners of tiles of 8 by 8, in windows of up to 3 by 3 tiles, rings, pairs, splines; a line that is cut on each axis, and one that touches an edge, is what the rules are about. Clips, drawings and boxes in every position to a bitmap of up to 4 by 4; 2 or 3 bitmaps combined by up to 5 threads; blurs of each method up to level 3 of 1 to 900 pixels. One run of any style and mode, and two of 5. Memory fails anywhere. |

Every property of a passing run comes with a mutant: a small change of a
definition, of a kind that could be made in the code, under which TLC finds
that property violated. The mutated forms stand before the definitions they
replace and are marked as mutants.

**Fairness.** `Event` assumes weak fairness of the loop of `wrap_lines_rebalance`
only: a thread in a loop goes on. `ThreadPool_liveness` assumes weak fairness of each
thread's progress (a thread that holds the lock goes on; one that wants a free
mutex gets it in the end; a task body returns) and of the owner's creation and
destruction once begun. Threads that run and a mutex that does not starve its
waiters are all that this takes. Nobody is obliged to post a job or to destroy
the pool.

The type invariants of `ThreadPool`, `Track` and `Collisions` are not checked by
runs of their own: `TypeCorrect` proves the first for every instance, and the other
two are parts of the inductive invariants of the proofs. That of `Cache` is part of
`RefsAccounted`, with which it is that nothing is leaked; that a key is in a chain
once is part of `ShardsBalance`. That of `Glyphs` is part of `TextShaped`, that of
`Fonts` of `NoFaceTwice` and that of `Script` of `DefaultIsLast`.

`CHECK_DEADLOCK FALSE` is said of the runs in which the system may stop: the
pool that was given up is rebuilt in `ThreadPool`, so deadlock is checked there,
as it is in `Track` and `Frames`; `Cache` ends with the renderer closed, `Fonts` with the
bound on frames, `Collisions` with the bound on `render_id`,
`Script` with a script that is given up because its type did not show,
`Event` with the last event, and `Glyphs` when its session is done.

## 4. Proofs

| Module | Theorems | Argument |
|---|---|---|
| `ThreadPoolProofs` | `TypeCorrect`, `Accounted`, `RegionsAlive`, `Completion`, `Implementation` | `WellFormed`, first: `TypeOK`, and what the stacks look like at each program point. Then `IInv`: for every region that is open, `next` is what was claimed, and every claimed index is either among the finished, or counted nowhere but on exactly one stack (`Accounting`, `Unfinished`); the stack frame of a run owns its region (`Owned`, `RunFrames`); a task frame refers to an open region with an index below `next` (`TaskFrames`). A run returns when `done` equals `count`; with the accounting, no stack then holds a task of the region. That makes the finisher's last access safe, and the return a step of `ParallelFor`. |
| | `PoolOutlives`, `ScratchNotShared` | `Presence`: `ready_workers` counts the workers that are up, `shutdown` is said only by a caller that then joins, and no worker is booting once the caller can post; without the count, nothing would say that creation waited for all it started. `Scratch`: what a thread-local id is at every depth of nesting, and was saved as (`Slots`), that a thread is in at most one exclusive task and its depth says so (`Depths`), and that an inline run has no exclusive task below it (`InlineDepth`). It takes `~NestedExclusive`: an exclusive task posts no exclusive job, as in `ass_render.c`. |
| `CacheProofs` | `Invariance`, `NothingDangles`, `ReferencesAccounted`, `BooksBalance`, `ListsDoNotChange` | `IInv` has fourteen parts. What may wait below what on a stack, and on whose (`Stacks`), so that a decrement is always what its thread does next and is counted; an item that is about to be destroyed or published has one custodian (`OneCustodian`), and is in no chain, in no queue and without a reference (`Ready`, `Lost`); every other item that lives is linked, or belongs to no shard and is referred to (`Placed`); counts are the numbers of those who refer (`Counted`, `ListsCounted`); what is walked is being emptied, and nothing on the stack above a walk touches the rest of its chain (`Walks`, `Paths`); while the driver maintains the caches, nobody else is at work (`Turns`). With it, to follow a pointer is to refer to an item, its count is then not 0, and it lives. That nothing is left behind takes one more thought: in the end only keys refer to items, keys are built on one another without cycles, and of the items left one would be of a key on which no other is built. |
| `TrackProofs` | `Consistent`, `BitmapFollowsEvents`, `NoDuplicates`, `PruneComplete`, `GrownBitmapFits` | `IInv`: the bitmap is `NULL`, or has exactly the bits of the events and of packets found malformed; ReadOrders in the list are distinct while checking is on; `prune_next_ts` is not later than any end. It takes the assumption that checking is not switched in mid-stream (`~MayToggle`): a bitmap that was there before does not see what was read while checking was off. |
| `CollisionsProofs` | `Invariance`, `CollisionsResolved`, `NearestPlace`, `NoJumps`, `ImagesGoAlong` | `IInv`: the rectangles taken are pairwise apart (`Separate`), each fixed event of the layer has its rectangle among them (`Complete`), and during `fit_rect` every place passed by is one the shifted event is clear of, while any smaller shift hits one (`Fitting`). Places are looked at in the order of the direction of the shift, so a place that was passed stays cleared. Of images it says that an event which has no place yet in this frame is as it was rendered (`Carried`): each is moved once, and what one `shift_event` does is `ShiftedKeeps`. |
| `FramesProofs` | `PoolIsWhole`, `NothingIsStale`, `ChangeIsSound`, `IdsAreUnique`, `TypeCorrect` | `PoolBooks`: there are as many contexts as `alive` says, the first ones, and `n_threads` is their number whenever nothing is being built; so that `destroy_render_pool`, which looks among the first `n_threads`, finds them all. `DrawnRight`: bitmaps that can be found were made under the settings in force; a composite was made from the bitmap that is its key, which it keeps in memory, in the blur mode in force (`Fresh`); the sources taken so far fit their runs (`FrameFits`). A composite made from segments may stay in its cache, since its key is a bitmap that can no longer be found. `Reported`: the list that the next one is compared with has its blocks and shows what was reported of it (`StillShown`), so that an address that is the same is the same block. `AllHeld`: memory is what the roots reach, and a key has no key (`MemoryHeld`); the images made so far have blocks and ids not beyond `run_base`, and no id is of two (`FrameMade`), since each event takes its ids from there on. The list that is returned has only images that were made: `FlattenTyped` proves of `FlattenSeq`, and `SortedSorts` of the sorted events, by the smallest number that would be an exception. |
| `FontsProofs` | `Invariance`, `FacesAreDistinct`, `GlyphsStay` | `IInv`: a selector that is open has the number of its place (`Numbered`), so that two entries of the list differ; a font's faces come from different entries, each the first entry of the list that has this file; and what was drawn of a symbol is the glyph of the first face that has it, unless the charmap of that face or of one before it was switched. A face is only added behind those there are, so it is not before the one that was found. |
| `ScriptProofs` | `Invariance`, `SaidStands`, `DefaultIsFound`, `FontsAreWhole` | `IInv`: types; the default style is the last that is called Default (`LastDefault`); a font that is being read is the last one of the text and its buffer holds all the data of it so far (`Reading`), while the library has fewer fonts than the text began; the library's fonts are fonts of the text in the order of the text, by a monotone map from the one to the other, and none is the one still open (`InOrder`). |
| `EventProofs` | `TypesOK`, `Fresh`, `OnTime`, `LinesRight` | `CInv`: the context has its fields at every step, and the text is that of the n-th event; `GInv`: glyphs, lines and the variables of the loops have their types, where the words that karaoke makes are typed by following its fold. `Fresh` is of two runs of one context, and so about a history, not about a state: contexts are `Alike` when they differ in nothing but what the two writers of a clip's drawing leave behind; `InitAlike` says that `InitContext` makes alike contexts of any two that `FreeContext` was given, and one lemma for each group of tags that they stay alike. The steps for an event are then a function of the event (`Step`, of a record `Now` of what they read, with one lemma for each action), a rendered event is the end of such a run (`RunInv`), and of two runs that end, from the same start, the ends are the same (`SameRun`). |
| | | `OnTime`: the clock of a text is a fold over its tags (`ClockOn`); what the code has of it at a time is spread over the context, the glyphs and the word it is timing, and `Follows` says how a part of the code's state makes the clock that comes next of the one before. `KInv` says that the context does so for the tags read since the last glyph (`Pending`; one lemma for tags, by the fold over the tags of a block, and one for what the text does besides), each glyph for the tags read between the last one and itself (`TimedGlyph`), and that no glyph within a run begins anything (`InRun`: `split_style_runs` starts a run where an effect begins, and marks are only ever added, whatever the way of wrapping, balancing and trimming); in the end, what the theorem says (`SungRight`). Then one loop invariant, `RunSoFar`, of `ass_process_karaoke_effects`: after k glyphs, the time it has come to is what the clock had at the end of the last word, or before it (`RunBegins`, `RunGoesOn`, `RunEnds`). |
| | | `LinesRight`: `LInv` says at each step what the steps before it have left on the glyphs. `Wrapping`: up to the glyph that is looked at, breaks are where line feeds and the way of wrapping ask for them (`MarkedUpTo`), the last place to break is the last one since the last break, and no line is too long so far unless it is a word (`FitsUpTo`, of texts whose blanks are single). `Balancing`: between the two breaks that are compared there is no other; what is moved is the last word of a line to the next, and only if their lengths are then nearer to each other, so that the second with it is no longer than the first was, which fits (`WordFits`). `TextTrimmed`: blanks are trimmed from the edges inwards, and the first glyph that is shown begins a run. `Measured`: each of `lines` goes from a break, the one of its rank (`RankFound`), to the next; the height is the sum so far (`HeightUpTo`), of which the baselines are partial sums (`Stacked`), and the shift of a line is at most what its own width leaves of the frame, since the widest is one of them (`Greatest`, `ShiftWithin`, `InFrame`). It takes `SInv`, that every glyph has a font size, and facts about sums over a set of glyphs (`SumNext`, `SumGrows`), by the smallest number that would be an exception. |

The theorems of `CacheProofs` have two hypotheses, of which the findings below tell
what happens without them. `Serialised`: `ass_frame_unref` does not run while the
driver cuts or empties caches, which the code leaves to its callers
(`Cache_unref_race`). `ChainsApart`: no item is in the hash chain of one that its key
refers to, directly or not, as it would be if the hashes of a border outline and of
the outline it strokes collided in one cache (`WalkMeetsItems`). Both hold in
`Cache_safety`, where TLC has checked `ChainsApart` with each part of `IInv`.
`KeysAssumption` says of keys that none is built on itself, by a height that what it
refers to is below: in `ass_cache_template.h` a composite refers to bitmaps, a bitmap
to an outline, a border to the outline it strokes, the outline of a glyph to a font.

The `IInv`s, `Presence`, `Scratch`, `PoolBooks`, `DrawnRight`, `Reported`,
`AllHeld`, `KInv` and `LInv` were checked by TLC on the instances of the runs; `CompleteOnReturn` of `ThreadPool`, which `Completion` proves, is what
`ParallelFor` asks of a return, and is covered in the runs by
`ImplementsParallelFor`.

All of them hold for every value of the constants that satisfies the modules'
named assumptions; the assumptions are evaluated by TLC in the runs.

Model-checked only: liveness of the pool and of balancing (`EveryRunReturns`,
`DestroyReturns`, `Settles`; the prover does not do liveness); and everything about
glyphs, values, runs and layers.
Induction is not out of reach where a set of numbers says what is to be proved: the
smallest exception is found with `WFMin` of the library, as in `FlattenTyped`, and
so are the functions that `Tags` and `Event` define recursively shown to exist
(`ParsedToEnd`, `TickedToEnd`, `WordsReached`). But the prover knows nothing of `SelectSeq` and
`SortSeq`, so that `Frames` has `Those` and `Sorted` for them, and `Shaper` and the
like are not written that way.
`Raster` and `Values` compute with recursive operators (splines are divided until they are
flat), which the prover does not take, and `Glyphs` extends it.

Proofs that failed have corrected what TLC had passed: `TypeOK` of `Event` said of
`last_breakable` that it is never beyond the glyphs, which an event that is given up
can break, and `SetEarly` left out a `\kt` that sets the clock to 0.

## 5. Findings

* `Cache_unref_race`: `ass_cache_cut` and `ass_cache_empty` work without the
  locks that `ass_cache_dec_ref` takes, so `ass_frame_unref` is not safe from
  *any* thread at *any* time.
* `Cache_fonts`: the FreeType library goes before the last frame that keeps a
  font.

Not among the runs, for want of room: in `Fonts`, which fallback a symbol gets, and
so how it looks, can depend on the threads, although ass.h, lines 802-803, says that
"Output is identical to single-threaded rendering regardless of the thread count" (`AsSingleThreaded` of
`MCFonts`, with the constants named `Order*`, `Symbols <- TwoSymbols`,
`Scanned <- OrderScanned` and one frame); in `Fonts`, with a default font file, the
uid of the default font is never set and is compared all the same
(`EachFaceOnce`); in `Script`, a standard Format line that is read before the type
of the track is known (an [Events] section before any styles, in codec-private
data) is compared with the SSA format and taken for a custom one, so that
ScaledBorderAndShadow is switched on against the comment at ass.c, lines 801-811
(`StandardKeepsDefault`); in `Cache`, with two keys of one chain,
`ass_cache_empty` may step from an item to a successor that destroying the item
has freed (`WalkMeetsItems`); in `Track`, with `MayToggle = TRUE`, packets read
while duplicate checking was off are not known when it is on again
(`DuplicatesDiscarded`); in `Frames`, `outline_deferred` without
`composite_deferred` has runs that are not combined and yet drops their
transparent images, although `ass_set_outline_deferred` is documented to force
`composite_deferred` (ass.h, lines 567-568); in `Frames`, after a frame that could
not be started, and returned nothing, the next one is compared with the one before
it and may report that nothing has changed, although ass.h, line 828, says
"compare to the previous call" (`ChangeSinceLastCall`, with `MCStillOrEmpty`, three
frames and two addresses); in `ThreadPool`, with
`NestedExclusive = TRUE`, exclusive tasks that post exclusive jobs fall asleep
(the library posts none), and with `"threads" \in Failures` creation
dereferences a null pointer when the thread array cannot be allocated
(`NullOnFailure`).

In `Collisions`, `shift_event` cuts an outline that it moves past the top as if it had
rows (ass_render.c, line 3863: `dst_y` becomes 0, while the tiles stay as they are and
the stride is 0), so that all of it is drawn lower than its event stands, although ass.h,
lines 115-116, says of it that "every coordinate below is relative to its origin"
(`OutlinesFollow`, with two events, `Layouts <- OutlinesOf` of `MCCollisions` and
`MayFail = FALSE`). A glyph of the composite-deferred mode that is cut at the top or the
bottom keeps its `glyph_id`, although that is the id of "the coverage bitmap, identical
across frames where only the glyph's position changes" (ass.h, lines 97-98).

In `Event`: with the Unicode algorithm (`Hyphens` of `MCEvent`), balancing moves a
word that begins with the character after which the break was allowed, so that a
line may begin with a hyphen (`BrokenByUnicode`; ass.h, line 383, says "Break lines
according to the Unicode Line Breaking Algorithm"). When the array of lines cannot
be enlarged, `max_lines` is doubled all the same, and later lines are written
beyond it (`LinesFit`; ass_render.c, lines 2286-2294). A `\kt` before the first
syllable, with a glyph between them, is lost, takes effect a syllable late, or stops
the clock of that syllable, so that the second one starts with it (`KaraokeOnTime`
without `SetEarly`).
In `Layers`, three cases in which what a consumer is told to draw is not what the
renderer would draw, and which `LayersAgree` has as exceptions: the fill of a run
that is not visible is cut out of its border before the shadow is copied from it,
and is not when the shadow is left to a consumer (`Hollow`; ass_render.c, lines
3436-3441 against the comment at 547-551); a box with a shadow and no border, in an
event that ends in a style with BorderStyle 4, is not drawn by the renderer and is
handed out as a border (`LateBox`; lines 1290-1296); when only the blur is left to
others, the fill is cut out of the border before it is blurred and not after
(`CutEarly`; lines 3402-3437).

In `Values`: a colour of four bytes is read modulo 2^32 in a header, and in a tag
saturates at the largest `int32_t` (ass_utils.h, line 261), which then has its bytes
exchanged; an exponent without digits is taken off the text (`1e`), although "E and X
may both be omitted (but not just one)" (ass_strtod.c, lines 89-90); a character that is
followed by more bytes of a sequence than it says falls apart into its bytes.

In `Raster`, the export of tiles does not look at whether the filling failed
(ass_rasterizer.c, line 401): without memory for the lines of a part it hands out the
tiles it has, where a bitmap would be given up. In `Blur`, the Gaussian gives up when
its buffer is larger than a quarter of INT_MAX and `ass_blur_expand_only`, which
foresees its size for a consumer, does not.

In `Shaper` and `Runs`: when shaping fails, the glyphs chained by then leak, for
`ass_render_event` does not call `ass_shaper_cleanup` on that way out (lines
3538-3542); when reordering fails, it goes on with no characters; and
`apply_baseline_shear` asks the track whether text is laid out as a whole and not
the shaper, which may have decided so by itself. In `Outline`, a drawing whose tokens
do not fit in memory is taken for an empty one, and kept in the cache as that. In
`Images`, an `\iclip` with its corners exchanged draws the pixels between its edges
twice, and a drawing that cannot be clipped for want of memory leaves that image,
and those after it, whole.

Two more were read and not modelled:
`ass_event_has_hard_overrides` does not skip blanks after a backslash, as
`ass_parse_tags` does, so that `{\ pos(1,2)}` places an event and yet lets the
user's style override its look; and `ass_step_sub` (ass.c, from line 1721), asked
to step further than there are events, begins again from the time it was given.

## 6. Not modelled

The values of pixels: antialiasing, what blending and the kernels of the blur
compute; the repository compares them, in C and in assembly, with each other and
with reference images. Geometry in floating point: transforms and projections,
where the offset of a curve is, positions and margins of an event in the frame,
scrolling. Platform adapters (CoreText, DirectWrite, fontconfig): external;
`FontSelect` has them as constants. What HarfBuzz and FriBidi do. Metrics of glyphs
and of faces. Reading of files, conversion of character sets by iconv, time codes, the
setters of the library object (it holds settings for others), memory of a given
alignment, and the test and fuzz programs.
Memory exhaustion is modelled where the code reacts to it, and left out where it
does not check.

## 7. Plan

Done: the pool, the caches, the event list, collisions, fonts, frames, scripts,
values, override tags, the layout of an event, shaping, runs, drawings, outlines, the
stroker, the rasteriser, clipping, blurring and layers; proofs of the pool, the
caches, the event list, collisions, frames, fonts and scripts, and of the types, the
freshness, the karaoke and the lines of an event. Next, in this order:

1. A proof of `Blur`, that the size foreseen is the size reached.
2. What is left of the renderer: margins, scrolling, `ass_step_sub`, features of a
   track.
