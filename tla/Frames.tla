------------------------------- MODULE Frames --------------------------------
(***************************************************************************)
(* libass/ass_render.c and ass_render_api.c: a renderer from frame to      *)
(* frame.  ass_render_frame starts a frame, or fails to; renders the       *)
(* events that are active, by itself or as tasks of the pool; puts their   *)
(* images into one list; says how the list differs from the one before;    *)
(* and lets that one go.  Between frames the caller changes settings, each *)
(* of which empties the caches it makes worthless, and the number of       *)
(* threads, which rebuilds the pool and its render contexts.               *)
(*                                                                         *)
(* A bitmap is a block of memory at an address, and an image refers to it  *)
(* by its address.  Comparing lists compares addresses, and an address is  *)
(* used again when nothing refers to its block: module Cache has the       *)
(* reference counts, here a block lives while it is reachable.             *)
(*                                                                         *)
(* An event is its layer and its runs; a run is one glyph, a colour and a  *)
(* position, with or without a shadow.  Borders are emitted the way fills  *)
(* are and are left out, and so are karaoke, clips and the outline cache.  *)
(***************************************************************************)
EXTENDS Integers, Sequences, FiniteSets, SequencesExt

CONSTANTS
  Addr,          \* addresses of blocks
  Looks,         \* settings whose setters call ass_reconfigure, as one value
  Scenes,        \* what a frame may be asked to show
  ThreadCounts,  \* requested thread counts
  AutoThreads,   \* what a request of 0 comes to on this machine
  MaxFrames,     \* bound on the number of frames
  NULL

ASSUME FramesAssumption ==
  /\ NULL \notin Addr
  /\ ThreadCounts \subseteq Nat /\ AutoThreads \in Nat \ {0}
  /\ MaxFrames \in Nat

VARIABLES
  settings,         \* look, frame size set?, and the three deferred modes
  fontselect,       \* is there a font selector?
  bitmap_cache,     \* addresses of the items that can be found
  composite_cache,
  mem,              \* the blocks in use
  images_root, prev_images_root,
  frame,            \* the frame being rendered, or NoFrame
  report,           \* history: what the last call and the ones before returned
  pool,             \* the pool and what is built with it
  calls             \* calls of ass_render_frame so far

caches    == <<bitmap_cache, composite_cache>>
lists     == <<images_root, prev_images_root>>
vars == <<settings, fontselect, caches, mem, lists, frame, report, pool, calls>>

Range_(s) == {s[i] : i \in DOMAIN s}

\* A scene is a track and a time: is the track of this library, has it events
\* at all, and which are active.
Event(sc, i) == sc.active[i]
AllEvents == UNION {Range_(sc.active) : sc \in Scenes}
AllRuns   == UNION {Range_(e.runs) : e \in AllEvents}
Glyphs    == {run.glyph : run \in AllRuns}

ASSUME ScenesAssumption ==
  /\ \A sc \in Scenes : sc.active \in Seq(AllEvents)
  /\ \A e \in AllEvents : /\ e.layer \in Int /\ e.ReadOrder \in Int
                          /\ e.runs \in Seq(AllRuns)

\* SelectSeq, of which the prover knows nothing.
Those(s, Test(_)) ==
  FlattenSeq([k \in DOMAIN s |-> IF Test(s[k]) THEN <<s[k]>> ELSE <<>>])

-----------------------------------------------------------------------------
(* Blocks                                                                  *)

BitmapBlock(glyph, set) ==
  [glyph |-> glyph, look |-> set.look, segments |-> set.outline_deferred,
   blurred |-> FALSE, key |-> NULL]

\* ass_composite_construct: the composite of a bitmap, blurred unless that is
\* left to the consumer.
CompositeBlock(b, set, m) ==
  [m[b] EXCEPT !.blurred = ~set.blur_deferred, !.key = b]

Refs(images) == {images[i].src : i \in DOMAIN images}

\* (Mutant: the images of the previous list are let go before it is compared.)
Held_root(root, prev) == Refs(root)

\* Blocks held by the lists of images: an image has a reference to its source.
Held(root, prev) == Refs(root) \cup Refs(prev)

\* Blocks reachable from roots: the key of a composite refers to its bitmap.
Reachable(roots, m) == roots \cup ({m[a].key : a \in roots} \ {NULL})

\* What is left of memory when only roots are referred to.
Kept(roots, m) == [a \in Reachable(roots, m) |-> m[a]]

-----------------------------------------------------------------------------
(* Starting a frame                                                        *)

NoFrame == <<>>
Idle == frame = NoFrame /\ pool.building = NULL

\* ass_start_frame returns false before it has changed anything.
Starts(sc) ==
  /\ settings.sized
  /\ fontselect
  /\ sc.ours
  /\ sc.n_events > 0

\* A frame that does not start: no images, "content has changed".
FailedFrame(sc) ==
  /\ Idle /\ calls < MaxFrames
  /\ calls' = calls + 1
  /\ ~Starts(sc)
  /\ report' = [report EXCEPT !.change = 2, !.before = report.returned,
                              !.returned = <<>>, !.started = FALSE]
  /\ UNCHANGED <<settings, fontselect, caches, mem, lists, frame, pool>>

\* check_cache_limits: the composites, then the bitmaps that are over the limit
\* and that nothing refers to any more are freed.  Which ones, the eviction
\* queues of module Cache decide.
Cut(composites, bitmaps) ==
  /\ composite_cache' = composites
  /\ bitmap_cache' = bitmaps
  /\ mem' = Kept(composites \cup bitmaps
                   \cup Held(images_root', prev_images_root'), mem)

EvictableComposites == composite_cache \ Refs(images_root)
EvictableBitmaps(composites) ==
  bitmap_cache \ Reachable(composites \cup Refs(images_root), mem)

NoImages(sc) == [i \in DOMAIN sc.active |-> <<>>]

\* ass_start_frame, and the head of ass_render_frame: with a pool, the events
\* are tasks; without one they are rendered in order.
StartFrame(sc) ==
  /\ Idle /\ calls < MaxFrames
  /\ calls' = calls + 1
  /\ Starts(sc)
  /\ prev_images_root' = images_root
  /\ images_root' = <<>>
  /\ \E cs \in SUBSET EvictableComposites :
       LET composites == composite_cache \ cs
       IN \E bs \in SUBSET EvictableBitmaps(composites) :
            Cut(composites, bitmap_cache \ bs)
  /\ frame' = [scene |-> sc, got |-> NoImages(sc), out |-> NoImages(sc),
               todo |-> DOMAIN sc.active, run_base |-> 0]
  /\ UNCHANGED <<settings, fontselect, report, pool>>

-----------------------------------------------------------------------------
(* Rendering an event                                                      *)

\* Events that can go on: any with a pool, the first unfinished without.
Running(i) ==
  /\ frame # NoFrame
  /\ i \in frame.todo
  /\ pool.pool \/ \A j \in frame.todo : i <= j

Runs(i) == Event(frame.scene, i).runs
NextRun(i) == Len(frame.got[i]) + 1

BitmapOf(glyph) == {b \in bitmap_cache : mem[b].glyph = glyph}
CompositeOf(b)  == {c \in composite_cache : mem[c].key = b}

\* Runs that are not combined (end of render_and_combine_glyphs).
Deferred(run) ==
  \/ settings.outline_deferred
  \/ settings.composite_deferred /\ ~run.shadow

Free == Addr \ DOMAIN mem
With(a, block) == [x \in DOMAIN mem \cup {a} |-> IF x = a THEN block ELSE mem[x]]

\* get_bitmap_glyph misses: ass_bitmap_construct.
Rasterise(i) ==
  /\ Running(i) /\ NextRun(i) <= Len(Runs(i))
  /\ LET glyph == Runs(i)[NextRun(i)].glyph
     IN /\ BitmapOf(glyph) = {}
        /\ \E a \in Free : /\ mem' = With(a, BitmapBlock(glyph, settings))
                           /\ bitmap_cache' = bitmap_cache \cup {a}
  /\ UNCHANGED <<settings, fontselect, composite_cache, lists, frame, report,
                 pool, calls>>

\* The composite of a run is not in the cache: ass_composite_construct.
Combine(i) ==
  /\ Running(i) /\ NextRun(i) <= Len(Runs(i))
  /\ LET run == Runs(i)[NextRun(i)]
     IN /\ ~Deferred(run)
        /\ \E b \in BitmapOf(run.glyph) :
             /\ CompositeOf(b) = {}
             /\ \E a \in Free :
                  /\ mem' = With(a, CompositeBlock(b, settings, mem))
                  /\ composite_cache' = composite_cache \cup {a}
  /\ UNCHANGED <<settings, fontselect, bitmap_cache, lists, frame, report,
                 pool, calls>>

Take(i, src) == frame' = [frame EXCEPT !.got[i] = Append(@, src)]

\* The source of the next run is found, or there is no memory for it and the
\* run is passed over.
GetSource(i) ==
  /\ Running(i) /\ NextRun(i) <= Len(Runs(i))
  /\ LET run == Runs(i)[NextRun(i)]
     IN \/ \E b \in BitmapOf(run.glyph) :
             IF Deferred(run) THEN Take(i, b)
                              ELSE \E c \in CompositeOf(b) : Take(i, c)
        \/ /\ Free = {}
           /\ \/ BitmapOf(run.glyph) = {}
              \/ /\ ~Deferred(run)
                 /\ \A b \in BitmapOf(run.glyph) : CompositeOf(b) = {}
           /\ Take(i, NULL)
  /\ UNCHANGED <<settings, fontselect, caches, mem, lists, report, pool, calls>>

\* (Mutant: only fills have ids reserved.)
Reserved_fills(n) == n

\* How many run ids an event takes: fills, shadows, and its clip.
Reserved(n) == 2 * n + 1

\* my_draw_bitmap, my_draw_glyph.
ImageOf(i, r, layer, run_id) ==
  [src |-> frame.got[i][r], type |-> layer, run_id |-> run_id, of |-> <<i, r>>,
   color |-> Runs(i)[r].color, dst_x |-> Runs(i)[r].x,
   transparent |-> layer = "fill" /\ Runs(i)[r].transparent]

\* render_text: the shadows of all runs, then their fills.  Only runs that are
\* deferred have an id.
Images(i) ==
  LET n == Len(Runs(i))
      Id(r, k) == IF Deferred(Runs(i)[r]) THEN frame.run_base + k + r ELSE 0
      drawn == Those([r \in 1 .. n |-> r], LAMBDA r : frame.got[i][r] # NULL)
      shadows == Those(drawn, LAMBDA r : Runs(i)[r].shadow)
  IN [k \in DOMAIN shadows |-> ImageOf(i, shadows[k], "shadow", Id(shadows[k], n))]
     \o [k \in DOMAIN drawn |-> ImageOf(i, drawn[k], "fill", Id(drawn[k], 0))]

\* The end of ass_render_event.
RenderText(i) ==
  /\ Running(i) /\ NextRun(i) > Len(Runs(i))
  /\ frame' = [frame EXCEPT !.out[i] = Images(i),
                            !.todo = @ \ {i},
                            !.run_base = @ + Reserved(Len(Runs(i)))]
  /\ UNCHANGED <<settings, fontselect, caches, mem, lists, report, pool, calls>>

-----------------------------------------------------------------------------
(* Ending a frame                                                          *)

\* cmp_event_layer
Before(sc, i, j) ==
  LET a == Event(sc, i)
      b == Event(sc, j)
  IN a.layer < b.layer \/ (a.layer = b.layer /\ a.ReadOrder < b.ReadOrder)

\* The events sorted.
Sorted(sc) ==
  CHOOSE order \in Bijection(DOMAIN sc.active, DOMAIN sc.active) :
    \A k, l \in DOMAIN sc.active : k < l => ~Before(sc, order[l], order[k])

\* The lists of the events, in the order of their layers, as one list without
\* transparent images; those are kept for a consumer that composites.
Concatenated(sc, out) ==
  Those(FlattenSeq([k \in DOMAIN sc.active |-> out[Sorted(sc)[k]]]),
        LAMBDA img : settings.composite_deferred \/ ~img.transparent)

\* ass_image_compare.  The bitmap of an image is the part of its source that
\* its type says, or a deferred run's flags tell shadows from fills.
Compare(a, b) ==
  IF \/ <<a.src, a.type>> # <<b.src, b.type>>
     \/ <<a.color, a.transparent>> # <<b.color, b.transparent>> THEN 2
  ELSE IF a.dst_x # b.dst_x THEN 1 ELSE 0

\* ass_detect_change
DetectChange(prev, root) ==
  IF DOMAIN prev # DOMAIN root THEN 2
  ELSE CHOOSE d \in 0 .. 2 :
         /\ \A k \in DOMAIN prev : Compare(prev[k], root[k]) <= d
         /\ d = 0 \/ \E k \in DOMAIN prev : Compare(prev[k], root[k]) = d

\* A block as it looks: a composite does not show what it is made of.
Look(block) == [block EXCEPT !.key = NULL]

\* What a consumer sees of an image, and of a list of them.
Seen(img, block) ==
  [block |-> Look(block), combined |-> block.key # NULL, type |-> img.type,
   color |-> img.color, transparent |-> img.transparent, dst_x |-> img.dst_x]
Shown(images, m) == [k \in DOMAIN images |-> Seen(images[k], m[images[k].src])]

\* The end of ass_render_frame, when all events are rendered.
Finish(images) ==
  LET shown == Shown(images, mem)
  IN /\ images_root' = images
     /\ report' = [change |-> DetectChange(prev_images_root, images),
                   was |-> report.is, is |-> shown,
                   before |-> report.returned, returned |-> shown,
                   started |-> TRUE]
     /\ prev_images_root' = <<>>
     /\ mem' = Kept(bitmap_cache \cup composite_cache \cup Refs(images), mem)
     /\ frame' = NoFrame

EndFrame ==
  /\ frame # NoFrame /\ frame.todo = {}
  /\ Finish(Concatenated(frame.scene, frame.out))
  /\ UNCHANGED <<settings, fontselect, caches, pool, calls>>

-----------------------------------------------------------------------------
(* Settings                                                                *)

\* (Mutant: items are freed that images refer to.)
Emptied_hard(bitmaps, composites) ==
  /\ bitmap_cache' = bitmaps
  /\ composite_cache' = composites
  /\ mem' = Kept(bitmaps \cup composites, mem)

\* ass_cache_empty of the caches other than those that are left.
Emptied(bitmaps, composites) ==
  /\ bitmap_cache' = bitmaps
  /\ composite_cache' = composites
  /\ mem' = Kept(bitmaps \cup composites \cup Refs(images_root), mem)

\* ass_set_frame_size, ass_set_margins, ass_set_hinting and so on, which call
\* ass_reconfigure.
Reconfigure ==
  /\ Idle
  /\ \E look \in Looks, sized \in BOOLEAN :
       LET new == [settings EXCEPT !.look = look, !.sized = sized]
       IN new # settings /\ settings' = new
  /\ Emptied({}, {})
  /\ UNCHANGED <<fontselect, lists, frame, report, pool, calls>>

\* ass_set_fonts, whose fontselect may fail to come to be.
SetFonts ==
  /\ Idle
  /\ fontselect' \in BOOLEAN
  /\ Emptied({}, {})
  /\ UNCHANGED <<settings, lists, frame, report, pool, calls>>

\* (Mutant: composites made in the other mode stay.)
SetBlurDeferred_lazily ==
  /\ Idle
  /\ settings' = [settings EXCEPT !.blur_deferred = ~@]
  /\ UNCHANGED <<caches, mem, fontselect, lists, frame, report, pool, calls>>

SetBlurDeferred ==
  /\ Idle
  /\ settings' = [settings EXCEPT !.blur_deferred = ~@]
  /\ Emptied(bitmap_cache, {})
  /\ UNCHANGED <<fontselect, lists, frame, report, pool, calls>>

SetCompositeDeferred ==
  /\ Idle
  /\ settings' = [settings EXCEPT !.composite_deferred = ~@]
  /\ Emptied(bitmap_cache, {})
  /\ UNCHANGED <<fontselect, lists, frame, report, pool, calls>>

\* The composites stay: their keys have references to the old bitmaps, so that
\* none of them can be found by a new one.
SetOutlineDeferred ==
  /\ Idle
  /\ settings' = [settings EXCEPT !.outline_deferred = ~@]
  /\ Emptied({}, composite_cache)
  /\ UNCHANGED <<fontselect, lists, frame, report, pool, calls>>

-----------------------------------------------------------------------------
(* The pool and the render contexts                                        *)

NoPool == [requested |-> 1, pool |-> FALSE, n_threads |-> 0, worker_ctx |-> {},
           raster_pool |-> FALSE, alive |-> 0, building |-> NULL]

\* destroy_render_pool: contexts are looked for among the first n_threads.
Destroyed(p) ==
  [p EXCEPT !.pool = FALSE, !.n_threads = 0, !.raster_pool = FALSE,
            !.worker_ctx = {}, !.building = NULL,
            !.alive = @ - Cardinality({i \in p.worker_ctx : i < p.n_threads})]

Wanted(requested) == IF requested = 0 THEN AutoThreads ELSE requested

PoolStep(p) ==
  /\ pool' = p
  /\ UNCHANGED <<settings, fontselect, caches, mem, lists, frame, report, calls>>

\* ass_set_render_thread_count, up to where ass_renderer_update_pool starts to
\* build contexts, or finds that there is nothing to build.
SetThreadCount(requested) ==
  /\ Idle
  /\ requested # pool.requested
  /\ LET n == Wanted(requested)
         p == [pool EXCEPT !.requested = requested]
         same == IF n <= 1 THEN ~p.pool ELSE p.pool /\ p.n_threads = n
     IN \E allocated \in BOOLEAN :
          PoolStep(IF same THEN p
                   ELSE IF n <= 1 \/ ~allocated THEN Destroyed(p)
                   ELSE [Destroyed(p) EXCEPT !.building = n])

Built == Cardinality(pool.worker_ctx)

\* One more context.
BuildContext ==
  /\ pool.building # NULL /\ Built < pool.building
  /\ PoolStep([pool EXCEPT !.worker_ctx = @ \cup {Built}, !.alive = @ + 1])

\* (Mutant: the number built is noted only when all are.)
AbandonContexts_uncounted ==
  /\ pool.building # NULL /\ Built < pool.building
  /\ PoolStep(Destroyed(pool))

\* A context cannot be had: those that were built are dropped.
AbandonContexts ==
  /\ pool.building # NULL /\ Built < pool.building
  /\ PoolStep(Destroyed([pool EXCEPT !.n_threads = Built]))

\* All contexts are there: the rasterisers, then the pool, either of which may
\* fail.
CreatePool ==
  /\ pool.building # NULL /\ Built = pool.building
  /\ LET p == [pool EXCEPT !.n_threads = Built]
     IN \E ok \in BOOLEAN :
          PoolStep(IF ok THEN [p EXCEPT !.raster_pool = TRUE, !.pool = TRUE,
                                        !.building = NULL]
                         ELSE Destroyed(p))

-----------------------------------------------------------------------------
Init ==
  /\ settings \in [look : Looks, sized : {FALSE}, blur_deferred : {FALSE},
                    composite_deferred : {FALSE}, outline_deferred : {FALSE}]
  /\ fontselect = FALSE
  /\ bitmap_cache = {} /\ composite_cache = {}
  /\ mem = [a \in {} |-> NULL]
  /\ images_root = <<>> /\ prev_images_root = <<>>
  /\ frame = NoFrame
  /\ report = [change |-> 2, was |-> <<>>, is |-> <<>>, before |-> <<>>,
               returned |-> <<>>, started |-> FALSE]
  /\ pool = NoPool
  /\ calls = 0

Next ==
  \/ \E sc \in Scenes : FailedFrame(sc) \/ StartFrame(sc)
  \/ frame # NoFrame /\ \E i \in frame.todo :
       Rasterise(i) \/ Combine(i) \/ GetSource(i) \/ RenderText(i)
  \/ EndFrame
  \/ Reconfigure \/ SetFonts
  \/ SetBlurDeferred \/ SetCompositeDeferred \/ SetOutlineDeferred
  \/ \E n \in ThreadCounts : SetThreadCount(n)
  \/ BuildContext \/ AbandonContexts \/ CreatePool

-----------------------------------------------------------------------------
(* Properties                                                              *)

Block == [glyph : Glyphs, look : Looks, segments : BOOLEAN, blurred : BOOLEAN,
          key : Addr \cup {NULL}]

\* Blocks that anything refers to.
Roots ==
  bitmap_cache \cup composite_cache \cup Held(images_root, prev_images_root)

\* Memory holds the blocks that are referred to, and no others; what is looked
\* at by ass_start_frame and render_text has its type.
TypeOK ==
  /\ settings \in [look : Looks, sized : BOOLEAN, blur_deferred : BOOLEAN,
                   composite_deferred : BOOLEAN, outline_deferred : BOOLEAN]
  /\ fontselect \in BOOLEAN
  /\ Roots \subseteq DOMAIN mem /\ DOMAIN mem = Reachable(Roots, mem)
  /\ \A a \in DOMAIN mem : mem[a] \in Block
  /\ frame # NoFrame => frame.todo \subseteq DOMAIN frame.scene.active
  /\ report.change \in 0 .. 2
  /\ pool.worker_ctx \subseteq Nat /\ pool.n_threads \in Nat /\ pool.alive \in Nat
  /\ calls \in 0 .. MaxFrames

SamePlaces(list) == [k \in DOMAIN list |-> [list[k] EXCEPT !.dst_x = 0]]

\* ass_detect_change never says less than the truth: 0 when a consumer sees
\* what it saw of the last frame that was rendered, 1 when at most positions
\* differ.  Comparing addresses is enough because the list before is let go
\* only after that.
ChangeSound ==
  report.started =>
    /\ report.change = 0 => report.was = report.is
    /\ report.change <= 1 => SamePlaces(report.was) = SamePlaces(report.is)

\* What is drawn is made from the run's glyph under the settings in force,
\* whatever the caches held from before: the setters drop all that the keys of
\* the caches do not tell apart.
NothingStale ==
  frame # NoFrame =>
    \A i \in DOMAIN frame.got : \A r \in DOMAIN frame.got[i] :
      frame.got[i][r] # NULL =>
        LET block == mem[frame.got[i][r]]
            run   == Runs(i)[r]
        IN /\ block.glyph = run.glyph
           /\ block.look = settings.look
           /\ block.segments = settings.outline_deferred
           /\ (block.key = NULL) = Deferred(run)
           /\ block.key # NULL => block.blurred = ~settings.blur_deferred

\* render_text: runs of a frame have different ids, however its events are
\* interleaved; a consumer combines what has one id.
RunIdsUnique ==
  \A j, k \in DOMAIN images_root :
    LET a == images_root[j]
        b == images_root[k]
    IN a.run_id = b.run_id /\ a.run_id # 0 => <<a.of, a.type>> = <<b.of, b.type>>

\* ass_renderer_update_pool: the pool is there with a context and a rasteriser
\* for each of its threads, or there is nothing of it; no context is lost.
PoolWhole ==
  pool.building = NULL =>
    /\ pool.worker_ctx = (IF pool.pool THEN 0 .. pool.n_threads - 1 ELSE {})
    /\ pool.raster_pool = pool.pool
    /\ pool.alive = Cardinality(pool.worker_ctx)

\* ass.h on ass_render_frame: detect_change compares to the previous call.
\* Not so after a frame that did not start: the next one is compared with the
\* one before it.
ChangeSinceLastCall == report.change = 0 => report.before = report.returned

Spec == Init /\ [][Next]_vars
==============================================================================
