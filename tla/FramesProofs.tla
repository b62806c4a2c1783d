----------------------------- MODULE FramesProofs -----------------------------
(***************************************************************************)
(* Three theorems of Frames: the pool and its contexts are there as a      *)
(* whole or not at all; nothing is drawn from what was made under other    *)
(* settings; and a change between frames is never reported as less than it *)
(* is.                                                                     *)
(***************************************************************************)
EXTENDS Frames, FiniteSetTheorems, FunctionTheorems, WellFoundedInduction, TLAPS

-----------------------------------------------------------------------------
(* The pool                                                                *)

\* The pool as a record.
PoolType ==
  [requested : Nat, pool : BOOLEAN, n_threads : Nat, worker_ctx : SUBSET Nat,
   raster_pool : BOOLEAN, alive : Nat, building : Nat \cup {NULL}]

\* The first k contexts of p are there and no others; while they are being
\* built there is no pool, and else they are as many as it has threads.
Contexts(p, k) ==
  /\ p.worker_ctx = 0 .. k - 1 /\ p.alive = k
  /\ p.building = NULL =>
       /\ p.raster_pool = p.pool
       /\ p.n_threads = k /\ (~p.pool => k = 0)
  /\ p.building # NULL => ~p.pool /\ ~p.raster_pool /\ k <= p.building

\* The inductive invariant of the pool.
BooksOf(p) == p \in PoolType /\ \E k \in Nat : Contexts(p, k)
PoolBooks == BooksOf(pool)

\* There are as many contexts as the invariant says.
LEMMA ContextsCounted ==
  ASSUME NEW k \in Nat
  PROVE  Cardinality(0 .. k - 1) = k
<1>1. k - 1 \in Int OBVIOUS
<1>2. Cardinality(0 .. k - 1) = IF 0 > k - 1 THEN 0 ELSE (k - 1) - 0 + 1
  BY <1>1, FS_Interval
<1> QED BY <1>2

\* Destroying the pool drops as many contexts as there are, provided it knows
\* their number: what is left is a pool with none.
LEMMA AllDestroyed ==
  ASSUME NEW p \in PoolType, NEW k \in Nat,
         p.worker_ctx = 0 .. k - 1, p.alive = k, p.n_threads = k
  PROVE  /\ Destroyed(p) \in PoolType
         /\ Contexts(Destroyed(p), 0)
         /\ Destroyed(p).pool = FALSE /\ Destroyed(p).raster_pool = FALSE
         /\ Destroyed(p).worker_ctx = {} /\ Destroyed(p).alive = 0
<1> DEFINE d == Destroyed(p)
<1>1. {i \in p.worker_ctx : i < p.n_threads} = 0 .. k - 1 OBVIOUS
<1>2. Cardinality({i \in p.worker_ctx : i < p.n_threads}) = k
  BY <1>1, ContextsCounted
<1>3. d.alive = p.alive - Cardinality({i \in p.worker_ctx : i < p.n_threads})
  BY DEF PoolType, Destroyed
<1>4. /\ d.worker_ctx = {} /\ d.n_threads = 0 /\ d.building = NULL
      /\ d.pool = FALSE /\ d.raster_pool = FALSE
  BY DEF PoolType, Destroyed
<1>5. d.alive = 0 BY <1>2, <1>3
<1>6. d \in PoolType
  <2>1. p.alive - Cardinality({i \in p.worker_ctx : i < p.n_threads}) = 0
    BY <1>2
  <2>2. d = [p EXCEPT !.pool = FALSE, !.n_threads = 0, !.raster_pool = FALSE,
                      !.worker_ctx = {}, !.building = NULL, !.alive = 0]
    BY <2>1 DEF Destroyed, PoolType
  <2>3. d = [requested |-> p.requested, pool |-> FALSE, n_threads |-> 0,
             worker_ctx |-> {}, raster_pool |-> FALSE, alive |-> 0,
             building |-> NULL]
    BY <2>2 DEF PoolType
  <2> HIDE DEF d
  <2>4. p.requested \in Nat BY DEF PoolType
  <2> QED BY <2>3, <2>4 DEF PoolType
<1>7. 0 .. 0 - 1 = {} OBVIOUS
<1> HIDE DEF d
<1>8. Contexts(d, 0) BY <1>4, <1>5, <1>7 DEF Contexts
<1> QED BY <1>4, <1>5, <1>6, <1>8 DEF d

\* A pool that was destroyed is whole: there is nothing of it.
LEMMA DestroyedWhole ==
  ASSUME NEW p \in PoolType, NEW k \in Nat,
         p.worker_ctx = 0 .. k - 1, p.alive = k, p.n_threads = k
  PROVE  BooksOf(Destroyed(p))
BY AllDestroyed DEF BooksOf

\* SetThreadCount keeps the books: the old pool is let go before another one
\* is begun.
LEMMA BooksSetThreadCount ==
  ASSUME PoolBooks, NEW n \in ThreadCounts, SetThreadCount(n)
  PROVE  PoolBooks'
<1> DEFINE p == [pool EXCEPT !.requested = n]
           same == IF Wanted(n) <= 1 THEN ~p.pool
                                     ELSE p.pool /\ p.n_threads = Wanted(n)
<1>1. PICK k \in Nat : Contexts(pool, k) BY DEF PoolBooks, BooksOf
<1>2. pool \in PoolType BY DEF PoolBooks, BooksOf
<1>3. n \in Nat /\ Wanted(n) \in Nat
  BY FramesAssumption DEF Wanted
<1>4. /\ p \in PoolType /\ Contexts(p, k) /\ p.building = NULL
      /\ p.worker_ctx = 0 .. k - 1 /\ p.alive = k /\ p.n_threads = k
  BY <1>1, <1>2, <1>3 DEF PoolType, Contexts, SetThreadCount, Idle
<1>5. PICK allocated \in BOOLEAN :
        pool' = IF same THEN p
                ELSE IF Wanted(n) <= 1 \/ ~allocated THEN Destroyed(p)
                ELSE [Destroyed(p) EXCEPT !.building = Wanted(n)]
  BY DEF SetThreadCount, PoolStep
<1> HIDE DEF p, same
<1>6. CASE pool' = p BY <1>4, <1>6 DEF PoolBooks, BooksOf
<1>7. CASE pool' = Destroyed(p)
  BY <1>4, <1>7, DestroyedWhole DEF PoolBooks
<1>8. CASE pool' = [Destroyed(p) EXCEPT !.building = Wanted(n)]
  <2> DEFINE d == Destroyed(p)
  <2>1. d \in PoolType /\ Contexts(d, 0) /\ d.pool = FALSE /\ d.raster_pool = FALSE
    BY <1>4, AllDestroyed
  <2>2. d.worker_ctx = 0 .. 0 - 1 /\ d.alive = 0 /\ d.n_threads = 0
    BY <1>4, AllDestroyed DEF Contexts, Destroyed, PoolType
  <2> HIDE DEF d
  <2>3. pool' = [d EXCEPT !.building = Wanted(n)] BY <1>8 DEF d
  <2>4. pool' \in PoolType BY <1>3, <2>1, <2>3 DEF PoolType
  <2>5. /\ pool'.worker_ctx = 0 .. 0 - 1 /\ pool'.alive = 0
        /\ pool'.n_threads = 0 /\ pool'.building = Wanted(n)
        /\ pool'.pool = FALSE /\ pool'.raster_pool = FALSE
    BY <2>1, <2>2, <2>3 DEF PoolType
  <2>6. 0 <= Wanted(n) BY <1>3
  <2>7. Contexts(pool', 0) BY <2>5, <2>6 DEF Contexts
  <2> QED BY <2>4, <2>7 DEF PoolBooks, BooksOf
<1> QED BY <1>5, <1>6, <1>7, <1>8

\* What is known when contexts are being built.
LEMMA WhileBuilding ==
  ASSUME PoolBooks, pool.building # NULL
  PROVE  /\ pool \in PoolType /\ pool.building \in Nat /\ Built \in Nat
         /\ Contexts(pool, Built) /\ pool.worker_ctx = 0 .. Built - 1
         /\ pool.alive = Built /\ ~pool.pool /\ ~pool.raster_pool
<1>1. PICK k \in Nat : Contexts(pool, k) BY DEF PoolBooks, BooksOf
<1>2. Built = k BY <1>1, ContextsCounted DEF Contexts, Built
<1> QED BY <1>1, <1>2 DEF PoolBooks, BooksOf, PoolType, Contexts

\* One more context is one more in the books.
LEMMA BooksBuildContext ==
  ASSUME PoolBooks, BuildContext
  PROVE  PoolBooks'
<1> DEFINE b == Built
<1>1. /\ pool \in PoolType /\ pool.building \in Nat /\ b \in Nat
      /\ pool.worker_ctx = 0 .. b - 1 /\ pool.alive = b
      /\ ~pool.pool /\ ~pool.raster_pool
  BY WhileBuilding DEF BuildContext
<1>2. /\ b < pool.building /\ pool.building # NULL
      /\ pool' = [pool EXCEPT !.worker_ctx = @ \cup {b}, !.alive = @ + 1]
  BY DEF BuildContext, PoolStep
<1> HIDE DEF b
<1>3. pool' \in PoolType
  <2>1. pool.worker_ctx \cup {b} \in SUBSET Nat /\ pool.alive + 1 \in Nat
    BY <1>1 DEF PoolType
  <2> QED BY <1>1, <1>2, <2>1 DEF PoolType
<1>4. (0 .. b - 1) \cup {b} = 0 .. (b + 1) - 1 BY <1>1
<1>5. /\ pool'.worker_ctx = 0 .. (b + 1) - 1 /\ pool'.alive = b + 1
      /\ ~pool'.pool /\ ~pool'.raster_pool /\ pool'.building = pool.building
  BY <1>1, <1>2, <1>4 DEF PoolType
<1>6. Contexts(pool', b + 1) BY <1>1, <1>2, <1>5 DEF Contexts
<1>7. b + 1 \in Nat BY <1>1
<1> QED BY <1>3, <1>6, <1>7 DEF PoolBooks, BooksOf

\* Contexts that are dropped halfway were counted before.
LEMMA BooksAbandonContexts ==
  ASSUME PoolBooks, AbandonContexts
  PROVE  PoolBooks'
<1> DEFINE p == [pool EXCEPT !.n_threads = Built]
<1>1. /\ p \in PoolType /\ Built \in Nat /\ p.n_threads = Built
      /\ p.worker_ctx = 0 .. Built - 1 /\ p.alive = Built
  BY WhileBuilding DEF AbandonContexts, PoolType
<1>2. pool' = Destroyed(p) BY DEF AbandonContexts, PoolStep
<1> HIDE DEF p
<1> QED BY <1>1, <1>2, DestroyedWhole DEF PoolBooks

\* The pool comes last, and without it all goes.
LEMMA BooksCreatePool ==
  ASSUME PoolBooks, CreatePool
  PROVE  PoolBooks'
<1> DEFINE p == [pool EXCEPT !.n_threads = Built]
<1>1. /\ p \in PoolType /\ Built \in Nat /\ p.n_threads = Built
      /\ p.worker_ctx = 0 .. Built - 1 /\ p.alive = Built
  BY WhileBuilding DEF CreatePool, PoolType
<1>2. \/ pool' = [p EXCEPT !.raster_pool = TRUE, !.pool = TRUE, !.building = NULL]
      \/ pool' = Destroyed(p)
  BY DEF CreatePool, PoolStep
<1> DEFINE b == Built
<1> HIDE DEF p, b
<1>3. CASE pool' = Destroyed(p) BY <1>1, <1>3, DestroyedWhole DEF PoolBooks
<1>4. CASE pool' = [p EXCEPT !.raster_pool = TRUE, !.pool = TRUE, !.building = NULL]
  <2>1. /\ pool' \in PoolType /\ pool'.building = NULL
        /\ pool'.worker_ctx = 0 .. Built - 1 /\ pool'.alive = Built
        /\ pool'.n_threads = Built /\ pool'.pool = TRUE /\ pool'.raster_pool = TRUE
    BY <1>1, <1>4 DEF PoolType
  <2>2. Contexts(pool', Built) BY <2>1 DEF Contexts
  <2> QED BY <1>1, <2>1, <2>2 DEF PoolBooks, BooksOf
<1> QED BY <1>2, <1>3, <1>4

\* No other step touches the pool.
LEMMA BooksNext ==
  ASSUME PoolBooks, [Next]_vars
  PROVE  PoolBooks'
<1>1. CASE \E n \in ThreadCounts : SetThreadCount(n)
  BY <1>1, BooksSetThreadCount
<1>2. CASE BuildContext BY <1>2, BooksBuildContext
<1>3. CASE AbandonContexts BY <1>3, BooksAbandonContexts
<1>4. CASE CreatePool BY <1>4, BooksCreatePool
<1>5. CASE UNCHANGED pool BY <1>5 DEF PoolBooks
<1>6. ASSUME NEW sc \in Scenes, FailedFrame(sc) \/ StartFrame(sc)
      PROVE  UNCHANGED pool
  BY <1>6 DEF FailedFrame, StartFrame
<1>7. ASSUME NEW i, Rasterise(i) \/ Combine(i) \/ GetSource(i) \/ RenderText(i)
      PROVE  UNCHANGED pool
  BY <1>7 DEF Rasterise, Combine, GetSource, RenderText
<1>8. CASE EndFrame BY <1>5, <1>8 DEF EndFrame
<1>9. CASE \/ Reconfigure \/ SetFonts \/ SetBlurDeferred
           \/ SetCompositeDeferred \/ SetOutlineDeferred
  BY <1>5, <1>9 DEF Reconfigure, SetFonts, SetBlurDeferred,
                    SetCompositeDeferred, SetOutlineDeferred
<1>10. CASE UNCHANGED vars BY <1>5, <1>10 DEF vars
<1> QED BY <1>1, <1>2, <1>3, <1>4, <1>5, <1>6, <1>7, <1>8, <1>9, <1>10 DEF Next

\* A renderer starts without a pool.
LEMMA BooksInit == ASSUME Init PROVE PoolBooks
<1>1. pool = [requested |-> 1, pool |-> FALSE, n_threads |-> 0, worker_ctx |-> {},
              raster_pool |-> FALSE, alive |-> 0, building |-> NULL]
  BY DEF Init, NoPool
<1>2. pool \in PoolType BY <1>1 DEF PoolType
<1>3. 0 .. 0 - 1 = {} OBVIOUS
<1>4. Contexts(pool, 0) BY <1>1, <1>3 DEF Contexts
<1> QED BY <1>2, <1>4 DEF PoolBooks, BooksOf

\* ass_renderer_update_pool, whatever fails in it and however often it is
\* called: the pool is there with a context and a rasteriser for each thread,
\* or there is nothing of it.
THEOREM PoolIsWhole == Spec => []PoolWhole
<1>1. ASSUME PoolBooks PROVE PoolWhole
  <2>1. PICK k \in Nat : Contexts(pool, k) BY <1>1 DEF PoolBooks, BooksOf
  <2>2. Cardinality(0 .. k - 1) = k BY ContextsCounted
  <2>3. ~pool.pool /\ pool.building = NULL => 0 .. k - 1 = {}
    BY <2>1 DEF Contexts
  <2>4. pool.pool \in BOOLEAN BY <1>1 DEF PoolBooks, BooksOf, PoolType
  <2> QED BY <2>1, <2>2, <2>3, <2>4 DEF PoolWhole, Contexts
<1> QED BY <1>1, BooksInit, BooksNext, PTL DEF Spec

-----------------------------------------------------------------------------
(* The caches and what is drawn                                            *)

\* The settings as a record.
SettingsType ==
  [look : Looks, sized : BOOLEAN, blur_deferred : BOOLEAN,
   composite_deferred : BOOLEAN, outline_deferred : BOOLEAN]

\* What can be found among bs and cs was made under set: the setters keep this
\* true by what they empty, and a composite carries on its key's account.
Fresh(bs, cs, m, set) ==
  /\ bs \subseteq Addr /\ bs \cup cs \subseteq DOMAIN m
  /\ \A b \in bs : m[b] = BitmapBlock(m[b].glyph, set)
  /\ \A c \in cs :
       /\ m[c].key # NULL /\ m[c].key \in DOMAIN m
       /\ m[c].glyph = m[m[c].key].glyph
       /\ m[c].look = m[m[c].key].look
       /\ m[c].segments = m[m[c].key].segments
       /\ m[c].blurred = ~set.blur_deferred

\* A source fits a run when it is what rendering the run now would make.
Fits(src, run) ==
  /\ src \in DOMAIN mem
  /\ mem[src].glyph = run.glyph
  /\ mem[src].look = settings.look
  /\ mem[src].segments = settings.outline_deferred
  /\ (mem[src].key = NULL) = Deferred(run)
  /\ mem[src].key # NULL => mem[src].blurred = ~settings.blur_deferred

\* The sources that were taken so far fit the runs they were taken for.
FrameFits ==
  frame # NoFrame =>
    /\ frame = [scene |-> frame.scene, got |-> frame.got, out |-> frame.out,
                todo |-> frame.todo, run_base |-> frame.run_base]
    /\ frame.todo \subseteq DOMAIN frame.scene.active
    /\ frame.got \in [DOMAIN frame.scene.active -> Seq(Addr \cup {NULL})]
    /\ \A i \in DOMAIN frame.got : \A r \in DOMAIN frame.got[i] :
         frame.got[i][r] # NULL => Fits(frame.got[i][r], Runs(i)[r])

\* The inductive invariant of what is drawn.
DrawnRight ==
  /\ settings \in SettingsType
  /\ Fresh(bitmap_cache, composite_cache, mem, settings)
  /\ composite_cache \subseteq Addr
  /\ FrameFits

\* What is left of the caches, with what it refers to, is as fresh as it was.
LEMMA KeptFresh ==
  ASSUME NEW bs, NEW cs, NEW m, NEW set, Fresh(bs, cs, m, set),
         NEW bs2 \in SUBSET bs, NEW cs2 \in SUBSET cs, NEW roots,
         bs2 \cup cs2 \subseteq roots
  PROVE  Fresh(bs2, cs2, Kept(roots, m), set)
<1> DEFINE k == Kept(roots, m)
<1>1. \A a \in Reachable(roots, m) : k[a] = m[a] BY DEF Kept
<1>2. DOMAIN k = Reachable(roots, m) BY DEF Kept
<1>3. roots \subseteq Reachable(roots, m) BY DEF Reachable
<1>4. \A c \in cs2 : m[c].key # NULL /\ m[c].key \in Reachable(roots, m)
  BY DEF Reachable, Fresh
<1> HIDE DEF k
<1>5. ASSUME NEW c \in cs2
      PROVE  /\ k[c] = m[c] /\ k[m[c].key] = m[m[c].key]
             /\ m[c].key \in DOMAIN k
  BY <1>1, <1>2, <1>3, <1>4
<1>6. ASSUME NEW b \in bs2 PROVE k[b] = m[b] /\ b \in DOMAIN k
  BY <1>1, <1>2, <1>3
<1>7. bs2 \subseteq Addr /\ bs2 \cup cs2 \subseteq DOMAIN k
  BY <1>2, <1>3 DEF Fresh
<1>8. \A b \in bs2 : k[b] = BitmapBlock(k[b].glyph, set) BY <1>6 DEF Fresh
<1>9. ASSUME NEW c \in cs2
      PROVE  /\ k[c].key # NULL /\ k[c].key \in DOMAIN k
             /\ k[c].glyph = k[k[c].key].glyph
             /\ k[c].look = k[k[c].key].look
             /\ k[c].segments = k[k[c].key].segments
             /\ k[c].blurred = ~set.blur_deferred
  BY <1>4, <1>5 DEF Fresh
<1> QED BY <1>7, <1>8, <1>9 DEF Fresh, k

\* A frame goes on as it was when what it refers to does.
LEMMA FrameGoesOn ==
  ASSUME FrameFits, UNCHANGED <<settings, frame>>,
         \A a \in DOMAIN mem : a \in DOMAIN mem' /\ mem'[a] = mem[a]
  PROVE  FrameFits'
<1>1. ASSUME NEW src, NEW run, Fits(src, run) PROVE Fits(src, run)'
  BY <1>1 DEF Fits, Deferred
<1> QED BY <1>1 DEF FrameFits, Runs, Event

\* Between frames nothing is being drawn.
LEMMA IdleFits == ASSUME Idle, UNCHANGED frame PROVE FrameFits'
BY DEF Idle, FrameFits

\* A frame starts with nothing drawn, from caches that were cut.
LEMMA DrawnStartFrame ==
  ASSUME DrawnRight, NEW sc \in Scenes, StartFrame(sc)
  PROVE  DrawnRight'
<1>1. PICK cs \in SUBSET EvictableComposites :
        \E bs \in SUBSET EvictableBitmaps(composite_cache \ cs) :
          Cut(composite_cache \ cs, bitmap_cache \ bs)
  BY DEF StartFrame
<1>2. PICK bs \in SUBSET EvictableBitmaps(composite_cache \ cs) :
        Cut(composite_cache \ cs, bitmap_cache \ bs)
  BY <1>1
<1>3. Fresh(bitmap_cache, composite_cache, mem, settings)'
  BY <1>2, KeptFresh DEF Cut, DrawnRight, StartFrame
<1>4. composite_cache' \subseteq Addr BY <1>2 DEF Cut, DrawnRight
<1>5. FrameFits'
  <2>1. frame' = [scene |-> sc, got |-> NoImages(sc), out |-> NoImages(sc),
                  todo |-> DOMAIN sc.active, run_base |-> 0]
    BY DEF StartFrame
  <2>2. NoImages(sc) \in [DOMAIN sc.active -> Seq(Addr \cup {NULL})]
    BY DEF NoImages
  <2>3. \A i \in DOMAIN NoImages(sc) : DOMAIN NoImages(sc)[i] = {}
    BY DEF NoImages
  <2> QED BY <2>1, <2>2, <2>3 DEF FrameFits
<1> QED BY <1>3, <1>4, <1>5 DEF DrawnRight, StartFrame

\* A new block is at an address of its own.
LEMMA WithNew ==
  ASSUME NEW a \in Free, NEW block
  PROVE  /\ DOMAIN With(a, block) = DOMAIN mem \cup {a}
         /\ With(a, block)[a] = block /\ a \in Addr
         /\ \A x \in DOMAIN mem : x # a /\ With(a, block)[x] = mem[x]
BY DEF Free, With

\* A bitmap is made under the settings in force.
LEMMA DrawnRasterise ==
  ASSUME DrawnRight, NEW i, Rasterise(i)
  PROVE  DrawnRight'
<1> DEFINE glyph == Runs(i)[NextRun(i)].glyph
           block == BitmapBlock(glyph, settings)
<1>1. PICK a \in Free : /\ mem' = With(a, block)
                        /\ bitmap_cache' = bitmap_cache \cup {a}
  BY DEF Rasterise
<1>2. UNCHANGED <<settings, composite_cache, frame>> BY DEF Rasterise
<1>3. block = BitmapBlock(block.glyph, settings) BY DEF BitmapBlock
<1> HIDE DEF block, glyph
<1>4. /\ DOMAIN mem' = DOMAIN mem \cup {a} /\ mem'[a] = block /\ a \in Addr
      /\ \A x \in DOMAIN mem : x # a /\ mem'[x] = mem[x]
  BY <1>1, WithNew
<1>5. Fresh(bitmap_cache, composite_cache, mem, settings)'
  <2> USE DEF DrawnRight, Fresh
  <2>1. \A b \in bitmap_cache' : mem'[b] = BitmapBlock(mem'[b].glyph, settings)
    BY <1>1, <1>3, <1>4
  <2>2. ASSUME NEW c \in composite_cache
        PROVE  /\ mem'[c] = mem[c] /\ mem[c].key \in DOMAIN mem'
               /\ mem'[mem[c].key] = mem[mem[c].key]
    BY <1>4
  <2>3. \A c \in composite_cache :
          /\ mem'[c].key # NULL /\ mem'[c].key \in DOMAIN mem'
          /\ mem'[c].glyph = mem'[mem'[c].key].glyph
          /\ mem'[c].look = mem'[mem'[c].key].look
          /\ mem'[c].segments = mem'[mem'[c].key].segments
          /\ mem'[c].blurred = ~settings.blur_deferred
    BY <2>2
  <2>4. bitmap_cache' \subseteq Addr
        /\ bitmap_cache' \cup composite_cache \subseteq DOMAIN mem'
    BY <1>1, <1>4
  <2> QED BY <1>2, <2>1, <2>3, <2>4
<1>6. FrameFits' BY <1>2, <1>4, FrameGoesOn DEF DrawnRight
<1> QED BY <1>2, <1>5, <1>6 DEF DrawnRight

\* A composite is made from a bitmap that is fresh, in the mode in force.
LEMMA DrawnCombine ==
  ASSUME DrawnRight, NEW i, Combine(i)
  PROVE  DrawnRight'
<1>1. PICK b \in BitmapOf(Runs(i)[NextRun(i)].glyph), a \in Free :
        /\ mem' = With(a, CompositeBlock(b, settings, mem))
        /\ composite_cache' = composite_cache \cup {a}
  BY DEF Combine
<1>2. UNCHANGED <<settings, bitmap_cache, frame>> BY DEF Combine
<1> DEFINE block == CompositeBlock(b, settings, mem)
<1>3. b \in bitmap_cache /\ b \in DOMAIN mem /\ b \in Addr /\ b # NULL
  BY FramesAssumption DEF BitmapOf, DrawnRight, Fresh
<1>4. /\ block.key = b /\ block.glyph = mem[b].glyph
      /\ block.look = mem[b].look /\ block.segments = mem[b].segments
      /\ block.blurred = ~settings.blur_deferred
  <2>1. mem[b] = BitmapBlock(mem[b].glyph, settings)
    BY <1>3 DEF DrawnRight, Fresh
  <2> QED BY <2>1 DEF CompositeBlock, BitmapBlock
<1> HIDE DEF block
<1>5. /\ DOMAIN mem' = DOMAIN mem \cup {a} /\ mem'[a] = block /\ a \in Addr
      /\ \A x \in DOMAIN mem : x # a /\ mem'[x] = mem[x]
  BY <1>1, WithNew DEF block
<1>6. Fresh(bitmap_cache, composite_cache, mem, settings)'
  <2> USE DEF DrawnRight, Fresh
  <2>1. \A x \in bitmap_cache : mem'[x] = BitmapBlock(mem'[x].glyph, settings)
    BY <1>5
  <2>2. ASSUME NEW c \in composite_cache
        PROVE  /\ mem'[c] = mem[c] /\ mem[c].key \in DOMAIN mem'
               /\ mem'[mem[c].key] = mem[mem[c].key]
    BY <1>5
  <2>3. ASSUME NEW c \in composite_cache'
        PROVE  /\ mem'[c].key # NULL /\ mem'[c].key \in DOMAIN mem'
               /\ mem'[c].glyph = mem'[mem'[c].key].glyph
               /\ mem'[c].look = mem'[mem'[c].key].look
               /\ mem'[c].segments = mem'[mem'[c].key].segments
               /\ mem'[c].blurred = ~settings.blur_deferred
    <3>1. CASE c = a BY <1>3, <1>4, <1>5, <3>1
    <3>2. CASE c \in composite_cache BY <2>2, <3>2
    <3> QED BY <1>1, <3>1, <3>2
  <2>4. bitmap_cache \cup composite_cache' \subseteq DOMAIN mem'
    BY <1>1, <1>5
  <2> QED BY <1>2, <2>1, <2>3, <2>4
<1>7. composite_cache' \subseteq Addr BY <1>1, <1>5 DEF DrawnRight
<1>8. FrameFits' BY <1>2, <1>5, FrameGoesOn DEF DrawnRight
<1> QED BY <1>2, <1>6, <1>7, <1>8 DEF DrawnRight

\* Taking a source that fits the next run, or none, leaves all fitting.
LEMMA TakeFits ==
  ASSUME FrameFits, NEW i, Running(i), NextRun(i) <= Len(Runs(i)),
         NEW src \in Addr \cup {NULL},
         src # NULL => Fits(src, Runs(i)[NextRun(i)]),
         Take(i, src), UNCHANGED <<settings, mem>>
  PROVE  FrameFits'
<1> DEFINE got == frame.got
           got2 == [got EXCEPT ![i] = Append(got[i], src)]
<1>1. /\ frame = [scene |-> frame.scene, got |-> frame.got, out |-> frame.out,
                  todo |-> frame.todo, run_base |-> frame.run_base]
      /\ frame.todo \subseteq DOMAIN frame.scene.active
      /\ got \in [DOMAIN frame.scene.active -> Seq(Addr \cup {NULL})]
      /\ i \in DOMAIN frame.scene.active
      /\ \A j \in DOMAIN got : \A r \in DOMAIN got[j] :
           got[j][r] # NULL => Fits(got[j][r], Runs(j)[r])
  BY DEF FrameFits, Running
<1>2. frame' = [scene |-> frame.scene, got |-> got2, out |-> frame.out,
                todo |-> frame.todo, run_base |-> frame.run_base]
  BY <1>1 DEF Take
<1>3. got[i] \in Seq(Addr \cup {NULL}) BY <1>1
<1>4. Append(got[i], src) \in Seq(Addr \cup {NULL}) BY <1>3
<1>5. got2 \in [DOMAIN frame.scene.active -> Seq(Addr \cup {NULL})]
  BY <1>1, <1>4
<1>6. ASSUME NEW j \in DOMAIN got2, NEW r \in DOMAIN got2[j], got2[j][r] # NULL
      PROVE  Fits(got2[j][r], Runs(j)[r])
  <2>1. CASE j # i BY <1>1, <1>6, <2>1
  <2>2. CASE j = i
    <3>1. got2[j] = Append(got[i], src) BY <1>1, <2>2
    <3>2. CASE r = Len(got[i]) + 1
      BY <1>3, <1>6, <2>2, <3>1, <3>2 DEF NextRun
    <3>3. CASE r \in DOMAIN got[i]
      <4>1. got2[j][r] = got[i][r] BY <1>3, <3>1, <3>3
      <4> QED BY <1>1, <1>6, <2>2, <3>3, <4>1
    <3>4. r = Len(got[i]) + 1 \/ r \in DOMAIN got[i] BY <1>3, <3>1
    <3> QED BY <3>2, <3>3, <3>4
  <2> QED BY <2>1, <2>2
<1> HIDE DEF got2
<1>7. \A x, run : Fits(x, run) => Fits(x, run)' BY DEF Fits, Deferred
<1>8. frame'.scene = frame.scene /\ frame'.got = got2 /\ frame'.todo = frame.todo
  BY <1>2
<1>9. \A j, r : Runs(j)[r]' = Runs(j)[r] BY <1>8 DEF Runs, Event
<1> QED BY <1>1, <1>2, <1>5, <1>6, <1>7, <1>8, <1>9 DEF FrameFits

\* What is found in the caches fits, since they are fresh.
LEMMA DrawnGetSource ==
  ASSUME DrawnRight, NEW i, GetSource(i)
  PROVE  DrawnRight'
<1> DEFINE run == Runs(i)[NextRun(i)]
<1>1. /\ UNCHANGED <<settings, mem, bitmap_cache, composite_cache>>
      /\ Running(i) /\ NextRun(i) <= Len(Runs(i))
  BY DEF GetSource, caches
<1>2. ASSUME NEW b \in BitmapOf(run.glyph)
      PROVE  /\ b \in Addr /\ b \in DOMAIN mem /\ b # NULL
             /\ mem[b] = BitmapBlock(run.glyph, settings)
  BY FramesAssumption DEF BitmapOf, DrawnRight, Fresh
<1>3. ASSUME NEW b \in BitmapOf(run.glyph), Deferred(run), Take(i, b)
      PROVE  FrameFits'
  <2>1. /\ mem[b].glyph = run.glyph /\ mem[b].look = settings.look
        /\ mem[b].segments = settings.outline_deferred /\ mem[b].key = NULL
    BY <1>2, <1>3 DEF BitmapBlock
  <2>2. (mem[b].key = NULL) = TRUE /\ Deferred(run) = TRUE BY <1>3, <2>1
  <2>3. Fits(b, run) BY <1>2, <1>3, <2>1, <2>2 DEF Fits
  <2> QED BY <1>1, <1>2, <1>3, <2>3, TakeFits DEF DrawnRight
<1>4. ASSUME NEW b \in BitmapOf(run.glyph), ~Deferred(run),
             NEW c \in CompositeOf(b), Take(i, c)
      PROVE  FrameFits'
  <2>1. /\ c \in DOMAIN mem /\ c \in Addr /\ mem[c].key = b
        /\ mem[c].glyph = mem[b].glyph /\ mem[c].look = mem[b].look
        /\ mem[c].segments = mem[b].segments
        /\ mem[c].blurred = ~settings.blur_deferred
    BY <1>4 DEF CompositeOf, DrawnRight, Fresh
  <2>2. /\ mem[b].glyph = run.glyph /\ mem[b].look = settings.look
        /\ mem[b].segments = settings.outline_deferred /\ b # NULL
    BY <1>2, <1>4 DEF BitmapBlock
  <2>3. (mem[c].key = NULL) = FALSE BY <2>1, <2>2
  <2>4. Deferred(run) = FALSE BY <1>4
  <2>5. Fits(c, run) BY <2>1, <2>2, <2>3, <2>4 DEF Fits
  <2> QED BY <1>1, <1>4, <2>1, <2>5, TakeFits DEF DrawnRight
<1>5. ASSUME Take(i, NULL) PROVE FrameFits'
  BY <1>1, <1>5, TakeFits DEF DrawnRight
<1>6. FrameFits' BY <1>3, <1>4, <1>5 DEF GetSource
<1> QED BY <1>1, <1>6 DEF DrawnRight

\* An event that is done takes nothing more.
LEMMA DrawnRenderText ==
  ASSUME DrawnRight, NEW i, RenderText(i)
  PROVE  DrawnRight'
<1> DEFINE out2 == [frame.out EXCEPT ![i] = Images(i)]
           base2 == frame.run_base + Reserved(Len(Runs(i)))
<1>1. /\ frame = [scene |-> frame.scene, got |-> frame.got, out |-> frame.out,
                  todo |-> frame.todo, run_base |-> frame.run_base]
      /\ FrameFits /\ frame # NoFrame
  BY DEF DrawnRight, FrameFits, RenderText, Running
<1>2. frame' = [scene |-> frame.scene, got |-> frame.got, out |-> out2,
                todo |-> frame.todo \ {i}, run_base |-> base2]
  BY <1>1 DEF RenderText
<1>3. UNCHANGED <<settings, mem, bitmap_cache, composite_cache>>
  BY DEF RenderText, caches
<1> HIDE DEF out2, base2
<1>4. /\ frame'.scene = frame.scene /\ frame'.got = frame.got
      /\ frame'.todo = frame.todo \ {i}
  BY <1>2
<1>5. \A x, run : Fits(x, run) => Fits(x, run)' BY <1>3 DEF Fits, Deferred
<1>6. \A j, r : Runs(j)[r]' = Runs(j)[r] BY <1>4 DEF Runs, Event
<1>7. FrameFits' BY <1>1, <1>2, <1>4, <1>5, <1>6 DEF FrameFits
<1> QED BY <1>3, <1>7 DEF DrawnRight

\* At the end of a frame the caches keep what they have.
LEMMA DrawnEndFrame == ASSUME DrawnRight, EndFrame PROVE DrawnRight'
<1>1. PICK images : Finish(images) BY DEF EndFrame
<1>2. UNCHANGED <<settings, bitmap_cache, composite_cache>> BY DEF EndFrame, caches
<1>3. Fresh(bitmap_cache, composite_cache, mem', settings)
  BY <1>1, KeptFresh DEF Finish, DrawnRight
<1>4. FrameFits' BY <1>1 DEF Finish, FrameFits
<1> QED BY <1>2, <1>3, <1>4 DEF DrawnRight

\* Empty caches are fresh.
LEMMA NoneFresh ==
  ASSUME Emptied({}, {})
  PROVE  /\ Fresh(bitmap_cache, composite_cache, mem, settings)'
         /\ composite_cache' \subseteq Addr
<1>1. bitmap_cache' = {} /\ composite_cache' = {} BY DEF Emptied
<1> QED BY <1>1 DEF Fresh

\* Each setter empties what it makes worthless: of a setting that goes into
\* bitmaps both caches or the bitmaps, which no composite is found without; of
\* one that goes into composites, those.
LEMMA DrawnSettings ==
  ASSUME DrawnRight,
         \/ Reconfigure \/ SetFonts \/ SetBlurDeferred
         \/ SetCompositeDeferred \/ SetOutlineDeferred
  PROVE  DrawnRight'
<1>1. Idle /\ UNCHANGED frame
  BY DEF Reconfigure, SetFonts, SetBlurDeferred, SetCompositeDeferred,
         SetOutlineDeferred
<1>2. FrameFits' BY <1>1, IdleFits
<1>3. ASSUME NEW bs \in SUBSET bitmap_cache, NEW cs \in SUBSET composite_cache,
             Emptied(bs, cs)
      PROVE  /\ Fresh(bitmap_cache', composite_cache', mem', settings)
             /\ composite_cache' \subseteq Addr
             /\ bitmap_cache' = bs /\ composite_cache' = cs
  BY <1>3, KeptFresh DEF Emptied, DrawnRight
<1>4. settings' \in SettingsType
  BY DEF Reconfigure, SetFonts, SetBlurDeferred, SetCompositeDeferred,
         SetOutlineDeferred, DrawnRight, SettingsType
<1>5. CASE Reconfigure
  <2>1. Emptied({}, {}) BY <1>5 DEF Reconfigure
  <2> QED BY <1>2, <1>4, <2>1, NoneFresh DEF DrawnRight
<1>6. CASE SetFonts
  <2>1. Emptied({}, {}) BY <1>6 DEF SetFonts
  <2> QED BY <1>2, <1>4, <2>1, NoneFresh DEF DrawnRight
<1>7. CASE SetBlurDeferred
  <2>1. Emptied(bitmap_cache, {}) BY <1>7 DEF SetBlurDeferred
  <2>2. settings'.look = settings.look
        /\ settings'.outline_deferred = settings.outline_deferred
    BY <1>7 DEF SetBlurDeferred, DrawnRight, SettingsType
  <2>3. \A g : BitmapBlock(g, settings') = BitmapBlock(g, settings)
    BY <2>2 DEF BitmapBlock
  <2> QED BY <1>2, <1>3, <1>4, <2>1, <2>3 DEF DrawnRight, Fresh
<1>8. CASE SetCompositeDeferred
  <2>1. Emptied(bitmap_cache, {}) BY <1>8 DEF SetCompositeDeferred
  <2>2. settings'.look = settings.look
        /\ settings'.outline_deferred = settings.outline_deferred
    BY <1>8 DEF SetCompositeDeferred, DrawnRight, SettingsType
  <2>3. \A g : BitmapBlock(g, settings') = BitmapBlock(g, settings)
    BY <2>2 DEF BitmapBlock
  <2> QED BY <1>2, <1>3, <1>4, <2>1, <2>3 DEF DrawnRight, Fresh
<1>9. CASE SetOutlineDeferred
  <2>1. Emptied({}, composite_cache) BY <1>9 DEF SetOutlineDeferred
  <2>2. settings'.blur_deferred = settings.blur_deferred
    BY <1>9 DEF SetOutlineDeferred, DrawnRight, SettingsType
  <2>3. {} \in SUBSET bitmap_cache OBVIOUS
  <2>4. /\ Fresh(bitmap_cache', composite_cache', mem', settings)
        /\ bitmap_cache' = {} /\ composite_cache' \subseteq Addr
    BY <1>3, <2>1, <2>3
  <2>5. Fresh(bitmap_cache', composite_cache', mem', settings')
    BY <2>2, <2>4 DEF Fresh
  <2> QED BY <1>2, <1>4, <2>4, <2>5 DEF DrawnRight
<1> QED BY <1>5, <1>6, <1>7, <1>8, <1>9

\* Nothing drawn matters to the other steps.
LEMMA DrawnUnchanged ==
  ASSUME DrawnRight,
         UNCHANGED <<settings, bitmap_cache, composite_cache, mem, frame>>
  PROVE  DrawnRight'
<1>1. FrameFits' BY FrameGoesOn DEF DrawnRight
<1> QED BY <1>1 DEF DrawnRight

\* Every step leaves what is drawn right.
LEMMA DrawnNext == ASSUME DrawnRight, [Next]_vars PROVE DrawnRight'
<1>1. CASE \E n \in ThreadCounts : SetThreadCount(n)
  BY <1>1, DrawnUnchanged DEF SetThreadCount, PoolStep, caches
<1>2. CASE BuildContext \/ AbandonContexts
  BY <1>2, DrawnUnchanged DEF BuildContext, AbandonContexts, PoolStep, caches
<1>3. CASE CreatePool
  BY <1>3, DrawnUnchanged DEF CreatePool, PoolStep, caches
<1>4. CASE \E sc \in Scenes : FailedFrame(sc)
  BY <1>4, DrawnUnchanged DEF FailedFrame, caches
<1>5. CASE \E sc \in Scenes : StartFrame(sc) BY <1>5, DrawnStartFrame
<1>6. CASE \E i \in frame.todo :
             Rasterise(i) \/ Combine(i) \/ GetSource(i) \/ RenderText(i)
  BY <1>6, DrawnRasterise, DrawnCombine, DrawnGetSource, DrawnRenderText
<1>7. CASE EndFrame BY <1>7, DrawnEndFrame
<1>8. CASE \/ Reconfigure \/ SetFonts \/ SetBlurDeferred
           \/ SetCompositeDeferred \/ SetOutlineDeferred
  BY <1>8, DrawnSettings
<1>9. CASE UNCHANGED vars BY <1>9, DrawnUnchanged DEF vars, caches
<1> QED BY <1>1, <1>2, <1>3, <1>4, <1>5, <1>6, <1>7, <1>8, <1>9 DEF Next

\* A renderer starts with nothing to be stale.
LEMMA DrawnInit == ASSUME Init PROVE DrawnRight
BY DEF Init, DrawnRight, Fresh, FrameFits, SettingsType

\* render_and_combine_glyphs and the setters: whatever is set between frames,
\* whatever the caches hold from before and whatever is cut from them, what is
\* drawn is made from the run's glyph under the settings in force.
THEOREM NothingIsStale == Spec => []NothingStale
<1>1. ASSUME DrawnRight PROVE NothingStale
  BY <1>1 DEF DrawnRight, FrameFits, Fits, NothingStale
<1> QED BY <1>1, DrawnInit, DrawnNext, PTL DEF Spec

-----------------------------------------------------------------------------
(* The report of change                                                    *)

\* The list that the next one will be compared with: the last one that was
\* returned, or the one before while a frame is rendered.
Compared == IF frame = NoFrame THEN images_root ELSE prev_images_root

\* Its blocks are in use, so that none of their addresses can be another's,
\* and show what they showed when it was returned.
StillShown ==
  /\ Refs(Compared) \subseteq DOMAIN mem
  /\ report.is = Shown(Compared, mem)

\* The inductive invariant of the report.
Reported ==
  /\ report = [change |-> report.change, was |-> report.was, is |-> report.is,
               before |-> report.before, returned |-> report.returned,
               started |-> report.started]
  /\ StillShown
  /\ ChangeSound

\* A list that is among the roots looks the same in what is left of memory.
LEMMA SeenAgain ==
  ASSUME NEW images, NEW m, NEW roots, Refs(images) \subseteq roots
  PROVE  /\ Refs(images) \subseteq DOMAIN Kept(roots, m)
         /\ Shown(images, Kept(roots, m)) = Shown(images, m)
<1>1. \A a \in roots : a \in DOMAIN Kept(roots, m) /\ Kept(roots, m)[a] = m[a]
  BY DEF Kept, Reachable
<1>2. \A k \in DOMAIN images : images[k].src \in roots BY DEF Refs
<1> QED BY <1>1, <1>2 DEF Shown

\* So it does when a block is added to it.
LEMMA SeenWithMore ==
  ASSUME NEW images, NEW m, NEW m2, Refs(images) \subseteq DOMAIN m,
         \A a \in DOMAIN m : a \in DOMAIN m2 /\ m2[a] = m[a]
  PROVE  Refs(images) \subseteq DOMAIN m2 /\ Shown(images, m2) = Shown(images, m)
<1>1. \A k \in DOMAIN images : images[k].src \in DOMAIN m BY DEF Refs
<1> QED BY <1>1 DEF Shown

\* What a comparison of two images says.
LEMMA CompareSays ==
  ASSUME NEW a, NEW b
  PROVE  /\ Compare(a, b) \in 0 .. 2
         /\ Compare(a, b) <= 1 =>
              /\ a.src = b.src /\ a.type = b.type
              /\ a.color = b.color /\ a.transparent = b.transparent
         /\ Compare(a, b) = 0 => a.dst_x = b.dst_x
BY DEF Compare

\* What a comparison of two lists says: that of the worst pair, or 2.
LEMMA DetectSays ==
  ASSUME NEW prev, NEW root
  PROVE  /\ DetectChange(prev, root) \in 0 .. 2
         /\ DetectChange(prev, root) <= 1 =>
              /\ DOMAIN prev = DOMAIN root
              /\ \A k \in DOMAIN prev :
                   Compare(prev[k], root[k]) <= DetectChange(prev, root)
<1> DEFINE c(k) == Compare(prev[k], root[k])
           P(d) == /\ \A k \in DOMAIN prev : c(k) <= d
                   /\ d = 0 \/ \E k \in DOMAIN prev : c(k) = d
<1>1. \A k \in DOMAIN prev : c(k) \in 0 .. 2 BY CompareSays
<1> HIDE DEF c
<1>2. \E d \in 0 .. 2 : P(d)
  <2>1. CASE \E k \in DOMAIN prev : c(k) = 2 BY <1>1, <2>1
  <2>2. CASE (~\E k \in DOMAIN prev : c(k) = 2) /\ \E k \in DOMAIN prev : c(k) = 1
    <3>1. P(1) BY <1>1, <2>2
    <3> QED BY <3>1
  <2>3. CASE ~\E k \in DOMAIN prev : c(k) = 2 \/ c(k) = 1
    <3>1. P(0) BY <1>1, <2>3
    <3> QED BY <3>1
  <2> QED BY <2>1, <2>2, <2>3
<1> HIDE DEF P
<1>3. P(CHOOSE d \in 0 .. 2 : P(d)) /\ (CHOOSE d \in 0 .. 2 : P(d)) \in 0 .. 2
  BY <1>2
<1>4. DetectChange(prev, root) = IF DOMAIN prev # DOMAIN root THEN 2
                                 ELSE CHOOSE d \in 0 .. 2 : P(d)
  BY DEF DetectChange, P, c
<1> QED BY <1>3, <1>4 DEF P, c

\* Lists whose images differ in nothing, or in positions only, are seen so:
\* an address that is the same is the same block.
LEMMA SeenTheSame ==
  ASSUME NEW prev, NEW root, NEW m
  PROVE  /\ DetectChange(prev, root) = 0 => Shown(prev, m) = Shown(root, m)
         /\ DetectChange(prev, root) <= 1 =>
              SamePlaces(Shown(prev, m)) = SamePlaces(Shown(root, m))
<1> DEFINE s == Shown(prev, m)
           t == Shown(root, m)
<1>1. /\ DOMAIN s = DOMAIN prev /\ DOMAIN t = DOMAIN root
      /\ \A k \in DOMAIN prev : s[k] = Seen(prev[k], m[prev[k].src])
      /\ \A k \in DOMAIN root : t[k] = Seen(root[k], m[root[k].src])
  BY DEF Shown
<1>2. ASSUME DetectChange(prev, root) = 0 PROVE s = t
  <2>1. /\ DOMAIN prev = DOMAIN root
        /\ \A k \in DOMAIN prev : Compare(prev[k], root[k]) = 0
    BY <1>2, DetectSays, CompareSays
  <2>2. \A k \in DOMAIN prev : Seen(prev[k], m[prev[k].src])
                                 = Seen(root[k], m[root[k].src])
    BY <2>1, CompareSays DEF Seen
  <2> QED BY <2>1, <2>2 DEF Shown
<1>3. ASSUME DetectChange(prev, root) <= 1 PROVE SamePlaces(s) = SamePlaces(t)
  <2>1. /\ DOMAIN prev = DOMAIN root
        /\ \A k \in DOMAIN prev : Compare(prev[k], root[k]) <= 1
    BY <1>3, DetectSays, CompareSays
  <2>2. ASSUME NEW k \in DOMAIN prev
        PROVE  [s[k] EXCEPT !.dst_x = 0] = [t[k] EXCEPT !.dst_x = 0]
    BY <1>1, <2>1, CompareSays DEF Seen
  <2> HIDE DEF s, t
  <2> QED BY <1>1, <2>1, <2>2 DEF SamePlaces
<1> QED BY <1>2, <1>3

\* A frame is something.
LEMMA FrameIsSome ==
  ASSUME NEW sc, NEW got, NEW out, NEW todo, NEW base
  PROVE  [scene |-> sc, got |-> got, out |-> out, todo |-> todo,
          run_base |-> base] # NoFrame
<1> DEFINE f == [scene |-> sc, got |-> got, out |-> out, todo |-> todo,
                 run_base |-> base]
<1>1. "scene" \in DOMAIN f OBVIOUS
<1>2. DOMAIN NoFrame = {} BY DEF NoFrame
<1> QED BY <1>1, <1>2

\* What is reported stays so while the list to compare with and its blocks do.
LEMMA ReportedOn ==
  ASSUME Reported, Compared' = Compared, UNCHANGED report,
         \A a \in DOMAIN mem : a \in DOMAIN mem' /\ mem'[a] = mem[a]
  PROVE  Reported'
<1>1. StillShown' BY SeenWithMore DEF Reported, StillShown
<1>2. ChangeSound' BY DEF Reported, ChangeSound
<1> QED BY <1>1, <1>2 DEF Reported

\* A list that is kept is still shown.
LEMMA ReportedKept ==
  ASSUME Reported, Compared' = Compared, UNCHANGED report,
         NEW roots, mem' = Kept(roots, mem), Refs(Compared) \subseteq roots
  PROVE  Reported'
<1>1. StillShown' BY SeenAgain DEF Reported, StillShown
<1>2. ChangeSound' BY DEF Reported, ChangeSound
<1> QED BY <1>1, <1>2 DEF Reported

\* The list that was returned becomes the one before, which is held.
LEMMA ReportedStartFrame ==
  ASSUME Reported, NEW sc \in Scenes, StartFrame(sc)
  PROVE  Reported'
<1>1. Compared = images_root BY DEF Compared, StartFrame, Idle
<1>2. Compared' = images_root
  <2>1. frame' # NoFrame BY FrameIsSome DEF StartFrame
  <2> QED BY <2>1 DEF Compared, StartFrame
<1>3. \E bs, cs :
        mem' = Kept(cs \cup bs \cup Held(images_root', prev_images_root'), mem)
  BY DEF StartFrame, Cut
<1>4. PICK bs, cs :
        mem' = Kept(cs \cup bs \cup Held(images_root', prev_images_root'), mem)
  BY <1>3
<1>5. Refs(Compared) \subseteq Held(images_root', prev_images_root')
  BY <1>1 DEF StartFrame, Held
<1>6. UNCHANGED report BY DEF StartFrame
<1> QED BY <1>1, <1>2, <1>4, <1>5, <1>6, ReportedKept

\* While the frame is rendered the list before is left alone, and memory only
\* grows.
LEMMA ReportedRendering ==
  ASSUME Reported, FrameFits, frame # NoFrame, NEW i,
         Rasterise(i) \/ Combine(i) \/ GetSource(i) \/ RenderText(i)
  PROVE  Reported'
<1>1. frame = [scene |-> frame.scene, got |-> frame.got, out |-> frame.out,
               todo |-> frame.todo, run_base |-> frame.run_base]
  BY DEF FrameFits
<1>2. UNCHANGED <<prev_images_root, report>>
  BY DEF Rasterise, Combine, GetSource, RenderText, lists
<1>3. ASSUME frame' # NoFrame PROVE Compared' = Compared
  BY <1>2, <1>3 DEF Compared
<1>4. CASE Rasterise(i)
  <2>1. UNCHANGED frame BY <1>4 DEF Rasterise
  <2>2. PICK a \in Free : \E block : mem' = With(a, block) BY <1>4 DEF Rasterise
  <2>3. PICK block : mem' = With(a, block) BY <2>2
  <2>4. /\ DOMAIN With(a, block) = DOMAIN mem \cup {a}
        /\ \A x \in DOMAIN mem : With(a, block)[x] = mem[x]
    BY DEF Free, With
  <2>5. \A x \in DOMAIN mem : x \in DOMAIN mem' /\ mem'[x] = mem[x]
    BY <2>3, <2>4
  <2> QED BY <1>2, <1>3, <2>1, <2>5, ReportedOn
<1>5. CASE Combine(i)
  <2>1. UNCHANGED frame BY <1>5 DEF Combine
  <2>2. PICK a \in Free : \E block : mem' = With(a, block) BY <1>5 DEF Combine
  <2>3. PICK block : mem' = With(a, block) BY <2>2
  <2>4. /\ DOMAIN With(a, block) = DOMAIN mem \cup {a}
        /\ \A x \in DOMAIN mem : With(a, block)[x] = mem[x]
    BY DEF Free, With
  <2>5. \A x \in DOMAIN mem : x \in DOMAIN mem' /\ mem'[x] = mem[x]
    BY <2>3, <2>4
  <2> QED BY <1>2, <1>3, <2>1, <2>5, ReportedOn
<1>6. CASE GetSource(i)
  <2>1. PICK src : Take(i, src) BY <1>6 DEF GetSource
  <2>2. frame' = [scene |-> frame.scene,
                  got |-> [frame.got EXCEPT ![i] = Append(frame.got[i], src)],
                  out |-> frame.out, todo |-> frame.todo,
                  run_base |-> frame.run_base]
    BY <1>1, <2>1 DEF Take
  <2>3. frame' # NoFrame BY <2>2, FrameIsSome
  <2>4. UNCHANGED mem BY <1>6 DEF GetSource
  <2> QED BY <1>2, <1>3, <2>3, <2>4, ReportedOn
<1>7. CASE RenderText(i)
  <2> DEFINE out2 == [frame.out EXCEPT ![i] = Images(i)]
             base2 == frame.run_base + Reserved(Len(Runs(i)))
  <2>1. frame' = [scene |-> frame.scene, got |-> frame.got, out |-> out2,
                  todo |-> frame.todo \ {i}, run_base |-> base2]
    BY <1>1, <1>7 DEF RenderText
  <2> HIDE DEF out2, base2
  <2>2. frame' # NoFrame BY <2>1, FrameIsSome
  <2>3. UNCHANGED mem BY <1>7 DEF RenderText
  <2> QED BY <1>2, <1>3, <2>2, <2>3, ReportedOn
<1> QED BY <1>4, <1>5, <1>6, <1>7

\* The lists are compared while both have their blocks; then the new one takes
\* the place of the old.
LEMMA ReportedEndFrame == ASSUME Reported, EndFrame PROVE Reported'
<1>1. PICK images : Finish(images) BY DEF EndFrame
<1> DEFINE prev == prev_images_root
           change == DetectChange(prev, images)
           shown == Shown(images, mem)
<1>2. Compared = prev BY DEF Compared, EndFrame
<1>3. report.is = Shown(prev, mem) BY <1>2 DEF Reported, StillShown
<1>4. report' = [change |-> change, was |-> report.is, is |-> shown,
                 before |-> report.returned, returned |-> shown,
                 started |-> TRUE]
  BY <1>1 DEF Finish
<1>5. Compared' = images BY <1>1 DEF Finish, Compared
<1>6. /\ mem' = Kept(bitmap_cache \cup composite_cache \cup Refs(images), mem)
      /\ Refs(images) \subseteq bitmap_cache \cup composite_cache \cup Refs(images)
  BY <1>1 DEF Finish
<1> HIDE DEF change, shown
<1>7. StillShown' BY <1>4, <1>5, <1>6, SeenAgain DEF StillShown, shown
<1>8. /\ change = 0 => Shown(prev, mem) = shown
      /\ change <= 1 => SamePlaces(Shown(prev, mem)) = SamePlaces(shown)
  BY SeenTheSame DEF change, shown
<1>9. ChangeSound' BY <1>3, <1>4, <1>8 DEF ChangeSound
<1> QED BY <1>4, <1>7, <1>9 DEF Reported

\* What a setter empties, images keep.
LEMMA ReportedSettings ==
  ASSUME Reported,
         \/ Reconfigure \/ SetFonts \/ SetBlurDeferred
         \/ SetCompositeDeferred \/ SetOutlineDeferred
  PROVE  Reported'
<1>1. Compared = images_root /\ Compared' = Compared /\ UNCHANGED report
  BY DEF Reconfigure, SetFonts, SetBlurDeferred, SetCompositeDeferred,
         SetOutlineDeferred, Idle, Compared, lists
<1>2. \E bs, cs : Emptied(bs, cs)
  BY DEF Reconfigure, SetFonts, SetBlurDeferred, SetCompositeDeferred,
         SetOutlineDeferred
<1>3. PICK bs, cs : mem' = Kept(bs \cup cs \cup Refs(images_root), mem)
  BY <1>2 DEF Emptied
<1> QED BY <1>1, <1>3, ReportedKept

\* A frame that does not start says that all has changed, and compares nothing.
LEMMA ReportedFailedFrame ==
  ASSUME Reported, NEW sc \in Scenes, FailedFrame(sc)
  PROVE  Reported'
<1>1. report = [change |-> report.change, was |-> report.was, is |-> report.is,
                before |-> report.before, returned |-> report.returned,
                started |-> report.started]
  BY DEF Reported
<1>2. report' = [change |-> 2, was |-> report.was, is |-> report.is,
                 before |-> report.returned, returned |-> <<>>,
                 started |-> FALSE]
  BY <1>1 DEF FailedFrame
<1>3. Compared' = Compared /\ UNCHANGED mem BY DEF FailedFrame, Compared, lists
<1>4. StillShown' BY <1>2, <1>3 DEF Reported, StillShown
<1>5. ChangeSound' BY <1>2 DEF ChangeSound
<1> QED BY <1>2, <1>4, <1>5 DEF Reported

\* Steps that touch neither lists nor blocks leave the report right.
LEMMA ReportedUnchanged ==
  ASSUME Reported, UNCHANGED <<mem, images_root, prev_images_root, frame, report>>
  PROVE  Reported'
BY ReportedOn DEF Compared

\* Every step leaves the report right.
LEMMA ReportedNext ==
  ASSUME Reported, FrameFits, [Next]_vars
  PROVE  Reported'
<1>1. CASE \E n \in ThreadCounts : SetThreadCount(n)
  BY <1>1, ReportedUnchanged DEF SetThreadCount, PoolStep, lists
<1>2. CASE BuildContext \/ AbandonContexts
  BY <1>2, ReportedUnchanged DEF BuildContext, AbandonContexts, PoolStep, lists
<1>3. CASE CreatePool
  BY <1>3, ReportedUnchanged DEF CreatePool, PoolStep, lists
<1>4. CASE \E sc \in Scenes : FailedFrame(sc) BY <1>4, ReportedFailedFrame
<1>5. CASE \E sc \in Scenes : StartFrame(sc) BY <1>5, ReportedStartFrame
<1>6. CASE frame # NoFrame /\ \E i \in frame.todo :
             Rasterise(i) \/ Combine(i) \/ GetSource(i) \/ RenderText(i)
  BY <1>6, ReportedRendering
<1>7. CASE EndFrame BY <1>7, ReportedEndFrame
<1>8. CASE \/ Reconfigure \/ SetFonts \/ SetBlurDeferred
           \/ SetCompositeDeferred \/ SetOutlineDeferred
  BY <1>8, ReportedSettings
<1>9. CASE UNCHANGED vars BY <1>9, ReportedUnchanged DEF vars, lists
<1> QED BY <1>1, <1>2, <1>3, <1>4, <1>5, <1>6, <1>7, <1>8, <1>9 DEF Next

\* A renderer starts with no list, and with none reported.
LEMMA ReportedInit == ASSUME Init PROVE Reported
<1>1. /\ report = [change |-> 2, was |-> <<>>, is |-> <<>>, before |-> <<>>,
                   returned |-> <<>>, started |-> FALSE]
      /\ Compared = <<>>
  BY DEF Init, Compared
<1>2. StillShown BY <1>1 DEF StillShown, Shown, Refs
<1>3. ChangeSound BY <1>1 DEF ChangeSound
<1> QED BY <1>1, <1>2, <1>3 DEF Reported

\* ass_detect_change, which compares addresses: it never says less than the
\* truth, although addresses are used again, since the blocks of the list
\* before are held until after it.
THEOREM ChangeIsSound == Spec => []ChangeSound
<1>1. Reported /\ DrawnRight /\ [Next]_vars => Reported'
  BY ReportedNext DEF DrawnRight
<1>2. Reported => ChangeSound BY DEF Reported
<1> QED BY <1>1, <1>2, ReportedInit, DrawnInit, DrawnNext, PTL DEF Spec

-----------------------------------------------------------------------------
(* Lists                                                                   *)

\* A set of numbers that is not empty has a smallest one.
LEMMA Smallest ==
  ASSUME NEW S, S \subseteq Nat, S # {}
  PROVE  \E m \in S : \A k \in S : m <= k
<1> DEFINE R == {ss \in Nat \X Nat : ss[1] < ss[2]}
<1>1. IsWellFoundedOn(R, Nat)
  BY NatLessThanWellFounded, Zenon DEF OpToRel
<1>2. \A x, y \in Nat : <<y, x>> \notin R => x <= y
  OBVIOUS
<1> HIDE DEF R
<1>3. PICK m \in S : \A k \in S : ~ (<<k, m>> \in R)
  BY <1>1, WFMin
<1> QED BY <1>2, <1>3

\* Lists put end to end are a list of what they are lists of.
LEMMA FlattenTyped ==
  ASSUME NEW S, NEW seqs \in Seq(Seq(S))
  PROVE  FlattenSeq(seqs) \in Seq(S)
<1> DEFINE n == Len(seqs)
           Step(g, m) == [i \in 1 .. m |-> IF i = 1 THEN seqs[i]
                                           ELSE g[i - 1] \o seqs[i]]
           flat == CHOOSE g : g = Step(g, n)
<1>1. n \in Nat /\ \A i \in 1 .. n : seqs[i] \in Seq(S)
  OBVIOUS
<1>2. CASE n = 0
  BY <1>2 DEF FlattenSeq
<1>3. CASE n > 0
  <2>1. FlattenSeq(seqs) = flat[n]
    <3>1. ~ (Len(seqs) = 0)
      BY <1>3
    <3> QED BY <3>1, Zenon DEF FlattenSeq
  <2>2. ASSUME NEW m \in Nat, NEW g, g = Step(g, m)
        PROVE  /\ \A i \in 1 .. m : g[i] = IF i = 1 THEN seqs[i]
                                           ELSE g[i - 1] \o seqs[i]
    BY <2>2
  <2> DEFINE Has(m) == \E g : g = Step(g, m)
             Bad == {m \in 1 .. n : ~ Has(m)}
  <2>3. Bad = {}
    <3>1. SUFFICES ASSUME Bad # {} PROVE FALSE
      OBVIOUS
    <3>2. PICK m \in Bad : \A k \in Bad : m <= k
      <4> HIDE DEF Has
      <4>1. Bad \subseteq Nat
        BY <1>1
      <4> HIDE DEF Bad
      <4> QED BY <3>1, <4>1, Smallest
    <3> HIDE DEF Has
    <3>3. m \in 1 .. n /\ ~ Has(m)
      OBVIOUS
    <3>4. CASE m = 1
      <4> DEFINE g == [i \in 1 .. 1 |-> seqs[i]]
      <4>1. g = Step(g, 1)
        OBVIOUS
      <4> HIDE DEF g
      <4>2. Has(1)
        BY <4>1 DEF Has
      <4> QED BY <3>3, <3>4, <4>2
    <3>5. CASE m > 1
      <4>1. m - 1 \in 1 .. n /\ Has(m - 1)
        <5>1. m - 1 \in 1 .. n /\ ~ (m <= m - 1)
          BY <3>3, <3>5
        <5>2. m - 1 \notin Bad
          BY <3>2, <5>1
        <5> QED BY <5>1, <5>2
      <4>2. PICK g : g = Step(g, m - 1)
        BY <4>1 DEF Has
      <4> DEFINE last == g[m - 1] \o seqs[m]
                 h == [i \in 1 .. m |-> IF i = m THEN last ELSE g[i]]
      <4> HIDE DEF last
      <4>3. m - 1 \in Nat
        BY <4>1
      <4>4. \A i \in 1 .. m - 1 : g[i] = IF i = 1 THEN seqs[i]
                                         ELSE g[i - 1] \o seqs[i]
        BY <2>2, <4>2, <4>3
      <4>5. ASSUME NEW i \in 1 .. m
            PROVE  h[i] = IF i = 1 THEN seqs[i] ELSE h[i - 1] \o seqs[i]
        <5>1. CASE i = m
          <6>1. m - 1 \in 1 .. m /\ m - 1 # m /\ m \in 1 .. m /\ i # 1
            BY <3>3, <3>5, <5>1
          <6>2. h[m - 1] = g[m - 1] /\ h[m] = last
            BY <6>1
          <6> HIDE DEF h
          <6>3. h[m] = h[m - 1] \o seqs[m]
            BY <6>2 DEF last
          <6> QED BY <5>1, <6>1, <6>3
        <5>2. CASE i # m
          <6>1. i \in 1 .. m - 1 /\ (i # 1 => i - 1 \in 1 .. m /\ i - 1 # m)
            BY <3>3, <5>2
          <6>2. h[i] = g[i] /\ (i # 1 => h[i - 1] = g[i - 1])
            BY <5>2, <6>1
          <6> HIDE DEF h
          <6>3. g[i] = IF i = 1 THEN seqs[i] ELSE g[i - 1] \o seqs[i]
            BY <4>4, <6>1
          <6>4. CASE i = 1
            BY <6>2, <6>3, <6>4
          <6>5. CASE i # 1
            <7>1. h[i] = g[i] /\ h[i - 1] = g[i - 1]
              BY <6>2, <6>5
            <7>2. g[i] = g[i - 1] \o seqs[i]
              BY <6>3, <6>5
            <7> QED BY <6>5, <7>1, <7>2
          <6> QED BY <6>4, <6>5
        <5> QED BY <5>1, <5>2
      <4>6. DOMAIN h = 1 .. m /\ h = [i \in 1 .. m |-> h[i]]
        OBVIOUS
      <4> HIDE DEF h
      <4>7. h = Step(h, m)
        BY <4>5, <4>6
      <4>8. Has(m)
        BY <4>7 DEF Has
      <4> QED BY <3>3, <4>8
    <3> QED BY <3>3, <3>4, <3>5
  <2>4. flat = Step(flat, n)
    <3> HIDE DEF Has
    <3>2. Has(n)
      BY <1>1, <1>3, <2>3
    <3>1. \E g : g = Step(g, n)
      BY <3>2 DEF Has
    <3> HIDE DEF Step
    <3> QED BY <3>1
  <2> HIDE DEF flat
  <2>5. \A i \in 1 .. n : flat[i] = IF i = 1 THEN seqs[i]
                                    ELSE flat[i - 1] \o seqs[i]
    BY <1>1, <2>2, <2>4
  <2> DEFINE Wrong == {i \in 1 .. n : flat[i] \notin Seq(S)}
  <2>6. Wrong = {}
    <3>1. SUFFICES ASSUME Wrong # {} PROVE FALSE
      OBVIOUS
    <3>2. PICK i \in Wrong : \A k \in Wrong : i <= k
      <4>1. Wrong \subseteq Nat
        OBVIOUS
      <4> HIDE DEF Wrong
      <4> QED BY <3>1, <4>1, Smallest
    <3>3. i \in 1 .. n /\ flat[i] \notin Seq(S)
      OBVIOUS
    <3>4. CASE i = 1
      BY <1>1, <2>5, <3>3, <3>4
    <3>5. CASE i > 1
      <4>1. i - 1 \in 1 .. n /\ flat[i - 1] \in Seq(S)
        BY <3>2, <3>3, <3>5
      <4>2. seqs[i] \in Seq(S) /\ flat[i] = flat[i - 1] \o seqs[i]
        BY <1>1, <2>5, <3>3, <3>5
      <4>3. flat[i - 1] \o seqs[i] \in Seq(S)
        BY <4>1, <4>2
      <4> QED BY <3>3, <4>2, <4>3
    <3> QED BY <3>3, <3>4, <3>5
  <2>7. n \in 1 .. n
    BY <1>1, <1>3
  <2> QED BY <2>1, <2>6, <2>7
<1> QED BY <1>1, <1>2, <1>3

\* The events of a scene can be sorted, and Sorted does: the place of an event
\* is one more than the number of events that go before it.
LEMMA SortedSorts ==
  ASSUME NEW sc \in Scenes
  PROVE  LET D == DOMAIN sc.active
         IN  /\ Sorted(sc) \in Bijection(D, D)
             /\ \A k, l \in D : k < l => ~Before(sc, Sorted(sc)[l], Sorted(sc)[k])
<1> DEFINE D == DOMAIN sc.active
           Less(i, j) == Before(sc, i, j) \/ (~Before(sc, j, i) /\ i < j)
           ahead(j) == {i \in D : Less(i, j)}
           rank == [j \in D |-> Cardinality(ahead(j)) + 1]
           n == Len(sc.active)
<1>1. n \in Nat /\ D = 1 .. n /\ D \subseteq Nat
  BY ScenesAssumption
<1>2. \A i \in D : Event(sc, i).layer \in Int /\ Event(sc, i).ReadOrder \in Int
  BY ScenesAssumption DEF Event, AllEvents, Range_
<1>3. IsFiniteSet(D) /\ Cardinality(D) = n
  <2>1. 1 \in Int /\ n \in Int
    BY <1>1
  <2>2. IsFiniteSet(1 .. n) /\ Cardinality(1 .. n) = IF 1 > n THEN 0 ELSE n - 1 + 1
    BY <2>1, FS_Interval
  <2> QED BY <1>1, <2>2
<1>4. /\ \A i \in D : ~Less(i, i)
      /\ \A i, j \in D : i # j => Less(i, j) \/ Less(j, i)
      /\ \A i, j, k \in D : Less(i, j) /\ Less(j, k) => Less(i, k)
      /\ \A i, j \in D : Less(i, j) => ~Before(sc, j, i)
  BY <1>1, <1>2 DEF Before
<1> HIDE DEF D, Less, n
<1>5. \A j \in D : ahead(j) \subseteq D /\ IsFiniteSet(ahead(j)) /\ Cardinality(ahead(j)) \in Nat
  BY <1>3, FS_Subset, FS_CardinalityType
<1>6. \A j \in D : rank[j] \in D
  <2>1. TAKE j \in D
  <2>2. ahead(j) \subseteq D \ {j}
    BY <1>4
  <2>3. /\ IsFiniteSet(D \ {j}) /\ Cardinality(D \ {j}) = n - 1
    BY <1>3, FS_RemoveElement
  <2> HIDE DEF ahead
  <2>4. Cardinality(ahead(j)) <= n - 1
    BY <2>2, <2>3, FS_Subset
  <2> QED BY <1>1, <1>5, <2>4
<1>7. \A i, j \in D : Less(i, j) => rank[i] < rank[j]
  <2>1. SUFFICES ASSUME NEW i \in D, NEW j \in D, Less(i, j)
                 PROVE  rank[i] < rank[j]
    OBVIOUS
  <2>2. i \notin ahead(i) /\ ahead(i) \cup {i} \subseteq ahead(j)
    BY <1>4, <2>1
  <2> HIDE DEF ahead
  <2>3. Cardinality(ahead(i) \cup {i}) = Cardinality(ahead(i)) + 1
    BY <1>5, <2>2, FS_AddElement
  <2>4. Cardinality(ahead(i) \cup {i}) <= Cardinality(ahead(j))
    BY <1>5, <2>2, FS_Subset
  <2> QED BY <1>5, <2>3, <2>4
<1>8. rank \in Bijection(D, D)
  <2>1. rank \in [D -> D]
    BY <1>6
  <2>2. \A i, j \in D : rank[i] = rank[j] => i = j
    <3> HIDE DEF rank
    <3>1. \A i \in D : rank[i] \in Int
      BY <1>1, <1>6
    <3> QED BY <1>4, <1>7, <3>1
  <2> HIDE DEF rank
  <2>3. rank \in Injection(D, D)
    BY <2>1, <2>2 DEF Injection, IsInjective
  <2>4. rank \in Surjection(D, D)
    BY <1>3, <2>3, FS_Injection
  <2> QED BY <2>3, <2>4 DEF Bijection
<1> DEFINE order == Inverse(rank, D, D)
<1> HIDE DEF rank
<1>9. /\ order \in Bijection(D, D)
      /\ \A j \in D : order[rank[j]] = j
  BY <1>8, Fun_BijInverse
<1> HIDE DEF order
<1>10. \A k \in D : order[k] \in D /\ rank[order[k]] = k
  <2>1. TAKE k \in D
  <2>2. PICK j \in D : rank[j] = k
    BY <1>8 DEF Bijection, Surjection
  <2> QED BY <1>9, <2>2
<1>11. \A k, l \in D : k < l => ~Before(sc, order[l], order[k])
  <2>1. SUFFICES ASSUME NEW k \in D, NEW l \in D, k < l
                 PROVE  ~Before(sc, order[l], order[k])
    OBVIOUS
  <2>2. /\ order[k] \in D /\ order[l] \in D
        /\ rank[order[k]] = k /\ rank[order[l]] = l
    BY <1>10
  <2>3. order[k] # order[l] /\ ~ (l < k)
    BY <1>1, <2>1, <2>2
  <2>4. Less(order[k], order[l])
    BY <1>4, <1>7, <2>2, <2>3
  <2> QED BY <1>4, <2>2, <2>4
<1> DEFINE Good(o) == o \in Bijection(D, D)
                        /\ \A k, l \in D : k < l => ~Before(sc, o[l], o[k])
<1>12. Good(order)
  BY <1>9, <1>11
<1>13. Sorted(sc) = CHOOSE o \in Bijection(D, D) :
                      \A k, l \in D : k < l => ~Before(sc, o[l], o[k])
  BY DEF Sorted, D
<1>14. Good(Sorted(sc))
  BY <1>12, <1>13
<1> QED BY <1>14 DEF D

-----------------------------------------------------------------------------
(* Memory, and the ids of runs                                             *)

\* Memory holds what is referred to, and no more.  A block may refer to another
\* as its key, which refers to none.
MemoryHeld ==
  /\ DOMAIN mem = Reachable(Roots, mem)
  /\ \A a \in DOMAIN mem :
       /\ mem[a] \in Block
       /\ mem[a].key # NULL =>
            mem[a].key \in DOMAIN mem /\ mem[mem[a].key].key = NULL

\* M has the images that were made of the frame's events: they have blocks,
\* their ids were taken from run_base, and none was taken for two.
MadeOf(M) ==
  /\ frame.out \in [DOMAIN frame.scene.active -> Seq(M)]
  /\ \A a \in M : a.src \in DOMAIN mem /\ a.run_id \in 0 .. frame.run_base
  /\ \A a, b \in M : a.run_id = b.run_id /\ a.run_id # 0
                       => <<a.of, a.type>> = <<b.of, b.type>>

\* While a frame is rendered its list is empty; afterwards the one before is.
FrameMade ==
  /\ frame = NoFrame => prev_images_root = <<>>
  /\ frame # NoFrame => /\ frame.scene \in Scenes
                        /\ frame.run_base \in Nat
                        /\ images_root = <<>>
                        /\ \E M : MadeOf(M)

\* The inductive invariant of what memory holds and of the ids.
AllHeld == MemoryHeld /\ FrameMade /\ RunIdsUnique

\* What is kept of memory is what is referred to.
LEMMA KeptHeld ==
  ASSUME MemoryHeld, NEW roots, roots \subseteq DOMAIN mem,
         mem' = Kept(roots, mem), Roots' = roots
  PROVE  MemoryHeld'
<1>1. /\ DOMAIN mem' = Reachable(roots, mem)
      /\ \A a \in Reachable(roots, mem) : mem'[a] = mem[a]
  BY DEF Kept
<1>2. roots \subseteq Reachable(roots, mem)
  BY DEF Reachable
<1>3. {mem'[a].key : a \in roots} = {mem[a].key : a \in roots}
  BY <1>1, <1>2
<1>4. Reachable(roots, mem') = Reachable(roots, mem)
  BY <1>3 DEF Reachable
<1>5. ASSUME NEW a \in Reachable(roots, mem)
      PROVE  /\ a \in DOMAIN mem /\ mem[a] \in Block
             /\ mem[a].key # NULL =>
                  /\ mem[a].key \in Reachable(roots, mem)
                  /\ mem[mem[a].key].key = NULL
  <2>1. CASE a \in roots
    BY <2>1 DEF MemoryHeld, Reachable
  <2>2. CASE a \notin roots
    <3>1. PICK b \in roots : a = mem[b].key /\ a # NULL
      BY <2>2 DEF Reachable
    <3> QED BY <3>1 DEF MemoryHeld
  <2> QED BY <2>1, <2>2
<1> QED BY <1>1, <1>4, <1>5 DEF MemoryHeld

\* All roots are in memory, and so is what they refer to.
LEMMA RootsHeld ==
  ASSUME MemoryHeld
  PROVE  Roots \subseteq DOMAIN mem
BY DEF MemoryHeld, Reachable

\* A block that is added is referred to, and refers to a block that does not.
LEMMA WithHeld ==
  ASSUME MemoryHeld, NEW a \in Free, NEW block \in Block,
         block.key # NULL => block.key \in DOMAIN mem /\ mem[block.key].key = NULL,
         mem' = With(a, block), Roots' = Roots \cup {a}
  PROVE  MemoryHeld'
<1>1. /\ DOMAIN mem' = DOMAIN mem \cup {a} /\ mem'[a] = block
      /\ \A x \in DOMAIN mem : x # a /\ mem'[x] = mem[x]
  BY WithNew
<1>2. Roots \subseteq DOMAIN mem
  BY RootsHeld
<1>3. Reachable(Roots', mem') = Reachable(Roots, mem) \cup {a}
  <2>1. Reachable(Roots', mem')
          = Roots \cup {a} \cup ({mem'[x].key : x \in Roots \cup {a}} \ {NULL})
    BY DEF Reachable
  <2>2. {mem'[x].key : x \in Roots \cup {a}}
          = {mem[x].key : x \in Roots} \cup {block.key}
    BY <1>1, <1>2
  <2>3. block.key \in Reachable(Roots, mem) \cup {NULL}
    BY DEF MemoryHeld
  <2> QED BY <2>1, <2>2, <2>3 DEF Reachable
<1>4. ASSUME NEW x \in DOMAIN mem'
      PROVE  /\ mem'[x] \in Block
             /\ mem'[x].key # NULL =>
                  mem'[x].key \in DOMAIN mem' /\ mem'[mem'[x].key].key = NULL
  <2>1. CASE x = a
    BY <1>1, <2>1
  <2>2. CASE x \in DOMAIN mem
    BY <1>1, <2>2 DEF MemoryHeld
  <2> QED BY <1>1, <2>1, <2>2
<1> QED BY <1>1, <1>3, <1>4 DEF MemoryHeld

\* Nothing of it changes with what it is not about.
LEMMA HeldUnchanged ==
  ASSUME AllHeld, UNCHANGED <<mem, bitmap_cache, composite_cache, lists, frame>>
  PROVE  AllHeld'
BY DEF AllHeld, MemoryHeld, FrameMade, MadeOf, RunIdsUnique, Roots, lists

\* The images of a frame stay when memory grows.
LEMMA MadeGrows ==
  ASSUME FrameMade, UNCHANGED <<lists, frame>>,
         DOMAIN mem \subseteq DOMAIN mem'
  PROVE  FrameMade'
<1>1. ASSUME NEW M, MadeOf(M) PROVE MadeOf(M)'
  BY <1>1 DEF MadeOf
<1> QED BY <1>1 DEF FrameMade, lists

\* The runs of a scene's event are runs of the scenes.
LEMMA RunsOfAll ==
  ASSUME NEW sc \in Scenes, NEW i \in DOMAIN sc.active
  PROVE  Event(sc, i).runs \in Seq(AllRuns)
BY ScenesAssumption DEF Event, AllEvents, Range_

\* So is the next run of an event that is being rendered.
LEMMA NextOfAll ==
  ASSUME FrameMade, FrameFits, NEW i, Running(i), NextRun(i) <= Len(Runs(i))
  PROVE  Runs(i)[NextRun(i)] \in AllRuns
<1>1. /\ frame # NoFrame /\ frame.scene \in Scenes
      /\ i \in DOMAIN frame.scene.active
  BY DEF Running, FrameMade, FrameFits
<1>2. Runs(i) \in Seq(AllRuns)
  BY <1>1, RunsOfAll DEF Runs
<1>3. frame.got[i] \in Seq(Addr \cup {NULL})
  BY <1>1 DEF FrameFits
<1>4. NextRun(i) \in 1 .. Len(Runs(i))
  BY <1>2, <1>3 DEF NextRun
<1> QED BY <1>2, <1>4

\* A frame starts without images, and holds the list before.
LEMMA HeldStartFrame ==
  ASSUME AllHeld, DrawnRight, NEW sc \in Scenes, StartFrame(sc)
  PROVE  AllHeld'
<1>1. PICK cs \in SUBSET EvictableComposites :
        \E bs \in SUBSET EvictableBitmaps(composite_cache \ cs) :
          Cut(composite_cache \ cs, bitmap_cache \ bs)
  BY DEF StartFrame
<1>2. PICK bs \in SUBSET EvictableBitmaps(composite_cache \ cs) :
        Cut(composite_cache \ cs, bitmap_cache \ bs)
  BY <1>1
<1>3. /\ images_root' = <<>> /\ prev_images_root' = images_root
      /\ frame' = [scene |-> sc, got |-> NoImages(sc), out |-> NoImages(sc),
                   todo |-> DOMAIN sc.active, run_base |-> 0]
  BY DEF StartFrame
<1> DEFINE roots == (composite_cache \ cs) \cup (bitmap_cache \ bs)
                      \cup Held(<<>>, images_root)
<1>4. /\ composite_cache' = composite_cache \ cs
      /\ bitmap_cache' = bitmap_cache \ bs
      /\ mem' = Kept(roots, mem)
  BY <1>2, <1>3 DEF Cut
<1>5. Roots' = roots
  BY <1>3, <1>4 DEF Roots
<1>6. roots \subseteq DOMAIN mem
  <2>1. Held(<<>>, images_root) \subseteq Roots
    BY DEF Held, Roots, Refs
  <2> QED BY <2>1, RootsHeld DEF AllHeld, Roots
<1> HIDE DEF roots
<1>7. MemoryHeld'
  BY <1>4, <1>5, <1>6, KeptHeld DEF AllHeld
<1>8. frame' # NoFrame
  BY <1>3, FrameIsSome
<1>9. MadeOf({})'
  BY <1>3 DEF MadeOf, NoImages
<1>10. FrameMade'
  BY <1>3, <1>8, <1>9 DEF FrameMade
<1>11. RunIdsUnique'
  BY <1>3 DEF RunIdsUnique
<1> QED BY <1>7, <1>10, <1>11 DEF AllHeld

\* What is rasterised has the look that is set.
LEMMA HeldRasterise ==
  ASSUME AllHeld, DrawnRight, NEW i, Rasterise(i)
  PROVE  AllHeld'
<1> DEFINE glyph == Runs(i)[NextRun(i)].glyph
           block == BitmapBlock(glyph, settings)
<1>1. PICK a \in Free : /\ mem' = With(a, block)
                        /\ bitmap_cache' = bitmap_cache \cup {a}
  BY DEF Rasterise
<1>2. UNCHANGED <<composite_cache, lists, frame>>
  BY DEF Rasterise
<1>3. Roots' = Roots \cup {a}
  BY <1>1, <1>2 DEF Roots, lists
<1>4. glyph \in Glyphs
  <2>1. Runs(i)[NextRun(i)] \in AllRuns
    BY NextOfAll DEF Rasterise, AllHeld, DrawnRight
  <2> QED BY <2>1 DEF Glyphs
<1>5. block \in Block /\ block.key = NULL
  BY <1>4 DEF BitmapBlock, Block, DrawnRight, SettingsType
<1> HIDE DEF block
<1>6. MemoryHeld'
  BY <1>1, <1>3, <1>5, WithHeld DEF AllHeld
<1>7. FrameMade'
  BY <1>1, <1>2, WithNew, MadeGrows DEF AllHeld
<1> QED BY <1>2, <1>6, <1>7 DEF AllHeld, RunIdsUnique, lists

\* A composite refers to a bitmap that can be found.
LEMMA HeldCombine ==
  ASSUME AllHeld, DrawnRight, NEW i, Combine(i)
  PROVE  AllHeld'
<1>1. PICK b \in BitmapOf(Runs(i)[NextRun(i)].glyph), a \in Free :
        /\ mem' = With(a, CompositeBlock(b, settings, mem))
        /\ composite_cache' = composite_cache \cup {a}
  BY DEF Combine
<1> DEFINE block == CompositeBlock(b, settings, mem)
<1>2. UNCHANGED <<bitmap_cache, lists, frame>>
  BY DEF Combine
<1>3. Roots' = Roots \cup {a}
  BY <1>1, <1>2 DEF Roots, lists
<1>4. /\ b \in Addr /\ b \in DOMAIN mem
      /\ mem[b] = BitmapBlock(mem[b].glyph, settings)
  BY DEF BitmapOf, DrawnRight, Fresh
<1>5. mem[b] \in Block /\ mem[b].key = NULL
  BY <1>4 DEF BitmapBlock, AllHeld, MemoryHeld
<1>6. settings.blur_deferred \in BOOLEAN
  BY DEF DrawnRight, SettingsType
<1>7. block \in Block /\ block.key = b
  BY <1>4, <1>5, <1>6 DEF CompositeBlock, Block
<1> HIDE DEF block
<1>8. MemoryHeld'
  BY <1>1, <1>3, <1>4, <1>5, <1>7, WithHeld DEF AllHeld, block
<1>9. FrameMade'
  BY <1>1, <1>2, WithNew, MadeGrows DEF AllHeld
<1> QED BY <1>2, <1>8, <1>9 DEF AllHeld, RunIdsUnique, lists

\* Taking a source makes no image yet.
LEMMA HeldGetSource ==
  ASSUME AllHeld, DrawnRight, NEW i, GetSource(i)
  PROVE  AllHeld'
<1>1. PICK src : Take(i, src)
  BY DEF GetSource
<1>2. UNCHANGED <<mem, bitmap_cache, composite_cache, lists>>
  BY DEF GetSource, caches
<1>3. /\ frame # NoFrame
      /\ frame = [scene |-> frame.scene, got |-> frame.got, out |-> frame.out,
                  todo |-> frame.todo, run_base |-> frame.run_base]
  BY DEF DrawnRight, FrameFits, GetSource, Running
<1> DEFINE got2 == [frame.got EXCEPT ![i] = Append(frame.got[i], src)]
<1>4. frame' = [scene |-> frame.scene, got |-> got2, out |-> frame.out,
                todo |-> frame.todo, run_base |-> frame.run_base]
  BY <1>1, <1>3 DEF Take
<1> HIDE DEF got2
<1>5. frame' # NoFrame
  BY <1>4, FrameIsSome
<1>6. /\ frame'.scene = frame.scene /\ frame'.out = frame.out
      /\ frame'.run_base = frame.run_base
  BY <1>4
<1>7. ASSUME NEW M, MadeOf(M) PROVE MadeOf(M)'
  BY <1>2, <1>6, <1>7 DEF MadeOf
<1>8. FrameMade'
  BY <1>2, <1>3, <1>5, <1>6, <1>7 DEF AllHeld, FrameMade, lists
<1> QED BY <1>2, <1>8 DEF AllHeld, MemoryHeld, RunIdsUnique, Roots, lists

\* The images that an event is drawn as: what was taken for its runs, with ids
\* beyond those of the events before, each for one run and one layer.
LEMMA ImagesMade ==
  ASSUME FrameMade, FrameFits, NEW i, Running(i), NextRun(i) > Len(Runs(i))
  PROVE  LET reserved == Reserved(Len(Runs(i))) IN
         /\ reserved \in Nat
         /\ \E S : /\ Images(i) \in Seq(S)
                   /\ \A a \in S :
                        /\ a.src \in DOMAIN mem
                        /\ a.run_id \in 0 .. frame.run_base + reserved
                        /\ a.run_id # 0 => a.run_id > frame.run_base
                   /\ \A a, b \in S : a.run_id = b.run_id /\ a.run_id # 0
                                        => <<a.of, a.type>> = <<b.of, b.type>>
<1> DEFINE n == Len(Runs(i))
           base == frame.run_base
           got == frame.got[i]
           Id(r, k) == IF Deferred(Runs(i)[r]) THEN base + k + r ELSE 0
           R == {r \in 1 .. n : got[r] # NULL}
           shadow(r) == ImageOf(i, r, "shadow", Id(r, n))
           fill(r) == ImageOf(i, r, "fill", Id(r, 0))
           S == {shadow(r) : r \in R} \cup {fill(r) : r \in R}
           all == [r \in 1 .. n |-> r]
           drawn == Those(all, LAMBDA r : frame.got[i][r] # NULL)
           shadows == Those(drawn, LAMBDA r : Runs(i)[r].shadow)
<1>1. /\ frame # NoFrame /\ frame.scene \in Scenes /\ base \in Nat
      /\ i \in DOMAIN frame.scene.active
  BY DEF Running, FrameMade, FrameFits
<1>2. n \in Nat
  <2>1. Runs(i) \in Seq(AllRuns)
    BY <1>1, RunsOfAll DEF Runs
  <2> QED BY <2>1
<1>3. /\ got \in Seq(Addr \cup {NULL}) /\ 1 .. n \subseteq DOMAIN got
  <2>1. got \in Seq(Addr \cup {NULL})
    BY <1>1 DEF FrameFits
  <2>2. Len(got) + 1 > n
    BY DEF NextRun
  <2> QED BY <1>2, <2>1, <2>2
<1>4. \A r \in R : got[r] \in DOMAIN mem
  BY <1>1, <1>3 DEF FrameFits, Fits
<1>5. /\ all \in Seq(1 .. n)
  BY <1>2
<1>6. drawn \in Seq(R)
  <2> DEFINE f == [k \in DOMAIN all |-> IF got[all[k]] # NULL THEN <<all[k]>> ELSE <<>>]
  <2>1. ASSUME NEW k \in 1 .. n
        PROVE  (IF got[k] # NULL THEN <<k>> ELSE <<>>) \in Seq(R)
    <3>1. CASE got[k] # NULL
      <4>1. k \in R
        BY <3>1
      <4> HIDE DEF R, got
      <4>2. <<k>> \in Seq(R)
        BY <4>1
      <4> QED BY <3>1, <4>2
    <3>2. CASE got[k] = NULL
      <4> HIDE DEF R, got
      <4> QED BY <3>2
    <3> QED BY <3>1, <3>2
  <2>2. f = [k \in 1 .. n |-> IF got[k] # NULL THEN <<k>> ELSE <<>>]
    OBVIOUS
  <2> HIDE DEF f, R
  <2>3. f \in Seq(Seq(R))
    BY <1>2, <2>1, <2>2
  <2>4. FlattenSeq(f) \in Seq(R)
    BY <2>3, FlattenTyped
  <2>5. drawn = FlattenSeq(f)
    BY DEF Those, f
  <2> QED BY <2>4, <2>5
<1> HIDE DEF drawn, R
<1>7. shadows \in Seq(R)
  <2> DEFINE f == [k \in DOMAIN drawn |-> IF Runs(i)[drawn[k]].shadow
                                          THEN <<drawn[k]>> ELSE <<>>]
  <2>1. \A k \in DOMAIN drawn : <<drawn[k]>> \in Seq(R) /\ <<>> \in Seq(R)
    BY <1>6
  <2>2. \A k \in DOMAIN drawn : f[k] \in Seq(R)
    BY <2>1
  <2>3. DOMAIN f = 1 .. Len(drawn) /\ Len(drawn) \in Nat
    BY <1>6
  <2>4. f = [k \in 1 .. Len(drawn) |-> f[k]]
    BY <2>3
  <2>5. \A k \in 1 .. Len(drawn) : f[k] \in Seq(R)
    BY <2>2, <2>3
  <2> HIDE DEF f
  <2>6. f \in Seq(Seq(R))
    BY <2>3, <2>4, <2>5
  <2>7. FlattenSeq(f) \in Seq(R)
    BY <2>6, FlattenTyped
  <2>8. shadows = FlattenSeq(f)
    BY DEF Those, f
  <2> QED BY <2>7, <2>8
<1> HIDE DEF shadows
<1>8. Images(i) \in Seq(S)
  <2> DEFINE s == [k \in DOMAIN shadows |-> shadow(shadows[k])]
             t == [k \in DOMAIN drawn |-> fill(drawn[k])]
  <2>1. Images(i) = s \o t
    BY DEF Images, drawn, shadows
  <2> HIDE DEF shadow, fill
  <2>2. s \in Seq(S)
    BY <1>7
  <2>3. t \in Seq(S)
    BY <1>6
  <2> HIDE DEF s, t, S
  <2> QED BY <2>1, <2>2, <2>3
<1>9. Reserved(n) = 2 * n + 1 /\ Reserved(n) \in Nat
  BY <1>2 DEF Reserved
<1>10. ASSUME NEW r \in R
       PROVE  /\ shadow(r).src = got[r] /\ shadow(r).run_id = Id(r, n)
              /\ shadow(r).of = <<i, r>> /\ shadow(r).type = "shadow"
              /\ fill(r).src = got[r] /\ fill(r).run_id = Id(r, 0)
              /\ fill(r).of = <<i, r>> /\ fill(r).type = "fill"
              /\ r \in 1 .. n
  BY DEF ImageOf, R
<1>11. ASSUME NEW r \in 1 .. n
       PROVE  /\ Id(r, n) \in 0 .. base + Reserved(n) /\ Id(r, 0) \in 0 .. base + Reserved(n)
              /\ Id(r, n) # 0 => Id(r, n) = base + n + r
              /\ Id(r, 0) # 0 => Id(r, 0) = base + r
  BY <1>1, <1>2, <1>9
<1> HIDE DEF shadow, fill, Id
<1>12. ASSUME NEW a \in S
       PROVE  /\ a.src \in DOMAIN mem
              /\ a.run_id \in 0 .. base + Reserved(n)
              /\ a.run_id # 0 => a.run_id > base
  <2>1. PICK r \in R : a = shadow(r) \/ a = fill(r)
    OBVIOUS
  <2>2. r \in 1 .. n
    BY <1>10
  <2> QED BY <1>1, <1>2, <1>4, <1>10, <1>11, <2>1, <2>2
<1>13. ASSUME NEW a \in S, NEW b \in S, a.run_id = b.run_id, a.run_id # 0
       PROVE  <<a.of, a.type>> = <<b.of, b.type>>
  <2>1. PICK r \in R : a = shadow(r) \/ a = fill(r)
    OBVIOUS
  <2>2. PICK q \in R : b = shadow(q) \/ b = fill(q)
    OBVIOUS
  <2>3. r \in 1 .. n /\ q \in 1 .. n
    BY <1>10
  <2>4. CASE a = shadow(r) /\ b = shadow(q)
    BY <1>1, <1>2, <1>10, <1>11, <1>13, <2>3, <2>4
  <2>5. CASE a = shadow(r) /\ b = fill(q)
    BY <1>1, <1>2, <1>10, <1>11, <1>13, <2>3, <2>5
  <2>6. CASE a = fill(r) /\ b = shadow(q)
    BY <1>1, <1>2, <1>10, <1>11, <1>13, <2>3, <2>6
  <2>7. CASE a = fill(r) /\ b = fill(q)
    BY <1>1, <1>2, <1>10, <1>11, <1>13, <2>3, <2>7
  <2> QED BY <2>1, <2>2, <2>4, <2>5, <2>6, <2>7
<1> HIDE DEF S, n
<1> QED BY <1>8, <1>9, <1>12, <1>13 DEF n

\* A list of images goes into a larger set of them.
LEMMA SeqGrows ==
  ASSUME NEW S, NEW T, S \subseteq T, NEW s \in Seq(S)
  PROVE  s \in Seq(T)
OBVIOUS

\* The ids of an event are its own, in whatever order events are done.
LEMMA HeldRenderText ==
  ASSUME AllHeld, DrawnRight, NEW i, RenderText(i)
  PROVE  AllHeld'
<1> DEFINE reserved == Reserved(Len(Runs(i)))
           out2 == [frame.out EXCEPT ![i] = Images(i)]
           base2 == frame.run_base + reserved
<1>1. /\ FrameMade /\ FrameFits /\ Running(i) /\ NextRun(i) > Len(Runs(i))
      /\ frame # NoFrame /\ i \in DOMAIN frame.scene.active
      /\ frame.run_base \in Nat
      /\ frame = [scene |-> frame.scene, got |-> frame.got, out |-> frame.out,
                  todo |-> frame.todo, run_base |-> frame.run_base]
  BY DEF RenderText, AllHeld, DrawnRight, Running, FrameFits, FrameMade
<1>2. UNCHANGED <<mem, bitmap_cache, composite_cache, lists>>
  BY DEF RenderText, caches
<1>3. frame' = [scene |-> frame.scene, got |-> frame.got, out |-> out2,
                todo |-> frame.todo \ {i}, run_base |-> base2]
  BY <1>1 DEF RenderText
<1>4. PICK S : /\ Images(i) \in Seq(S)
               /\ \A a \in S : /\ a.src \in DOMAIN mem
                               /\ a.run_id \in 0 .. base2
                               /\ a.run_id # 0 => a.run_id > frame.run_base
               /\ \A a, b \in S : a.run_id = b.run_id /\ a.run_id # 0
                                    => <<a.of, a.type>> = <<b.of, b.type>>
  BY <1>1, ImagesMade
<1>5. reserved \in Nat
  BY <1>1, ImagesMade
<1>6. PICK M : MadeOf(M)
  BY <1>1 DEF FrameMade
<1> HIDE DEF reserved
<1>7. out2 \in [DOMAIN frame.scene.active -> Seq(M \cup S)]
  <2>1. Images(i) \in Seq(M \cup S)
    BY <1>4, SeqGrows
  <2>2. \A j \in DOMAIN frame.scene.active : frame.out[j] \in Seq(M \cup S)
    BY <1>6, SeqGrows DEF MadeOf
  <2>3. DOMAIN frame.out = DOMAIN frame.scene.active
    BY <1>6 DEF MadeOf
  <2>4. out2 = [j \in DOMAIN frame.scene.active |->
                  IF j = i THEN Images(i) ELSE frame.out[j]]
    BY <1>6 DEF MadeOf
  <2> QED BY <2>1, <2>2, <2>4
<1> HIDE DEF out2
<1>8. \A a \in M \cup S : a.src \in DOMAIN mem /\ a.run_id \in 0 .. base2
  <2>1. \A a \in M : a.run_id \in 0 .. frame.run_base /\ a.src \in DOMAIN mem
    BY <1>6 DEF MadeOf
  <2> QED BY <1>1, <1>4, <1>5, <2>1
<1>9. ASSUME NEW a \in M \cup S, NEW b \in M \cup S,
             a.run_id = b.run_id, a.run_id # 0
      PROVE  <<a.of, a.type>> = <<b.of, b.type>>
  <2>1. \A x \in M : x.run_id \in 0 .. frame.run_base
    BY <1>6 DEF MadeOf
  <2>2. \A x \in S : x.run_id # 0 => ~ (x.run_id \in 0 .. frame.run_base)
    BY <1>1, <1>4
  <2>3. CASE a \in M
    <3>1. b \in M
      BY <1>9, <2>1, <2>2, <2>3
    <3> QED BY <1>6, <1>9, <2>3, <3>1 DEF MadeOf
  <2>4. CASE a \in S
    <3>1. b \in S
      BY <1>9, <2>1, <2>2, <2>4
    <3> QED BY <1>4, <1>9, <2>4, <3>1
  <2> QED BY <2>3, <2>4
<1>10. base2 \in Nat
  BY <1>1, <1>5
<1> HIDE DEF base2
<1>11. /\ frame'.scene = frame.scene /\ frame'.out = out2
       /\ frame'.run_base = base2 /\ frame' # NoFrame
  BY <1>3, FrameIsSome
<1>12. MadeOf(M \cup S)'
  BY <1>2, <1>7, <1>8, <1>9, <1>11 DEF MadeOf
<1>13. FrameMade'
  BY <1>1, <1>2, <1>10, <1>11, <1>12 DEF FrameMade, lists
<1> QED BY <1>2, <1>13 DEF AllHeld, MemoryHeld, RunIdsUnique, Roots, lists

\* The list that is returned is put together from what was made.
LEMMA ListOfMade ==
  ASSUME NEW sc \in Scenes, NEW M, NEW out \in [DOMAIN sc.active -> Seq(M)]
  PROVE  Concatenated(sc, out) \in Seq(M)
<1> DEFINE D == DOMAIN sc.active
           lst == [k \in D |-> out[Sorted(sc)[k]]]
           all == FlattenSeq(lst)
           shown(img) == settings.composite_deferred \/ ~img.transparent
           f == [k \in DOMAIN all |-> IF shown(all[k]) THEN <<all[k]>> ELSE <<>>]
<1>1. Len(sc.active) \in Nat /\ D = 1 .. Len(sc.active)
  BY ScenesAssumption
<1>2. \A k \in D : Sorted(sc)[k] \in D
  <2>1. Sorted(sc) \in Bijection(D, D)
    BY SortedSorts
  <2> HIDE DEF D
  <2> QED BY <2>1 DEF Bijection, Injection
<1>3. lst \in Seq(Seq(M))
  <2>1. \A k \in D : out[Sorted(sc)[k]] \in Seq(M)
    BY <1>2
  <2> HIDE DEF D
  <2> QED BY <1>1, <2>1
<1> HIDE DEF lst
<1>4. all \in Seq(M)
  BY <1>3, FlattenTyped
<1> HIDE DEF all, shown
<1>5. f \in Seq(Seq(M))
  <2>1. \A k \in DOMAIN all : <<all[k]>> \in Seq(M) /\ <<>> \in Seq(M)
    BY <1>4
  <2>2. \A k \in DOMAIN all : f[k] \in Seq(M)
    BY <2>1
  <2>3. DOMAIN f = 1 .. Len(all) /\ Len(all) \in Nat
    BY <1>4
  <2>4. f = [k \in 1 .. Len(all) |-> f[k]]
    BY <2>3
  <2>5. \A k \in 1 .. Len(all) : f[k] \in Seq(M)
    BY <2>2, <2>3
  <2> HIDE DEF f
  <2> QED BY <2>3, <2>4, <2>5
<1>6. Concatenated(sc, out) = FlattenSeq(f)
  BY DEF Concatenated, Those, f, shown, all, lst
<1> HIDE DEF f
<1> QED BY <1>5, <1>6, FlattenTyped

\* The list that is returned keeps its blocks.
LEMMA HeldEndFrame ==
  ASSUME AllHeld, DrawnRight, EndFrame
  PROVE  AllHeld'
<1> DEFINE images == Concatenated(frame.scene, frame.out)
           roots == bitmap_cache \cup composite_cache \cup Refs(images)
<1>1. /\ images_root' = images /\ prev_images_root' = <<>>
      /\ mem' = Kept(roots, mem) /\ frame' = NoFrame
      /\ UNCHANGED <<bitmap_cache, composite_cache>>
  BY DEF EndFrame, Finish, caches
<1>2. PICK M : MadeOf(M)
  BY DEF EndFrame, AllHeld, FrameMade
<1>3. images \in Seq(M)
  BY <1>2, ListOfMade DEF EndFrame, AllHeld, FrameMade, MadeOf
<1> HIDE DEF images
<1>4. \A k \in DOMAIN images : images[k] \in M
  BY <1>3
<1>5. Refs(images) \subseteq DOMAIN mem
  BY <1>2, <1>4 DEF Refs, MadeOf
<1>6. roots \subseteq DOMAIN mem
  BY <1>5, RootsHeld DEF AllHeld, Roots
<1>7. Roots' = roots
  BY <1>1 DEF Roots, Held, Refs
<1> HIDE DEF roots
<1>8. MemoryHeld'
  BY <1>1, <1>6, <1>7, KeptHeld DEF AllHeld
<1>9. FrameMade'
  BY <1>1 DEF FrameMade
<1>10. RunIdsUnique'
  BY <1>1, <1>2, <1>4 DEF RunIdsUnique, MadeOf
<1> QED BY <1>8, <1>9, <1>10 DEF AllHeld

\* What is emptied leaves memory, unless an image refers to it.
LEMMA HeldEmptied ==
  ASSUME AllHeld, Idle, UNCHANGED <<lists, frame>>,
         NEW bs \in SUBSET bitmap_cache, NEW cs \in SUBSET composite_cache,
         Emptied(bs, cs)
  PROVE  AllHeld'
<1> DEFINE roots == bs \cup cs \cup Refs(images_root)
<1>1. prev_images_root = <<>>
  BY DEF AllHeld, FrameMade, Idle
<1>2. /\ bitmap_cache' = bs /\ composite_cache' = cs /\ mem' = Kept(roots, mem)
  BY DEF Emptied
<1>3. Roots' = roots
  BY <1>1, <1>2 DEF Roots, Held, Refs, lists
<1>4. roots \subseteq DOMAIN mem
  BY RootsHeld DEF AllHeld, Roots, Held
<1> HIDE DEF roots
<1>5. MemoryHeld'
  BY <1>2, <1>3, <1>4, KeptHeld DEF AllHeld
<1> QED BY <1>1, <1>5 DEF AllHeld, FrameMade, RunIdsUnique, Idle, lists

\* Each setter empties some of the caches.
LEMMA HeldSettings ==
  ASSUME AllHeld,
         \/ Reconfigure \/ SetFonts \/ SetBlurDeferred
         \/ SetCompositeDeferred \/ SetOutlineDeferred
  PROVE  AllHeld'
<1>1. Idle /\ UNCHANGED <<lists, frame>>
  BY DEF Reconfigure, SetFonts, SetBlurDeferred, SetCompositeDeferred,
         SetOutlineDeferred
<1>2. PICK bs \in {bitmap_cache, {}}, cs \in {composite_cache, {}} : Emptied(bs, cs)
  BY DEF Reconfigure, SetFonts, SetBlurDeferred, SetCompositeDeferred,
         SetOutlineDeferred
<1> QED BY <1>1, <1>2, HeldEmptied

\* Every step leaves memory with what is referred to.
LEMMA HeldNext == ASSUME AllHeld, DrawnRight, [Next]_vars PROVE AllHeld'
<1>1. CASE \E n \in ThreadCounts : SetThreadCount(n)
  BY <1>1, HeldUnchanged DEF SetThreadCount, PoolStep, caches
<1>2. CASE BuildContext \/ AbandonContexts
  BY <1>2, HeldUnchanged DEF BuildContext, AbandonContexts, PoolStep, caches
<1>3. CASE CreatePool
  BY <1>3, HeldUnchanged DEF CreatePool, PoolStep, caches
<1>4. CASE \E sc \in Scenes : FailedFrame(sc)
  BY <1>4, HeldUnchanged DEF FailedFrame, caches
<1>5. CASE \E sc \in Scenes : StartFrame(sc) BY <1>5, HeldStartFrame
<1>6. CASE \E i \in frame.todo :
             Rasterise(i) \/ Combine(i) \/ GetSource(i) \/ RenderText(i)
  BY <1>6, HeldRasterise, HeldCombine, HeldGetSource, HeldRenderText
<1>7. CASE EndFrame BY <1>7, HeldEndFrame
<1>8. CASE \/ Reconfigure \/ SetFonts \/ SetBlurDeferred
           \/ SetCompositeDeferred \/ SetOutlineDeferred
  BY <1>8, HeldSettings
<1>9. CASE UNCHANGED vars BY <1>9, HeldUnchanged DEF vars, caches
<1> QED BY <1>1, <1>2, <1>3, <1>4, <1>5, <1>6, <1>7, <1>8, <1>9 DEF Next

\* A renderer starts with nothing in memory.
LEMMA HeldInit == ASSUME Init PROVE AllHeld
BY DEF Init, AllHeld, MemoryHeld, FrameMade, RunIdsUnique, Roots, Reachable,
       Held, Refs

\* render_text: runs of a frame have different ids, in whatever order the tasks
\* of its events come to reserve theirs.
THEOREM IdsAreUnique == Spec => []RunIdsUnique
<1>1. AllHeld /\ DrawnRight /\ [Next]_vars => AllHeld'
  BY HeldNext
<1>2. AllHeld => RunIdsUnique
  BY DEF AllHeld
<1> QED BY <1>1, <1>2, HeldInit, DrawnInit, DrawnNext, PTL DEF Spec

\* What there is besides.
Rest == fontselect \in BOOLEAN /\ calls \in 0 .. MaxFrames /\ report.change \in 0 .. 2

LEMMA RestNext == ASSUME Rest, Reported, [Next]_vars PROVE Rest'
<1>1. MaxFrames \in Nat
  BY FramesAssumption
<1>2. CASE \E n \in ThreadCounts : SetThreadCount(n)
  BY <1>2 DEF Rest, SetThreadCount, PoolStep
<1>3. CASE BuildContext \/ AbandonContexts \/ CreatePool
  BY <1>3 DEF Rest, BuildContext, AbandonContexts, CreatePool, PoolStep
<1>4. ASSUME NEW sc \in Scenes, FailedFrame(sc)
      PROVE  Rest'
  <2>1. report' = [change |-> 2, was |-> report.was, is |-> report.is,
                   before |-> report.returned, returned |-> <<>>,
                   started |-> FALSE]
    BY <1>4 DEF FailedFrame, Reported
  <2>2. report'.change = 2
    BY <2>1
  <2> QED BY <1>1, <1>4, <2>2 DEF Rest, FailedFrame
<1>5. CASE \E sc \in Scenes : StartFrame(sc)
  BY <1>1, <1>5 DEF Rest, StartFrame
<1>6. CASE \E i \in frame.todo :
             Rasterise(i) \/ Combine(i) \/ GetSource(i) \/ RenderText(i)
  BY <1>6 DEF Rest, Rasterise, Combine, GetSource, RenderText
<1>7. CASE EndFrame
  <2>1. PICK images : Finish(images)
    BY <1>7 DEF EndFrame
  <2>2. report'.change = DetectChange(prev_images_root, images)
    BY <2>1 DEF Finish
  <2>3. report'.change \in 0 .. 2
    BY <2>2, DetectSays
  <2> QED BY <1>7, <2>3 DEF Rest, EndFrame
<1>8. CASE \/ Reconfigure \/ SetFonts \/ SetBlurDeferred
           \/ SetCompositeDeferred \/ SetOutlineDeferred
  BY <1>8 DEF Rest, Reconfigure, SetFonts, SetBlurDeferred,
              SetCompositeDeferred, SetOutlineDeferred
<1>9. CASE UNCHANGED vars BY <1>9 DEF Rest, vars
<1> QED BY <1>2, <1>3, <1>4, <1>5, <1>6, <1>7, <1>8, <1>9 DEF Next

\* ass_cache_cut, ass_cache_empty, ass_free_images: memory holds the bitmaps
\* and composites that a cache, a list or a composite refers to, and no others;
\* and all else has its type.
THEOREM TypeCorrect == Spec => []TypeOK
<1> DEFINE I == AllHeld /\ DrawnRight /\ PoolBooks /\ Reported /\ Rest
<1>1. Init => I
  <2>1. Init => Rest
    <3> SUFFICES ASSUME Init PROVE Rest
      OBVIOUS
    <3>1. /\ fontselect = FALSE /\ calls = 0
          /\ report = [change |-> 2, was |-> <<>>, is |-> <<>>, before |-> <<>>,
                       returned |-> <<>>, started |-> FALSE]
      BY DEF Init
    <3>2. report.change = 2
      BY <3>1
    <3>3. calls \in 0 .. MaxFrames
      BY <3>1, FramesAssumption
    <3>4. report.change \in 0 .. 2
      BY <3>2
    <3>5. fontselect \in BOOLEAN
      BY <3>1
    <3> QED BY <3>3, <3>4, <3>5, Zenon DEF Rest
  <2> QED BY <2>1, HeldInit, DrawnInit, BooksInit, ReportedInit
<1>2. I /\ [Next]_vars => I'
  BY HeldNext, DrawnNext, BooksNext, ReportedNext, RestNext DEF DrawnRight
<1>3. I => TypeOK
  <2> SUFFICES ASSUME I PROVE TypeOK
    OBVIOUS
  <2>1. Roots \subseteq DOMAIN mem /\ DOMAIN mem = Reachable(Roots, mem)
        /\ \A a \in DOMAIN mem : mem[a] \in Block
    BY RootsHeld DEF AllHeld, MemoryHeld
  <2>2. frame # NoFrame => frame.todo \subseteq DOMAIN frame.scene.active
    BY DEF DrawnRight, FrameFits
  <2>3. /\ settings \in [look : Looks, sized : BOOLEAN, blur_deferred : BOOLEAN,
                         composite_deferred : BOOLEAN, outline_deferred : BOOLEAN]
    BY DEF DrawnRight, SettingsType
  <2>4. pool.worker_ctx \subseteq Nat /\ pool.n_threads \in Nat /\ pool.alive \in Nat
    BY DEF PoolBooks, BooksOf, PoolType
  <2> QED BY <2>1, <2>2, <2>3, <2>4 DEF TypeOK, Rest
<1> HIDE DEF I
<1> QED BY <1>1, <1>2, <1>3, PTL DEF Spec
=============================================================================
