------------------------------- MODULE Cache ---------------------------------
(***************************************************************************)
(* libass/ass_cache.c: the reference-counted caches, together with the     *)
(* threads that use them: render workers during a frame, the thread that   *)
(* drives the renderer between frames, and a consumer that keeps frames    *)
(* alive with ass_frame_ref() and lets them go with ass_frame_unref().     *)
(*                                                                         *)
(* An item is known by its slot (its address).  Its key refers to other    *)
(* items (a bitmap to its outline, a border to the outline it strokes, an  *)
(* outline to its font), and the key holds a reference to each of them.    *)
(* What a thread is in the middle of is a stack of pending operations, so  *)
(* that destroying an item can drop the items its key refers to.  A shard  *)
(* of a cache stands for all of them; code under a shard's mutex is one    *)
(* step, the atomic decrement before it is another.                        *)
(***************************************************************************)
EXTENDS Integers, Sequences, FiniteSets, SequencesExt

CONSTANTS
  Keys,        \* what is looked up: fonts, outlines, bitmaps, composites
  CacheOf,     \* [Keys -> Caches], the cache a key belongs to
  Uses,        \* [Keys -> SUBSET Keys], what the key refers to (acyclic)
  Bucket,      \* [Keys -> Buckets], the hash chain of a key
  Drawable,    \* keys an image can be drawn from
  Teardown,    \* every cache, in the order ass_renderer_done empties them
  Limited,     \* the caches cut at the start of a frame, in order
  Flushes,     \* which caches, in order, the calls that change settings empty
  MaxSize,     \* items a cache may keep at the start of a frame
  Workers,     \* threads rendering events during a frame
  Driver,      \* the thread that calls ass_render_frame
  Consumer,    \* the thread that calls ass_frame_unref
  Slots,       \* addresses of items (bounds the items that exist at once)
  Frames,      \* image lists (bounds the frames that exist at once)
  MaxHeld,     \* bound on the references the consumer takes to one frame
  MayFail,     \* may an allocation fail?
  Serialised   \* is ass_frame_unref kept from running during cut and empty?

Caches  == Range(Teardown)
Buckets == Range(Bucket)
Threads == Workers \cup {Driver, Consumer}

CONSTANT None  \* no item, no frame

ASSUME KeysAssumption ==
  /\ CacheOf \in [Keys -> Caches]
  /\ Uses \in [Keys -> SUBSET Keys]
  /\ Bucket \in [Keys -> Buckets]
  /\ Drawable \subseteq Keys
  /\ \A k, l \in Keys : Bucket[k] = Bucket[l] => CacheOf[k] = CacheOf[l]
  /\ Teardown \in Seq(Caches)
  /\ Limited \in Seq(Caches) /\ Flushes \subseteq Seq(Caches)
  /\ IsFiniteSet(Keys)
  /\ \E height \in [Keys -> 0 .. Cardinality(Keys)] :
       \A k \in Keys : \A d \in Uses[k] : height[d] < height[k]

ASSUME BoundsAssumption ==
  /\ MaxSize \in Nat /\ MaxHeld \in Nat
  /\ MayFail \in BOOLEAN /\ Serialised \in BOOLEAN
  /\ IsFiniteSet(Slots) /\ IsFiniteSet(Frames) /\ IsFiniteSet(Workers)
  /\ None \notin Slots \cup Frames
  /\ Driver \notin Workers /\ Consumer \notin Workers /\ Driver # Consumer

VARIABLES
  item,        \* [Slots -> Item]: the CacheItems and their keys
  chain,       \* [Buckets -> Seq(Slots)]: the hash chains, newest first
  queue,       \* [Caches -> Seq(Slots)]: the LRU queues, oldest first
  cache_size,  \* [Caches -> Int]
  todo,        \* per thread, its pending operations, the next one last
  got,         \* [Workers -> [Keys -> Slots \cup {None}]]: this frame's items
  images,      \* the images drawn so far in the frame being rendered
  frame,       \* [Frames -> [refs, images]]: image lists
  images_root, \* the list returned last, or None
  prev_images_root,
  held,        \* [Frames -> Nat]: references the consumer has
  phase        \* "between" frames, in a "frame", "closing" or "gone"

caches   == <<item, chain, queue, cache_size>>
lists    == <<images, frame, images_root, prev_images_root, held>>
vars     == <<caches, todo, got, lists, phase>>

\* shard: does the item still belong to its shard (item->shard # NULL)?
Item == [live : BOOLEAN, key : Keys \cup {None}, uses : SUBSET Slots,
         ref_count : Int, shard : BOOLEAN]
Unallocated == [live |-> FALSE, key |-> None, uses |-> {},
                ref_count |-> 0, shard |-> FALSE]

Image == Workers \X Slots          \* who drew it, and its source
List  == [refs : Nat, images : SUBSET Image]
NoList == [refs |-> 0, images |-> {}]

\* A pending operation and the item, cache, key or frame it is about.
Ops == [op : {"dec", "zero", "destruct", "orphan", "evict", "walk"},
        x : Slots \cup {None}]
       \cup [op : {"cut", "empty"}, x : Caches]
       \cup [op : {"lookup", "build"}, x : Keys]
       \cup [op : {"publish"}, x : Slots]
       \cup [op : {"unref", "release"}, x : Frames]
Op(o, x) == [op |-> o, x |-> x]

TypeOK ==
  /\ item \in [Slots -> Item]
  /\ chain \in [Buckets -> Seq(Slots)]
  /\ queue \in [Caches -> Seq(Slots)]
  /\ cache_size \in [Caches -> Nat]
  /\ todo \in [Threads -> Seq(Ops)]
  /\ got \in [Workers -> [Keys -> Slots \cup {None}]]
  /\ images \in SUBSET Image
  /\ frame \in [Frames -> List]
  /\ images_root \in Frames \cup {None}
  /\ prev_images_root \in Frames \cup {None}
  /\ held \in [Frames -> 0 .. MaxHeld]
  /\ phase \in {"between", "frame", "closing", "gone"}

Nothing == [k \in Keys |-> None]

Init ==
  /\ item = [s \in Slots |-> Unallocated]
  /\ chain = [b \in Buckets |-> <<>>]
  /\ queue = [c \in Caches |-> <<>>]
  /\ cache_size = [c \in Caches |-> 0]
  /\ todo = [t \in Threads |-> <<>>]
  /\ got = [w \in Workers |-> Nothing]
  /\ images = {}
  /\ frame = [f \in Frames |-> NoList]
  /\ images_root = None /\ prev_images_root = None
  /\ held = [f \in Frames |-> 0]
  /\ phase = "between"

-----------------------------------------------------------------------------
(* Pending operations                                                      *)

Idle(t) == todo[t] = <<>>
Doing(t, o) == ~Idle(t) /\ Last(todo[t]).op = o
Subject(t) == Last(todo[t]).x
Pending(t, o, x) == \E i \in DOMAIN todo[t] : todo[t][i].op = o /\ todo[t][i].x = x

\* The operation t was on is replaced by ops, the last of them to run first.
Then(t, ops) == todo' = [todo EXCEPT ![t] = Front(@) \o ops]

HomeOf(s) == CacheOf[item[s].key]
ChainOf(s) == Bucket[item[s].key]
InQueue(s) == \E c \in Caches : s \in ToSet(queue[c])    \* queue_prev # NULL
Linked(s) == \E b \in Buckets : s \in ToSet(chain[b])

\* item->next: what follows s in its chain.
Successor(s) == LET after == {r \in Slots : \E b \in Buckets :
                      \E i \in 1 .. Len(chain[b]) - 1 :
                        chain[b][i] = s /\ chain[b][i + 1] = r}
                IN IF after = {} THEN None ELSE CHOOSE r \in after : TRUE

Inc(S, it) == [s \in Slots |->
  IF s \in S THEN [it[s] EXCEPT !.ref_count = @ + 1] ELSE it[s]]
Dec(s, it) == [it EXCEPT ![s].ref_count = @ - 1]

\* What is left of a list, where an item is but once, without s.
Without(q, s) ==
  IF s \in ToSet(q) THEN RemoveAt(q, CHOOSE i \in DOMAIN q : q[i] = s) ELSE q

\* (Mutant: the size is not adjusted.)
Unlink_uncounted(s) ==
  /\ chain' = [chain EXCEPT ![ChainOf(s)] = Without(@, s)]
  /\ UNCHANGED cache_size

\* Take s out of its hash chain and off the size of its cache.
Unlink(s) ==
  /\ chain' = [chain EXCEPT ![ChainOf(s)] = Without(@, s)]
  /\ cache_size' = [cache_size EXCEPT ![HomeOf(s)] = @ - 1]

-----------------------------------------------------------------------------
(* Releasing a reference: ass_cache_dec_ref, destroy_item                  *)

\* The lock-free decrement.
DecRef(t) ==
  /\ Doing(t, "dec")
  /\ LET s == Subject(t) IN
       /\ item' = Dec(s, item)
       /\ Then(t, IF item[s].ref_count = 1 THEN <<Op("zero", s)>> ELSE <<>>)
  /\ UNCHANGED <<chain, queue, cache_size, got, lists, phase>>

\* (Mutant: no second look at the count.)
ZeroRef_unchecked(t) ==
  /\ Doing(t, "zero")
  /\ LET s == Subject(t) IN
       /\ Then(t, <<Op("destruct", s)>>)
       /\ IF item[s].shard THEN Unlink(s) ELSE UNCHANGED <<chain, cache_size>>
  /\ UNCHANGED <<item, queue, got, lists, phase>>

\* The count reached zero.  Under the shard's lock: a lookup may have taken
\* the item up again meanwhile; otherwise unlink and destroy it.  An item that
\* was detached from its shard is destroyed at once.
ZeroRef(t) ==
  /\ Doing(t, "zero")
  /\ LET s == Subject(t) IN
       IF item[s].shard
         THEN IF item[s].ref_count # 0
                THEN Then(t, <<>>) /\ UNCHANGED <<chain, cache_size>>
                ELSE Then(t, <<Op("destruct", s)>>) /\ Unlink(s)
         ELSE Then(t, <<Op("destruct", s)>>) /\ UNCHANGED <<chain, cache_size>>
  /\ UNCHANGED <<item, queue, got, lists, phase>>

\* destroy_item: destruct_func drops what the key refers to, one after the
\* other; then the item is freed.
Destruct(t) ==
  /\ Doing(t, "destruct")
  /\ LET s == Subject(t) IN
       \/ \E d \in item[s].uses :
            /\ item' = [item EXCEPT ![s].uses = @ \ {d}]
            /\ Then(t, <<Op("destruct", s), Op("dec", d)>>)
       \/ /\ item[s].uses = {}
          /\ item' = [item EXCEPT ![s] = Unallocated]
          /\ Then(t, <<>>)
  /\ UNCHANGED <<chain, queue, cache_size, got, lists, phase>>

-----------------------------------------------------------------------------
(* ass_cache_get, by a worker during a frame                               *)

\* The items in the chain of k that are built from deps.
Found(k, deps) == {s \in ToSet(chain[Bucket[k]]) :
                     item[s].key = k /\ item[s].uses = deps}
Deps(w, k) == {got[w][d] : d \in Uses[k]}

\* (Mutant: an evicted item is queued again without a reference.)
Promote_unreferenced(s, it) ==
  /\ item' = it
  /\ queue' = [queue EXCEPT ![HomeOf(s)] = Append(Without(@, s), s)]

\* Move s to the recently used end, taking back the queue's reference if the
\* item had been evicted.
Promote(s, it) ==
  /\ item' = IF InQueue(s) THEN it ELSE Inc({s}, it)
  /\ queue' = [queue EXCEPT ![HomeOf(s)] = Append(Without(@, s), s)]

Obtain(w, k, s) == got' = [got EXCEPT ![w][k] = s]

Lookup(w) ==
  /\ Doing(w, "lookup")
  /\ LET k == Subject(w)
         hits == Found(k, Deps(w, k))
     IN \/ \E s \in hits :
             Promote(s, item) /\ Obtain(w, k, s) /\ Then(w, <<>>)
        \/ /\ hits = {}
           /\ Then(w, <<Op("build", k)>>)
           /\ UNCHANGED <<item, queue, got>>
  /\ UNCHANGED <<chain, cache_size, lists, phase>>

\* Outside the lock: allocate the item, let key_move_func take its references
\* and construct the value; or fail and return NULL.
Build(w) ==
  /\ Doing(w, "build")
  /\ LET k == Subject(w)
         deps == Deps(w, k)
     IN \/ \E s \in Slots :
             /\ ~item[s].live
             /\ item' = [Inc(deps, item) EXCEPT ![s] =
                  [live |-> TRUE, key |-> k, uses |-> deps, ref_count |-> 0,
                   shard |-> TRUE]]
             /\ Then(w, <<Op("publish", s)>>)
        \/ /\ MayFail \/ \A s \in Slots : item[s].live
           /\ Then(w, <<>>)
           /\ UNCHANGED item
  /\ UNCHANGED <<chain, queue, cache_size, got, lists, phase>>

\* Under the lock again: give way to an item another thread has published
\* under the same key, or link and queue the new one.
Publish(w) ==
  /\ Doing(w, "publish")
  /\ LET s == Subject(w)
         k == item[s].key
         existing == Found(k, item[s].uses)
     IN \/ \E e \in existing :
             /\ Promote(e, item) /\ Obtain(w, k, e)
             /\ Then(w, <<Op("destruct", s)>>)
             /\ UNCHANGED <<chain, cache_size>>
        \/ /\ existing = {}
           /\ chain' = [chain EXCEPT ![Bucket[k]] = <<s>> \o @]
           /\ queue' = [queue EXCEPT ![CacheOf[k]] = Append(@, s)]
           /\ item' = [item EXCEPT ![s].ref_count = 1]
           /\ cache_size' = [cache_size EXCEPT ![CacheOf[k]] = @ + 1]
           /\ Obtain(w, k, s) /\ Then(w, <<>>)
  /\ UNCHANGED <<lists, phase>>

-----------------------------------------------------------------------------
(* What workers do with the items they get                                 *)

Rendering(w) == phase = "frame" /\ Idle(Driver) /\ Idle(w)

\* A worker needs k and has everything k is built from.
Get(w) ==
  /\ Rendering(w)
  /\ \E k \in Keys :
       /\ got[w][k] = None
       /\ \A d \in Uses[k] : got[w][d] # None
       /\ todo' = [todo EXCEPT ![w] = <<Op("lookup", k)>>]
  /\ UNCHANGED <<caches, got, lists, phase>>

\* (Mutant: the image takes no reference.)
Draw_unreferenced(w) ==
  /\ Rendering(w)
  /\ \E k \in Drawable :
       /\ got[w][k] # None
       /\ images' = images \cup {<<w, got[w][k]>>}
  /\ UNCHANGED <<caches, todo, got, frame, images_root, prev_images_root, held,
                 phase>>

\* my_draw_bitmap and my_draw_glyph: an image holds a reference to its source.
Draw(w) ==
  /\ Rendering(w)
  /\ \E k \in Drawable :
       LET s == got[w][k] IN
       /\ s # None
       /\ <<w, s>> \notin images
       /\ item' = Inc({s}, item)
       /\ images' = images \cup {<<w, s>>}
  /\ UNCHANGED <<chain, queue, cache_size, todo, got, frame, images_root,
                 prev_images_root, held, phase>>

\* An image loses its source before the frame is complete: a worker redirects
\* it to a private copy (blend_vector_clip), or the driver culls it because it
\* is fully transparent (ass_free_image).
Drop(t) ==
  /\ \/ t \in Workers /\ Rendering(t)
     \/ t = Driver /\ phase = "frame" /\ \A u \in Threads \ {Consumer} : Idle(u)
  /\ \E i \in images :
       /\ t \in Workers => i[1] = t
       /\ images' = images \ {i}
       /\ todo' = [todo EXCEPT ![t] = <<Op("dec", i[2])>>]
  /\ UNCHANGED <<caches, got, frame, images_root, prev_images_root, held, phase>>

-----------------------------------------------------------------------------
(* Cutting and emptying, by the driver between frames, without locks       *)

\* One round of cut_shard's loop: pop the oldest item, drop the queue's
\* reference, then clear its queue link or unlink and destroy it.
Cut(t) ==
  /\ Doing(t, "cut")
  /\ LET c == Subject(t) IN
       IF cache_size[c] > MaxSize /\ queue[c] # <<>>
         THEN LET s == Head(queue[c]) IN
              /\ queue' = [queue EXCEPT ![c] = Tail(@)]
              /\ item' = Dec(s, item)
              /\ Then(t, <<Op("cut", c),
                           Op(IF item[s].ref_count = 1 THEN "evict"
                                                       ELSE "orphan", s)>>)
         ELSE Then(t, <<>>) /\ UNCHANGED <<item, queue>>
  /\ UNCHANGED <<chain, cache_size, got, lists, phase>>

\* item->queue_prev = NULL, for an item that is still referred to; it left
\* the queue when it was popped.
Orphan(t) ==
  /\ Doing(t, "orphan")
  /\ Then(t, <<>>)
  /\ UNCHANGED <<caches, got, lists, phase>>

\* Nobody refers to it: unlink it, then destroy it.
Evict(t) ==
  /\ Doing(t, "evict")
  /\ Unlink(Subject(t))
  /\ Then(t, <<Op("destruct", Subject(t))>>)
  /\ UNCHANGED <<item, queue, got, lists, phase>>

\* ass_cache_empty: walk every chain; at the end forget the queue and the size.
Empty(t) ==
  /\ Doing(t, "empty")
  /\ LET c == Subject(t)
         chains == {b \in Buckets : chain[b] # <<>>
                      /\ HomeOf(Head(chain[b])) = c}
     IN \/ \E b \in chains :
             /\ Then(t, <<Op("empty", c), Op("walk", Head(chain[b]))>>)
             /\ UNCHANGED <<queue, cache_size>>
        \/ /\ chains = {}
           /\ queue' = [queue EXCEPT ![c] = <<>>]
           /\ cache_size' = [cache_size EXCEPT ![c] = 0]
           /\ Then(t, <<>>)
  /\ UNCHANGED <<item, chain, got, lists, phase>>

\* One round of the walk along a chain.  The successor is read first.  The
\* item loses the queue's reference; then it is detached from the shard, if
\* somebody still refers to it, or destroyed.
Walk(t) ==
  /\ Doing(t, "walk")
  /\ LET s == Subject(t) IN
       IF s = None
         THEN Then(t, <<>>) /\ UNCHANGED <<item, chain, queue>>
         ELSE LET b == ChainOf(s)
                  next == Successor(s)
                  refs == item[s].ref_count - (IF InQueue(s) THEN 1 ELSE 0)
              IN /\ chain' = [chain EXCEPT ![b] = Without(@, s)]
                 /\ queue' = [queue EXCEPT ![HomeOf(s)] = Without(@, s)]
                 /\ item' = [item EXCEPT ![s].ref_count = refs,
                                         ![s].shard = (refs = 0)]
                 /\ Then(t, IF refs # 0
                              THEN <<Op("walk", next)>>
                              ELSE <<Op("walk", next), Op("destruct", s)>>)
  /\ UNCHANGED <<cache_size, got, lists, phase>>

-----------------------------------------------------------------------------
(* Frames                                                                  *)

\* ass_frame_unref: an atomic decrement; at zero the list is freed.
Unref(t) ==
  /\ Doing(t, "unref")
  /\ LET f == Subject(t) IN
       /\ frame' = [frame EXCEPT ![f].refs = @ - 1]
       /\ Then(t, IF frame[f].refs = 1 THEN <<Op("release", f)>> ELSE <<>>)
  /\ UNCHANGED <<caches, got, images, images_root, prev_images_root, held,
                 phase>>

\* ass_free_image, for one image of the list after the other.
Release(t) ==
  /\ Doing(t, "release")
  /\ LET f == Subject(t) IN
       \/ \E i \in frame[f].images :
            /\ frame' = [frame EXCEPT ![f].images = @ \ {i}]
            /\ Then(t, <<Op("release", f), Op("dec", i[2])>>)
       \/ /\ frame[f].images = {}
          /\ Then(t, <<>>)
          /\ UNCHANGED frame
  /\ UNCHANGED <<caches, got, images, images_root, prev_images_root, held,
                 phase>>

UnrefOps(f) == IF f = None THEN <<>> ELSE <<Op("unref", f)>>
OnCaches(o, cs) == [i \in DOMAIN cs |-> Op(o, Reverse(cs)[i])]

\* May the driver start to cut or empty caches, the consumer to unref?
DriverMayStart == Idle(Driver) /\ (Serialised => Idle(Consumer))
ConsumerMayStart ==
  /\ Idle(Consumer)
  /\ Serialised => \A i \in DOMAIN todo[Driver] :
                     todo[Driver][i].op \notin {"cut", "empty"}

\* ass_start_frame: keep the last list for comparison, enforce the limits.
StartFrame ==
  /\ phase = "between" /\ DriverMayStart
  /\ prev_images_root' = images_root /\ images_root' = None
  /\ todo' = [todo EXCEPT ![Driver] = OnCaches("cut", Limited)]
  /\ phase' = "frame"
  /\ UNCHANGED <<caches, got, images, frame, held>>

\* A list that was released, or never was, and that nobody is still releasing.
Unused(f) ==
  /\ frame[f] = NoList
  /\ \A t \in Threads : ~Pending(t, "release", f)

\* The rest of ass_render_frame, once the workers are done: the images become
\* a list the renderer refers to, and the previous list loses its reference.
EndFrame ==
  /\ phase = "frame" /\ \A w \in Workers \cup {Driver} : Idle(w)
  /\ \/ /\ images = {}
        /\ images_root' = None
        /\ UNCHANGED frame
     \/ /\ images # {}
        /\ \E f \in Frames :
             /\ Unused(f)
             /\ frame' = [frame EXCEPT ![f] = [refs |-> 1, images |-> images]]
             /\ images_root' = f
  /\ images' = {}
  /\ got' = [w \in Workers |-> Nothing]
  /\ todo' = [todo EXCEPT ![Driver] = UnrefOps(prev_images_root)]
  /\ prev_images_root' = None
  /\ phase' = "between"
  /\ UNCHANGED <<caches, held>>

\* ass_reconfigure and the other calls that change settings.
Flush ==
  /\ phase = "between" /\ DriverMayStart
  /\ \E cs \in Flushes : todo' = [todo EXCEPT ![Driver] = OnCaches("empty", cs)]
  /\ UNCHANGED <<caches, got, lists, phase>>

\* ass_frame_ref on the list ass_render_frame returned.
Ref ==
  /\ phase = "between" /\ Idle(Driver)
  /\ images_root # None
  /\ held[images_root] < MaxHeld
  /\ held' = [held EXCEPT ![images_root] = @ + 1]
  /\ frame' = [frame EXCEPT ![images_root].refs = @ + 1]
  /\ UNCHANGED <<caches, todo, got, images, images_root, prev_images_root,
                 phase>>

\* ass_frame_unref by the consumer.
ConsumerUnref ==
  /\ ConsumerMayStart
  /\ \E f \in Frames :
       /\ held[f] > 0
       /\ held' = [held EXCEPT ![f] = @ - 1]
       /\ todo' = [todo EXCEPT ![Consumer] = UnrefOps(f)]
  /\ UNCHANGED <<caches, got, images, frame, images_root, prev_images_root,
                 phase>>

\* ass_renderer_done: drop the renderer's list, empty and free the caches, ...
Close ==
  /\ phase = "between" /\ DriverMayStart
  /\ todo' = [todo EXCEPT ![Driver] =
       OnCaches("empty", Teardown) \o UnrefOps(images_root)]
  /\ images_root' = None
  /\ phase' = "closing"
  /\ UNCHANGED <<caches, got, images, frame, prev_images_root, held>>

\* ... then FT_Done_FreeType, which frees the font library.
FreeLibrary ==
  /\ phase = "closing" /\ Idle(Driver)
  /\ phase' = "gone"
  /\ UNCHANGED <<caches, todo, got, lists>>

-----------------------------------------------------------------------------

LetGo(t) == \/ DecRef(t) \/ ZeroRef(t) \/ Destruct(t) \/ Unref(t) \/ Release(t)
            \/ Drop(t)
Work(w) == Get(w) \/ Lookup(w) \/ Build(w) \/ Publish(w) \/ Draw(w)
Maintain == \/ Cut(Driver) \/ Orphan(Driver) \/ Evict(Driver)
            \/ Empty(Driver) \/ Walk(Driver)
Drive == StartFrame \/ EndFrame \/ Flush \/ Ref \/ Close \/ FreeLibrary

Next == \/ \E t \in Threads : LetGo(t)
        \/ \E w \in Workers : Work(w)
        \/ Maintain \/ Drive \/ ConsumerUnref

Spec == Init /\ [][Next]_vars

-----------------------------------------------------------------------------
(* Properties                                                              *)

Live(s) == item[s].live

\* The items an operation that is still to run is going to touch.
OnItems == {"dec", "zero", "destruct", "orphan", "evict", "walk", "publish"}
Touches(op) == IF op.op \in OnItems THEN {op.x} \ {None} ELSE {}

\* Nothing that can still be followed leads to an item that has been freed:
\* not a pending operation (ass_cache_dec_ref between its decrement and its
\* lock, the loops of ass_cache_cut and ass_cache_empty), not a hash chain or
\* a queue, not the key of another item, not an image of a list somebody
\* refers to, and not what ass_cache_get returned to a worker in this frame.
NoDanglingPointer ==
  /\ \A t \in Threads : \A i \in DOMAIN todo[t] :
       \A s \in Touches(todo[t][i]) : Live(s)
  /\ \A b \in Buckets : \A s \in ToSet(chain[b]) : Live(s)
  /\ \A c \in Caches : \A s \in ToSet(queue[c]) : Live(s)
  /\ \A s \in Slots : \A d \in item[s].uses : Live(d)
  /\ \A i \in images \cup UNION {frame[f].images : f \in Frames} : Live(i[2])
  /\ \A w \in Workers, k \in Keys : got[w][k] # None => Live(got[w][k])

\* When the renderer is gone and the last list has been released, nothing is
\* left behind.
NoLeak ==
  /\ phase = "gone"
  /\ \A f \in Frames : held[f] = 0
  /\ \A t \in Threads : Idle(t)
  => \A s \in Slots : ~Live(s)

\* Who holds a reference to s: images of the frame being rendered, images of
\* lists, keys, and threads about to give one up.
ImageRefs(s) == {i \in images : i[2] = s}
ListRefs(s)  == {h \in Frames \X Image : h[2] \in frame[h[1]].images /\ h[2][2] = s}
KeyRefs(s)   == {p \in Slots : s \in item[p].uses}
DecRefs(s)   == {t \in Threads : Doing(t, "dec") /\ Subject(t) = s}

Refs(s) == (IF InQueue(s) THEN 1 ELSE 0)
           + Cardinality(ImageRefs(s)) + Cardinality(ListRefs(s))
           + Cardinality(KeyRefs(s)) + Cardinality(DecRefs(s))

\* An item's count is what its comment says: one for every holder (an image, a
\* key that refers to it, a decrement still to be made) and one while queued;
\* and so nothing is left behind (ass_cache_inc_ref, ass_cache_dec_ref,
\* destroy_item).  The counts and lists are of their types.
RefsAccounted ==
  /\ TypeOK
  /\ NoLeak
  /\ \A s \in Slots : item[s].ref_count = Refs(s)

\* Two threads that miss the same key at once still end up with one item: no
\* two items of a chain have the same key.
UniqueKeys ==
  \A b \in Buckets : \A s, r \in ToSet(chain[b]) :
    item[s].key = item[r].key /\ item[s].uses = item[r].uses => s = r

\* A shard's books balance whenever nobody is emptying it: cache_size counts
\* its linked items, and its queue holds linked items only, each once; and no
\* key is there twice (ass_cache_get, ass_cache_cut, ass_cache_empty).
ShardsBalance ==
  /\ UniqueKeys
  /\ \A c \in Caches :
       ~Pending(Driver, "empty", c) =>
         /\ cache_size[c] = Cardinality({s \in Slots : Linked(s) /\ HomeOf(s) = c})
         /\ \A s \in ToSet(queue[c]) : Linked(s) /\ HomeOf(s) = c
         /\ Cardinality(ToSet(queue[c])) = Len(queue[c])

\* "stays valid and unchanged until the matching ass_frame_unref()": while a
\* list is referred to, the sources of its images, and whatever their keys
\* refer to, are neither freed nor reused nor changed.
Pinned == LET direct == {i[2] : i \in UNION {frame[f].images :
                          f \in {g \in Frames : frame[g].refs > 0}}}
          IN direct \cup UNION {item[s].uses : s \in direct}
PinnedUnchanged ==
  [][\A s \in Pinned : /\ item'[s].live
                       /\ item'[s].key = item[s].key
                       /\ item'[s].uses = item[s].uses]_vars

\* ass_cache_empty's "assert(item->size)": the walk only meets items that exist.
WalkMeetsItems ==
  \A i \in DOMAIN todo[Driver] :
    todo[Driver][i].op = "walk" /\ todo[Driver][i].x # None =>
      Live(todo[Driver][i].x)

\* A font is not closed after the font library it belongs to is gone.
FontsBeforeLibrary ==
  phase = "gone" => \A s \in Slots : Live(s) => HomeOf(s) # "font"
=============================================================================
