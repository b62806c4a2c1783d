------------------------------- MODULE Track ---------------------------------
(***************************************************************************)
(* libass/ass.c: the event list of an ASS_Track.  Events arrive as script  *)
(* lines (ass_process_data, ass_read_memory) or one by one as Matroska     *)
(* packets (ass_process_chunk), which a player sends again after seeking:  *)
(* the ReadOrder field tells packets apart, and a bitmap of the ReadOrders *)
(* read so far finds the ones that are already there.  Events leave the    *)
(* list when it is flushed or pruned.                                      *)
(*                                                                         *)
(* An event is its ReadOrder and the time it ends at.  The bitmap is the   *)
(* set of its bits; growing it may fail, which frees it.                   *)
(***************************************************************************)
EXTENDS Integers, Sequences, FiniteSets, SequencesExt

CONSTANTS
  MaxId,       \* ReadOrders from 0 to MaxId - 1 have a bit
  BadIds,      \* ReadOrders out of range that packets may carry
  MaxTime,     \* bound on the times events end at
  MaxEvents,   \* bound on the length of the list
  MayFail,     \* may memory run out?
  MayToggle    \* may duplicate checking be switched after events were read?

ASSUME TrackAssumption ==
  /\ MaxId \in Nat /\ MaxTime \in Nat /\ MaxEvents \in Nat
  /\ BadIds \subseteq Int /\ \A i \in BadIds : i < 0 \/ i >= MaxId
  /\ MayFail \in BOOLEAN /\ MayToggle \in BOOLEAN

GoodIds == 0 .. MaxId - 1
Ids     == GoodIds \cup BadIds
Times   == 0 .. MaxTime
Never   == MaxTime + 1          \* LLONG_MAX

VARIABLES
  events,             \* track->events
  read_order_bitmap,  \* the bits set, or NULL
  check_readorder,
  prune_next_ts,
  event_format,       \* is there an event format?
  source,             \* "none", "script" or "packets": how events were read
  malformed           \* history: ReadOrders of packets dropped as malformed

vars == <<events, read_order_bitmap, check_readorder, prune_next_ts,
          event_format, source, malformed>>

NULL == {-1}                    \* no bitmap: never a set of bits
Event == [ReadOrder : Int, end : Times]

TypeOK ==
  /\ events \in Seq(Event) /\ Len(events) <= MaxEvents
  /\ read_order_bitmap \in (SUBSET GoodIds) \cup {NULL}
  /\ check_readorder \in BOOLEAN
  /\ prune_next_ts \in Times \cup {Never}
  /\ event_format \in BOOLEAN
  /\ source \in {"none", "script", "packets"}
  /\ malformed \in SUBSET Ids

\* ass_new_track
Init ==
  /\ events = <<>>
  /\ read_order_bitmap = NULL
  /\ check_readorder = TRUE
  /\ prune_next_ts = Never
  /\ event_format = FALSE
  /\ source = "none"
  /\ malformed = {}

ReadOrders(evs) == {evs[i].ReadOrder : i \in DOMAIN evs}

-----------------------------------------------------------------------------
(* The bitmap                                                              *)

\* test_and_set_read_order_bit, as the bitmap it leaves behind.  A ReadOrder
\* that is out of range, or memory running out, loses the bitmap.
SetBit(bits, id, fails) ==
  IF id \in bits \/ (id \in GoodIds /\ ~fails) THEN bits \cup {id} ELSE NULL

\* (Mutant: an event out of range is passed over.)
Rebuilt_partial(fails) ==
  IF events = <<>> \/ fails THEN NULL ELSE ReadOrders(events) \cap GoodIds

\* The loop at the head of ass_process_chunk sets the bits of all events; the
\* first failure loses the bitmap and ends the loop.  A track without events
\* is left without a bitmap.
Rebuilt(fails) ==
  IF events = <<>> \/ fails \/ ~(ReadOrders(events) \subseteq GoodIds)
    THEN NULL
    ELSE ReadOrders(events)

\* The bitmap that ass_process_chunk has from its head on.
AtHead(fails) == IF check_readorder /\ read_order_bitmap = NULL
                   THEN Rebuilt(fails) ELSE read_order_bitmap

\* The bitmap's size in words after it had to grow for id, and the word and
\* the bit id has in it.
GrownElems(id) == ((id + 31) \div 32 + 1) * 2
WordOf(id) == id \div 32

-----------------------------------------------------------------------------
(* Reading events                                                          *)

Earlier(a, b) == IF a < b THEN a ELSE b

\* (Mutant: the time is not noted.)
Store_untimed(id, end) ==
  /\ events' = Append(events, [ReadOrder |-> id, end |-> end])
  /\ UNCHANGED prune_next_ts

\* Append an event and note when it ends (update_prune_ts).
Store(id, end) ==
  /\ events' = Append(events, [ReadOrder |-> id, end |-> end])
  /\ prune_next_ts' = Earlier(end, prune_next_ts)

\* ass_process_chunk.  A packet that cannot be stored, because it repeats one
\* or is malformed, may still have changed the bitmap.
ProcessChunk(id, end, wellformed, fails) ==
  /\ source # "script"
  /\ source' = "packets"
  /\ LET bits == AtHead("head" \in fails)
         duplicate == check_readorder /\ id \in (IF bits # NULL THEN bits
                                                 ELSE ReadOrders(events))
     IN IF ~event_format
          THEN /\ read_order_bitmap' = bits
               /\ UNCHANGED <<events, prune_next_ts, malformed>>
          ELSE /\ read_order_bitmap' =
                    IF check_readorder /\ bits # NULL
                      THEN SetBit(bits, id, "packet" \in fails) ELSE bits
               /\ IF duplicate \/ ~wellformed
                    THEN UNCHANGED <<events, prune_next_ts>>
                    ELSE Len(events) < MaxEvents /\ Store(id, end)
               /\ malformed' = IF duplicate \/ wellformed
                                 THEN malformed ELSE malformed \cup {id}
  /\ UNCHANGED <<check_readorder, event_format>>

\* ass_process_chunk, leaving before it has looked at the packet: no memory
\* for its text or for the event, or nothing in it.
SkipChunk(fails) ==
  /\ source # "script"
  /\ source' = "packets"
  /\ read_order_bitmap' = AtHead("head" \in fails)
  /\ UNCHANGED <<events, check_readorder, prune_next_ts, event_format,
                 malformed>>

\* A "Format:" line of the events section, or the fallback for a script that
\* has none (event_format_fallback).
Format ==
  /\ ~event_format
  /\ event_format' = TRUE
  /\ UNCHANGED <<events, read_order_bitmap, check_readorder, prune_next_ts,
                 source, malformed>>

\* A "Dialogue:" line of a script (process_events_line), stored if it is well
\* formed.  Its ReadOrder is 0 until parse_memory numbers the events of the
\* finished script.
Dialogue(end, wellformed) ==
  /\ source # "packets"
  /\ source' = "script"
  /\ event_format' = TRUE
  /\ IF wellformed THEN Len(events) < MaxEvents /\ Store(0, end)
                   ELSE UNCHANGED <<events, prune_next_ts>>
  /\ UNCHANGED <<read_order_bitmap, check_readorder, malformed>>

\* The end of parse_memory.
Number ==
  /\ source = "script"
  /\ events' = [i \in DOMAIN events |-> [events[i] EXCEPT !.ReadOrder = i - 1]]
  /\ UNCHANGED <<read_order_bitmap, check_readorder, prune_next_ts,
                 event_format, source, malformed>>

\* ass_set_check_readorder
SetCheckReadOrder(on) ==
  /\ MayToggle \/ source = "none"
  /\ check_readorder' = on
  /\ UNCHANGED <<events, read_order_bitmap, prune_next_ts, event_format, source,
                 malformed>>

-----------------------------------------------------------------------------
(* Dropping events                                                         *)

\* ass_flush_events
Flush ==
  /\ events' = <<>>
  /\ read_order_bitmap' = NULL
  /\ malformed' = {}
  /\ UNCHANGED <<check_readorder, prune_next_ts, event_format, source>>

Expired(e, deadline) == e.end < deadline
ToKeep(deadline) == {i \in DOMAIN events : ~Expired(events[i], deadline)}

\* The sequence that lists a set of indices in ascending order.
Ascending(S, pick) ==
  /\ \A i, j \in DOMAIN pick : i < j => pick[i] < pick[j]
  /\ Range(pick) = S

MinEnd(S) == IF S = {} THEN Never
             ELSE CHOOSE t \in {events[i].end : i \in S} :
                    \A i \in S : t <= events[i].end

\* (Mutant: the bits stay.)
Cleared_none(deadline) == read_order_bitmap

\* The bits of the expired events are cleared; there is nothing to clear
\* without a bitmap, or for a ReadOrder out of range.
Cleared(deadline) ==
  IF read_order_bitmap = NULL \/ ~check_readorder
    THEN read_order_bitmap
    ELSE read_order_bitmap \ {events[i].ReadOrder :
           i \in {j \in DOMAIN events : Expired(events[j], deadline)}}

\* ass_prune_events, called after every frame too: does nothing if no event
\* can have expired; otherwise drops those that have, closing the gaps.
Prune(deadline) ==
  /\ IF deadline < prune_next_ts
       THEN UNCHANGED <<events, read_order_bitmap, prune_next_ts>>
       ELSE LET keep == ToKeep(deadline) IN
            /\ \E n \in 0 .. Len(events) : \E pick \in [1 .. n -> keep] :
                 /\ Ascending(keep, pick)
                 /\ events' = [i \in 1 .. n |-> events[pick[i]]]
            /\ read_order_bitmap' = Cleared(deadline)
            /\ prune_next_ts' = MinEnd(keep)
  /\ UNCHANGED <<check_readorder, event_format, source, malformed>>

-----------------------------------------------------------------------------

\* Where growing the bitmap fails: at the head, or for the packet itself.
Failures == SUBSET (IF MayFail THEN {"head", "packet"} ELSE {})

Read == \/ \E id \in Ids, end \in Times, wellformed \in BOOLEAN :
             \E fails \in Failures : ProcessChunk(id, end, wellformed, fails)
        \/ \E fails \in Failures : SkipChunk(fails)
        \/ Format \/ Number
        \/ \E end \in Times, wellformed \in BOOLEAN : Dialogue(end, wellformed)
        \/ \E on \in BOOLEAN : SetCheckReadOrder(on)

DropEvents == Flush \/ \E deadline \in Times : Prune(deadline)

Next == Read \/ DropEvents

Spec == Init /\ [][Next]_vars

-----------------------------------------------------------------------------
(* Properties                                                              *)

\* "use the ReadOrder field embedded in the packet as unique identifier, and
\* discard the packet if there was already a packet with the same ReadOrder"
\* (ass.h): while checking is on, no packet is stored that repeats an event of
\* the list, whether the bitmap or the search of the list is to find it.
DuplicatesDiscarded ==
  [][check_readorder /\ source' = "packets" /\ Len(events') > Len(events) =>
       Last(events').ReadOrder \notin ReadOrders(events)]_vars

\* "contains bitmap of ReadOrder IDs of all read events" (ass_priv.h): the
\* bitmap, when there is one, has the bits of all events in the list, so that
\* it never lets a duplicate in; and no others, save those of packets that
\* turned out malformed, so that it never keeps out an event that was pruned
\* and is sent again.
BitmapExact ==
  check_readorder /\ source = "packets" /\ read_order_bitmap # NULL =>
    /\ ReadOrders(events) \subseteq read_order_bitmap
    /\ read_order_bitmap \ malformed \subseteq ReadOrders(events)

\* ass_prune_events' early return skips no event that has expired: the time
\* noted for it is never later than the end of an event in the list, however
\* reading, pruning and flushing alternate.
NextDue == \A i \in DOMAIN events : prune_next_ts <= events[i].end
=============================================================================
