----------------------------- MODULE TrackProofs -------------------------------
(***************************************************************************)
(* What holds of an event list whose duplicate checking is not switched    *)
(* once events have been read (~MayToggle).                                *)
(***************************************************************************)
EXTENDS Track, WellFoundedInduction, TLAPS

\* Before anything has been read there is nothing to know duplicates by.
Fresh == source = "none" => events = <<>> /\ read_order_bitmap = NULL

\* Events read from packets are told apart by their ReadOrders.
Distinct ==
  check_readorder /\ source = "packets" =>
    \A i, j \in DOMAIN events :
      events[i].ReadOrder = events[j].ReadOrder => i = j

IInv == TypeOK /\ Fresh /\ Distinct /\ NextDue /\ BitmapExact

-----------------------------------------------------------------------------
(* Lemmas                                                                  *)

\* NULL is not a set of bits.
LEMMA NullIsNoBitmap == NULL \notin SUBSET GoodIds
BY TrackAssumption DEF NULL, GoodIds

\* The fields of an event of the list.
LEMMA EventFields ==
  ASSUME NEW evs \in Seq(Event)
  PROVE  \A i \in DOMAIN evs : /\ evs[i] \in Event
                               /\ evs[i].end \in Times /\ evs[i].end \in Int
<1> SUFFICES ASSUME NEW i \in DOMAIN evs
             PROVE  evs[i] \in Event /\ evs[i].end \in Times /\ evs[i].end \in Int
  OBVIOUS
<1>1. evs[i] \in Event
  OBVIOUS
<1>2. evs[i].end \in Times
  BY <1>1 DEF Event
<1> QED BY <1>1, <1>2, TrackAssumption DEF Times

\* Appending an event adds its ReadOrder.
LEMMA AppendedReadOrders ==
  ASSUME NEW evs \in Seq(Event), NEW e \in Event
  PROVE  /\ Append(evs, e) \in Seq(Event)
         /\ ReadOrders(Append(evs, e)) = ReadOrders(evs) \cup {e.ReadOrder}
<1>1. /\ DOMAIN Append(evs, e) = DOMAIN evs \cup {Len(evs) + 1}
      /\ Append(evs, e)[Len(evs) + 1] = e
      /\ \A i \in DOMAIN evs : Append(evs, e)[i] = evs[i]
  OBVIOUS
<1>2. Append(evs, e) \in Seq(Event)
  OBVIOUS
<1> QED BY <1>1, <1>2 DEF ReadOrders

\* The bitmap ass_process_chunk has from its head on still fits the events.
LEMMA HeadFits ==
  ASSUME IInv, check_readorder, source # "script", NEW fails \in BOOLEAN
  PROVE  \/ AtHead(fails) = NULL
         \/ /\ AtHead(fails) \in SUBSET GoodIds
            /\ AtHead(fails) # NULL
            /\ ReadOrders(events) \subseteq AtHead(fails)
            /\ AtHead(fails) \ malformed \subseteq ReadOrders(events)
<1>1. CASE read_order_bitmap = NULL
  <2>1. AtHead(fails) = Rebuilt(fails)
    BY <1>1 DEF AtHead
  <2>2. CASE events = <<>> \/ fails \/ ~(ReadOrders(events) \subseteq GoodIds)
    BY <2>1, <2>2 DEF Rebuilt
  <2>3. CASE ~(events = <<>> \/ fails \/ ~(ReadOrders(events) \subseteq GoodIds))
    BY <2>1, <2>3, NullIsNoBitmap DEF Rebuilt
  <2> QED BY <2>2, <2>3
<1>2. CASE read_order_bitmap # NULL
  <2>1. AtHead(fails) = read_order_bitmap
    BY <1>2 DEF AtHead
  <2>2. source = "packets"
    BY <1>2 DEF IInv, Fresh, TypeOK
  <2> QED BY <1>2, <2>1, <2>2 DEF IInv, BitmapExact, TypeOK
<1> QED BY <1>1, <1>2

\* A set of natural numbers that is not empty has a least element.
LEMMA LeastElement ==
  ASSUME NEW S, S \subseteq Nat, S # {}
  PROVE  \E t \in S : \A u \in S : t <= u
<1> DEFINE R == {ss \in Nat \X Nat : ss[1] < ss[2]}
<1>1. IsWellFoundedOn(R, Nat)
  BY NatLessThanWellFounded, Zenon DEF OpToRel
<1>2. \A x, y \in Nat : <<y, x>> \notin R => x <= y
  OBVIOUS
<1> HIDE DEF R
<1>3. PICK t \in S : \A u \in S : ~ (<<u, t>> \in R)
  BY <1>1, WFMin
<1> QED BY <1>2, <1>3

\* What MinEnd says of the events at the indices S.
LEMMA MinEndIsLeast ==
  ASSUME events \in Seq(Event), NEW S, S \subseteq DOMAIN events
  PROVE  /\ MinEnd(S) \in Times \cup {Never}
         /\ \A i \in S : MinEnd(S) <= events[i].end
<1>1. CASE S = {}
  BY <1>1 DEF MinEnd
<1>2. CASE S # {}
  <2> DEFINE ends == {events[i].end : i \in S}
             Least(t) == \A i \in S : t <= events[i].end
  <2>1. ends \subseteq Times /\ ends # {} /\ Times \subseteq Nat
    BY <1>2, EventFields, TrackAssumption DEF Times
  <2>2. PICK t \in ends : \A u \in ends : t <= u
    BY <2>1, LeastElement
  <2>3. Least(t)
    BY <2>2
  <2>4. MinEnd(S) = CHOOSE x \in ends : Least(x)
    BY <1>2 DEF MinEnd
  <2> HIDE DEF ends, Least
  <2>5. MinEnd(S) \in ends /\ Least(MinEnd(S))
    BY <2>2, <2>3, <2>4
  <2> QED BY <2>1, <2>5 DEF Least
<1> QED BY <1>1, <1>2

-----------------------------------------------------------------------------
(* The invariant                                                           *)

\* A list without events is well typed and has no indices.
LEMMA NoEvents ==
  ASSUME NEW evs, evs = <<>>
  PROVE  evs \in Seq(Event) /\ Len(evs) = 0 /\ DOMAIN evs = {}
OBVIOUS

LEMMA InitIInv == Init => IInv
<1> SUFFICES ASSUME Init PROVE IInv
  OBVIOUS
<1>1. events \in Seq(Event) /\ Len(events) = 0 /\ DOMAIN events = {}
  BY NoEvents DEF Init
<1>2. TypeOK
  <2>1. events \in Seq(Event) /\ Len(events) <= MaxEvents
    BY <1>1, TrackAssumption
  <2>2. prune_next_ts \in Times \cup {Never} /\ malformed \in SUBSET Ids
    BY DEF Init
  <2>3. check_readorder \in BOOLEAN /\ event_format \in BOOLEAN
    BY DEF Init
  <2> QED BY <2>1, <2>2, <2>3 DEF Init, TypeOK
<1>3. Fresh /\ Distinct /\ NextDue /\ BitmapExact
  BY <1>1 DEF Init, Fresh, Distinct, NextDue, BitmapExact
<1> QED BY <1>2, <1>3 DEF IInv

\* Storing an event that repeats none keeps the list's part of the invariant.
LEMMA Stored ==
  ASSUME TypeOK, NextDue, Len(events) < MaxEvents,
         NEW id \in Ids \cup {0}, NEW end \in Times, Store(id, end)
  PROVE  /\ events' \in Seq(Event) /\ Len(events') <= MaxEvents
         /\ prune_next_ts' \in Times \cup {Never}
         /\ NextDue'
         /\ ReadOrders(events') = ReadOrders(events) \cup {id}
         /\ Last(events').ReadOrder = id
         /\ Len(events') > Len(events)
         /\ (/\ id \notin ReadOrders(events)
             /\ \A i, j \in DOMAIN events :
                  events[i].ReadOrder = events[j].ReadOrder => i = j)
            => (\A i, j \in DOMAIN events' :
                  events'[i].ReadOrder = events'[j].ReadOrder => i = j)
<1> DEFINE e == [ReadOrder |-> id, end |-> end]
<1>1. e \in Event /\ e.ReadOrder = id /\ e.end = end
  BY TrackAssumption DEF Event, Ids, GoodIds
<1>2. events' = Append(events, e)
  BY DEF Store
<1>3. events \in Seq(Event)
  BY DEF TypeOK
<1> HIDE DEF e
<1>4. /\ events' \in Seq(Event)
      /\ ReadOrders(events') = ReadOrders(events) \cup {id}
  BY <1>1, <1>2, <1>3, AppendedReadOrders
<1>5. /\ Len(events') = Len(events) + 1
      /\ DOMAIN events' = DOMAIN events \cup {Len(events) + 1}
      /\ events'[Len(events) + 1] = e
      /\ \A i \in DOMAIN events : events'[i] = events[i]
  BY <1>1, <1>2, <1>3
<1>6. Len(events') <= MaxEvents /\ Len(events') > Len(events)
  BY <1>3, <1>5, TrackAssumption
<1>7. Last(events').ReadOrder = id
  BY <1>1, <1>5 DEF Last
<1>8. prune_next_ts' \in Times \cup {Never} /\ NextDue'
  <2>1. prune_next_ts' = Earlier(end, prune_next_ts)
    BY DEF Store
  <2>2. end \in Int /\ prune_next_ts \in Int
    BY TrackAssumption DEF TypeOK, Times, Never
  <2>3. /\ prune_next_ts' <= end /\ prune_next_ts' <= prune_next_ts
        /\ prune_next_ts' = end \/ prune_next_ts' = prune_next_ts
    BY <2>1, <2>2 DEF Earlier
  <2>4. \A i \in DOMAIN events : events[i].end \in Int
    BY <1>3, EventFields
  <2>5. \A i \in DOMAIN events : prune_next_ts' <= events[i].end
    BY <2>2, <2>3, <2>4 DEF NextDue
  <2>6. NextDue'
    BY <1>1, <1>5, <2>3, <2>5 DEF NextDue
  <2> QED BY <2>3, <2>6 DEF TypeOK
<1>9. ASSUME id \notin ReadOrders(events),
             \A i, j \in DOMAIN events :
               events[i].ReadOrder = events[j].ReadOrder => i = j
      PROVE  \A i, j \in DOMAIN events' :
               events'[i].ReadOrder = events'[j].ReadOrder => i = j
  BY <1>1, <1>5, <1>9 DEF ReadOrders
<1> QED BY <1>4, <1>6, <1>7, <1>8, <1>9

LEMMA ProcessChunkIInv ==
  ASSUME IInv,
         NEW id \in Ids, NEW end \in Times, NEW wellformed \in BOOLEAN,
         NEW fails \in Failures, ProcessChunk(id, end, wellformed, fails)
  PROVE  /\ IInv'
         /\ check_readorder /\ Len(events') > Len(events) =>
              Last(events').ReadOrder \notin ReadOrders(events)
<1> DEFINE head == "head" \in fails
           lost == "packet" \in fails
           bits == AtHead(head)
           duplicate == check_readorder /\ id \in (IF bits # NULL THEN bits
                                                   ELSE ReadOrders(events))
<1>1. /\ source # "script" /\ source' = "packets"
      /\ check_readorder' = check_readorder /\ event_format' = event_format
  BY DEF ProcessChunk
<1>2. TypeOK /\ Fresh /\ Distinct /\ NextDue /\ BitmapExact
  BY DEF IInv
<1>3. head \in BOOLEAN /\ lost \in BOOLEAN
  OBVIOUS
\* What is known of the events read so far, whatever the source was.
<1>4. check_readorder => \A i, j \in DOMAIN events :
                           events[i].ReadOrder = events[j].ReadOrder => i = j
  <2>1. CASE source = "none"
    BY <1>2, <2>1, NoEvents DEF Fresh
  <2>2. CASE source = "packets"
    BY <1>2, <2>2 DEF Distinct
  <2> QED BY <1>1, <1>2, <2>1, <2>2 DEF TypeOK
<1>5. \/ ~check_readorder
      \/ bits = NULL
      \/ /\ bits \in SUBSET GoodIds
         /\ bits # NULL
         /\ ReadOrders(events) \subseteq bits
         /\ bits \ malformed \subseteq ReadOrders(events)
  BY <1>1, <1>3, HeadFits
<1>6. bits \in (SUBSET GoodIds) \cup {NULL}
  BY <1>2, <1>5 DEF AtHead, TypeOK
<1>7. CASE ~event_format
  <2>1. /\ read_order_bitmap' = bits
        /\ events' = events /\ prune_next_ts' = prune_next_ts
        /\ malformed' = malformed
    BY <1>7 DEF ProcessChunk
  <2>2. TypeOK' /\ Fresh' /\ NextDue'
    BY <1>1, <1>2, <1>6, <2>1 DEF TypeOK, Fresh, NextDue
  <2>3. Distinct'
    BY <1>1, <1>4, <2>1 DEF Distinct
  <2>4. BitmapExact'
    BY <1>1, <1>5, <2>1 DEF BitmapExact, ReadOrders
  <2>5. ~(Len(events') > Len(events))
    BY <1>2, <2>1 DEF TypeOK
  <2> QED BY <2>2, <2>3, <2>4, <2>5 DEF IInv
<1>8. CASE event_format
  <2>1. /\ read_order_bitmap' = IF check_readorder /\ bits # NULL
                                  THEN SetBit(bits, id, lost) ELSE bits
        /\ IF duplicate \/ ~wellformed
             THEN events' = events /\ prune_next_ts' = prune_next_ts
             ELSE Len(events) < MaxEvents /\ Store(id, end)
        /\ malformed' = IF duplicate \/ wellformed
                          THEN malformed ELSE malformed \cup {id}
    BY <1>8 DEF ProcessChunk
  <2>2. /\ read_order_bitmap' \in (SUBSET GoodIds) \cup {NULL}
        /\ \/ ~check_readorder
           \/ read_order_bitmap' = NULL
           \/ bits # NULL /\ read_order_bitmap' = bits \cup {id}
    <3>1. CASE check_readorder /\ bits # NULL
      <4>1. bits \in SUBSET GoodIds
        BY <1>5, <3>1
      <4> QED BY <2>1, <3>1, <4>1 DEF SetBit
    <3>2. CASE ~(check_readorder /\ bits # NULL)
      BY <1>6, <2>1, <3>2
    <3> QED BY <3>1, <3>2
  <2>3. malformed' \in SUBSET Ids /\ malformed \subseteq malformed'
    BY <1>2, <2>1 DEF TypeOK
  <2>4. CASE duplicate \/ ~wellformed
    <3>1. events' = events /\ prune_next_ts' = prune_next_ts
      BY <2>1, <2>4
    <3>2. TypeOK' /\ Fresh' /\ NextDue'
      BY <1>1, <1>2, <2>2, <2>3, <3>1 DEF TypeOK, Fresh, NextDue
    <3>3. Distinct'
      BY <1>1, <1>4, <3>1 DEF Distinct
    <3>4. ReadOrders(events') = ReadOrders(events)
      BY <3>1
    <3>5. ASSUME check_readorder, read_order_bitmap' # NULL
          PROVE  /\ ReadOrders(events) \subseteq read_order_bitmap'
                 /\ read_order_bitmap' \ malformed' \subseteq ReadOrders(events)
      <4>1. bits # NULL /\ read_order_bitmap' = bits \cup {id}
        BY <2>2, <3>5
      <4>2. /\ ReadOrders(events) \subseteq bits
            /\ bits \ malformed \subseteq ReadOrders(events)
        BY <1>5, <3>5, <4>1
      <4>3. id \in bits \/ id \in malformed'
        BY <2>1, <2>4, <3>5, <4>1
      <4> QED BY <2>3, <4>1, <4>2, <4>3
    <3>6. BitmapExact'
      BY <1>1, <3>4, <3>5 DEF BitmapExact
    <3>7. ~(Len(events') > Len(events))
      BY <1>2, <3>1 DEF TypeOK
    <3> QED BY <3>2, <3>3, <3>6, <3>7 DEF IInv
  <2>5. CASE ~(duplicate \/ ~wellformed)
    <3>1. Len(events) < MaxEvents /\ Store(id, end)
      BY <2>1, <2>5
    <3>2. malformed' = malformed
      BY <2>1, <2>5
    <3>3. /\ events' \in Seq(Event) /\ Len(events') <= MaxEvents
          /\ prune_next_ts' \in Times \cup {Never}
          /\ NextDue'
          /\ ReadOrders(events') = ReadOrders(events) \cup {id}
          /\ Last(events').ReadOrder = id
          /\ (/\ id \notin ReadOrders(events)
              /\ \A i, j \in DOMAIN events :
                   events[i].ReadOrder = events[j].ReadOrder => i = j)
             => (\A i, j \in DOMAIN events' :
                   events'[i].ReadOrder = events'[j].ReadOrder => i = j)
      BY <1>2, <3>1, Stored
    <3>4. TypeOK' /\ Fresh'
      BY <1>1, <1>2, <2>2, <2>3, <3>3 DEF TypeOK, Fresh
    <3>5. check_readorder => id \notin ReadOrders(events)
      <4>1. CASE bits = NULL
        BY <2>5, <4>1
      <4>2. CASE bits # NULL
        BY <1>5, <2>5, <4>2
      <4> QED BY <4>1, <4>2
    <3>6. Distinct'
      BY <1>1, <1>4, <3>3, <3>5 DEF Distinct
    <3>7. ASSUME check_readorder, read_order_bitmap' # NULL
          PROVE  /\ ReadOrders(events') \subseteq read_order_bitmap'
                 /\ read_order_bitmap' \ malformed' \subseteq ReadOrders(events')
      <4>1. bits # NULL /\ read_order_bitmap' = bits \cup {id}
        BY <2>2, <3>7
      <4>2. /\ ReadOrders(events) \subseteq bits
            /\ bits \ malformed \subseteq ReadOrders(events)
        BY <1>5, <3>7, <4>1
      <4> QED BY <3>2, <3>3, <4>1, <4>2
    <3>8. BitmapExact'
      BY <1>1, <3>7 DEF BitmapExact
    <3> QED BY <3>3, <3>4, <3>5, <3>6, <3>8 DEF IInv
  <2> QED BY <2>4, <2>5
<1> QED BY <1>2, <1>7, <1>8 DEF TypeOK

LEMMA SkipChunkIInv ==
  ASSUME IInv, NEW fails \in Failures, SkipChunk(fails)
  PROVE  IInv'
<1> DEFINE head == "head" \in fails
           bits == AtHead(head)
<1>1. /\ source # "script" /\ source' = "packets"
      /\ read_order_bitmap' = bits
      /\ UNCHANGED <<events, check_readorder, prune_next_ts, event_format,
                     malformed>>
  BY DEF SkipChunk
<1>2. TypeOK /\ Fresh /\ Distinct /\ NextDue /\ BitmapExact
  BY DEF IInv
<1>3. head \in BOOLEAN
  OBVIOUS
<1>4. check_readorder => \A i, j \in DOMAIN events :
                           events[i].ReadOrder = events[j].ReadOrder => i = j
  <2>1. CASE source = "none"
    BY <1>2, <2>1, NoEvents DEF Fresh
  <2>2. CASE source = "packets"
    BY <1>2, <2>2 DEF Distinct
  <2> QED BY <1>1, <1>2, <2>1, <2>2 DEF TypeOK
<1>5. \/ ~check_readorder
      \/ bits = NULL
      \/ /\ bits \in SUBSET GoodIds
         /\ bits # NULL
         /\ ReadOrders(events) \subseteq bits
         /\ bits \ malformed \subseteq ReadOrders(events)
  BY <1>1, <1>3, HeadFits
<1>6. bits \in (SUBSET GoodIds) \cup {NULL}
  BY <1>2, <1>5 DEF AtHead, TypeOK
<1>7. TypeOK' /\ Fresh' /\ NextDue'
  BY <1>1, <1>2, <1>6 DEF TypeOK, Fresh, NextDue
<1>8. Distinct'
  BY <1>1, <1>4 DEF Distinct
<1>9. BitmapExact'
  BY <1>1, <1>5 DEF BitmapExact, ReadOrders
<1> QED BY <1>7, <1>8, <1>9 DEF IInv

LEMMA DialogueIInv ==
  ASSUME IInv, NEW end \in Times, NEW wellformed \in BOOLEAN,
         Dialogue(end, wellformed)
  PROVE  IInv'
<1>1. /\ source' = "script" /\ event_format' \in BOOLEAN
      /\ UNCHANGED <<read_order_bitmap, check_readorder, malformed>>
  BY DEF Dialogue
<1>2. TypeOK /\ NextDue
  BY DEF IInv
<1>3. /\ events' \in Seq(Event) /\ Len(events') <= MaxEvents
      /\ prune_next_ts' \in Times \cup {Never}
      /\ NextDue'
  <2>1. CASE wellformed
    <3>1. Len(events) < MaxEvents /\ Store(0, end)
      BY <2>1 DEF Dialogue
    <3> QED BY <1>2, <3>1, Stored
  <2>2. CASE ~wellformed
    BY <1>2, <2>2 DEF Dialogue, TypeOK, NextDue
  <2> QED BY <2>1, <2>2
<1>4. TypeOK'
  BY <1>1, <1>2, <1>3 DEF TypeOK
<1>5. Fresh' /\ Distinct' /\ BitmapExact'
  BY <1>1 DEF Fresh, Distinct, BitmapExact
<1> QED BY <1>3, <1>4, <1>5 DEF IInv

LEMMA NumberIInv == IInv /\ Number => IInv'
<1> SUFFICES ASSUME IInv, Number PROVE IInv'
  OBVIOUS
<1>1. /\ source = "script"
      /\ events' = [i \in DOMAIN events |-> [events[i] EXCEPT !.ReadOrder = i - 1]]
      /\ UNCHANGED <<read_order_bitmap, check_readorder, prune_next_ts,
                     event_format, source, malformed>>
  BY DEF Number
<1>2. TypeOK /\ NextDue /\ events \in Seq(Event)
  BY DEF IInv, TypeOK
<1>3. DOMAIN events = 1 .. Len(events) /\ Len(events) \in Nat
  BY <1>2
<1>4. \A i \in DOMAIN events : /\ [events[i] EXCEPT !.ReadOrder = i - 1] \in Event
                               /\ [events[i] EXCEPT !.ReadOrder = i - 1].end
                                    = events[i].end
  <2> SUFFICES ASSUME NEW i \in DOMAIN events
               PROVE  /\ [events[i] EXCEPT !.ReadOrder = i - 1] \in Event
                      /\ [events[i] EXCEPT !.ReadOrder = i - 1].end = events[i].end
    OBVIOUS
  <2>1. events[i] \in Event /\ i - 1 \in Int
    BY <1>2, <1>3, EventFields
  <2> QED BY <2>1 DEF Event
<1>5. /\ events' \in Seq(Event) /\ Len(events') = Len(events)
      /\ DOMAIN events' = DOMAIN events
      /\ \A i \in DOMAIN events : events'[i].end = events[i].end
  <2> DEFINE num(i) == [events[i] EXCEPT !.ReadOrder = i - 1]
  <2>1. \A i \in DOMAIN events : num(i) \in Event /\ num(i).end = events[i].end
    BY <1>4
  <2>2. events' = [i \in 1 .. Len(events) |-> num(i)]
    BY <1>1, <1>3
  <2> HIDE DEF num
  <2> QED BY <1>3, <2>1, <2>2
<1>6. TypeOK'
  BY <1>1, <1>2, <1>5 DEF TypeOK
<1>7. NextDue'
  BY <1>1, <1>2, <1>5 DEF NextDue
<1>8. Fresh' /\ Distinct' /\ BitmapExact'
  BY <1>1 DEF Fresh, Distinct, BitmapExact
<1> QED BY <1>6, <1>7, <1>8 DEF IInv

\* The source is "none" when checking is switched.
LEMMA SetCheckIInv ==
  ASSUME ~MayToggle, IInv, NEW on \in BOOLEAN, SetCheckReadOrder(on)
  PROVE  IInv'
<1>1. /\ source = "none" /\ check_readorder' \in BOOLEAN
      /\ UNCHANGED <<events, read_order_bitmap, prune_next_ts, event_format,
                     source, malformed>>
  BY DEF SetCheckReadOrder
<1>2. TypeOK' /\ Fresh' /\ NextDue'
  BY <1>1 DEF IInv, TypeOK, Fresh, NextDue
<1>3. Distinct' /\ BitmapExact'
  BY <1>1 DEF Distinct, BitmapExact
<1> QED BY <1>2, <1>3 DEF IInv

LEMMA FlushIInv == IInv /\ Flush => IInv'
<1> SUFFICES ASSUME IInv, Flush PROVE IInv'
  OBVIOUS
<1>1. events' = <<>> /\ read_order_bitmap' = NULL /\ malformed' = {}
  BY DEF Flush
<1>2. events' \in Seq(Event) /\ Len(events') = 0 /\ DOMAIN events' = {}
  BY <1>1, NoEvents
<1>3. TypeOK'
  <2>1. Len(events') <= MaxEvents
    BY <1>2, TrackAssumption
  <2> QED BY <1>1, <1>2, <2>1 DEF Flush, IInv, TypeOK
<1>4. Fresh' /\ Distinct' /\ NextDue' /\ BitmapExact'
  BY <1>1, <1>2 DEF Flush, IInv, Fresh, Distinct, NextDue, BitmapExact
<1> QED BY <1>3, <1>4 DEF IInv

LEMMA FormatIInv == IInv /\ Format => IInv'
BY DEF IInv, Format, TypeOK, Fresh, Distinct, NextDue, BitmapExact, ReadOrders

\* The bits an event list leaves, when its expired events are dropped.
LEMMA PruneIInv ==
  ASSUME IInv, NEW deadline \in Times, Prune(deadline)
  PROVE  IInv'
<1> DEFINE keep == ToKeep(deadline)
<1>1. /\ TypeOK /\ Fresh /\ Distinct /\ NextDue /\ BitmapExact
      /\ events \in Seq(Event)
  BY DEF IInv, TypeOK
<1>2. UNCHANGED <<check_readorder, event_format, source, malformed>>
  BY DEF Prune
<1>4. CASE deadline < prune_next_ts
  <2>1. UNCHANGED <<events, read_order_bitmap, prune_next_ts>>
    BY <1>4 DEF Prune
  <2> QED
    BY <1>1, <1>2, <2>1
       DEF IInv, TypeOK, Fresh, Distinct, NextDue, BitmapExact, ReadOrders
<1>5. CASE ~(deadline < prune_next_ts)
  <2>1. PICK n \in 0 .. Len(events) : \E pick \in [1 .. n -> keep] :
           /\ Ascending(keep, pick)
           /\ events' = [i \in 1 .. n |-> events[pick[i]]]
    BY <1>5 DEF Prune
  <2>2. PICK pick \in [1 .. n -> keep] :
           /\ Ascending(keep, pick)
           /\ events' = [i \in 1 .. n |-> events[pick[i]]]
    BY <2>1
  <2>3. read_order_bitmap' = Cleared(deadline) /\ prune_next_ts' = MinEnd(keep)
    BY <1>5 DEF Prune
  <2>4. /\ keep \subseteq DOMAIN events
        /\ keep \subseteq Int
        /\ \A i \in keep : ~(events[i].end < deadline)
    BY <1>1 DEF ToKeep, Expired
  <2>5. /\ \A i, j \in 1 .. n : pick[i] = pick[j] => i = j
        /\ \A k \in keep : \E i \in 1 .. n : pick[i] = k
    <3>1. \A i, j \in 1 .. n : i < j => pick[i] < pick[j]
      BY <2>2 DEF Ascending
    <3>2. \A i \in 1 .. n : pick[i] \in Int
      BY <2>2, <2>4
    <3>3. \A i, j \in 1 .. n : pick[i] = pick[j] => i = j
      BY <3>1, <3>2
    <3>4. \A k \in keep : \E i \in 1 .. n : pick[i] = k
      BY <2>2 DEF Ascending, Range
    <3> QED BY <3>3, <3>4
  <2> HIDE DEF keep
  <2>6. /\ n \in Nat /\ n <= Len(events)
        /\ events' \in Seq(Event) /\ Len(events') = n /\ DOMAIN events' = 1 .. n
        /\ \A i \in 1 .. n : pick[i] \in keep /\ events'[i] = events[pick[i]]
    <3>1. n \in Nat /\ n <= Len(events)
      BY <1>1, <2>1
    <3>2. \A i \in 1 .. n : pick[i] \in keep /\ events[pick[i]] \in Event
      BY <1>1, <2>2, <2>4, EventFields
    <3> DEFINE ev(i) == events[pick[i]]
    <3>3. \A i \in 1 .. n : ev(i) \in Event
      BY <3>2
    <3>4. events' = [i \in 1 .. n |-> ev(i)]
      BY <2>2
    <3> HIDE DEF ev
    <3>5. /\ events' \in Seq(Event) /\ Len(events') = n /\ DOMAIN events' = 1 .. n
          /\ \A i \in 1 .. n : events'[i] = ev(i)
      BY <3>1, <3>3, <3>4
    <3> QED BY <3>1, <3>2, <3>5 DEF ev
  <2>9. ReadOrders(events') = {events[k].ReadOrder : k \in keep}
    BY <2>5, <2>6 DEF ReadOrders
  <2>10. prune_next_ts' \in Times \cup {Never} /\ NextDue'
    BY <1>1, <2>3, <2>4, <2>6, MinEndIsLeast DEF NextDue
  <2>11. read_order_bitmap' \in (SUBSET GoodIds) \cup {NULL}
    BY <1>1, <2>3 DEF Cleared, TypeOK
  <2>12. TypeOK' /\ Fresh'
    <3>1. Len(events') <= MaxEvents
      BY <1>1, <2>6, TrackAssumption DEF TypeOK
    <3>2. TypeOK'
      BY <1>1, <1>2, <2>6, <2>10, <2>11, <3>1 DEF TypeOK
    <3>3. Fresh'
      <4> SUFFICES ASSUME source = "none"
                   PROVE  events' = <<>> /\ read_order_bitmap' = NULL
        BY <1>2 DEF Fresh
      <4>1. Len(events) = 0 /\ read_order_bitmap = NULL
        BY <1>1, NoEvents DEF Fresh
      <4>2. n = 0
        BY <2>6, <4>1
      <4> QED BY <2>3, <2>6, <4>1, <4>2 DEF Cleared
    <3> QED BY <3>2, <3>3
  <2>13. Distinct'
    <3> SUFFICES ASSUME check_readorder, source = "packets",
                        NEW i \in 1 .. n, NEW j \in 1 .. n,
                        events'[i].ReadOrder = events'[j].ReadOrder
                 PROVE  i = j
      BY <1>2, <2>6 DEF Distinct
    <3>1. events[pick[i]].ReadOrder = events[pick[j]].ReadOrder
      BY <2>6
    <3>2. pick[i] = pick[j]
      BY <1>1, <2>4, <2>6, <3>1 DEF Distinct
    <3> QED BY <2>5, <3>2
  <2>14. BitmapExact'
    <3> SUFFICES ASSUME check_readorder, source = "packets",
                        read_order_bitmap' # NULL
                 PROVE  /\ ReadOrders(events') \subseteq read_order_bitmap'
                        /\ read_order_bitmap' \ malformed \subseteq ReadOrders(events')
      BY <1>2 DEF BitmapExact
    <3> DEFINE expired == {events[i].ReadOrder :
                  i \in {j \in DOMAIN events : Expired(events[j], deadline)}}
    <3>1. read_order_bitmap # NULL /\ read_order_bitmap' = read_order_bitmap \ expired
      BY <2>3 DEF Cleared
    <3>2. /\ ReadOrders(events) \subseteq read_order_bitmap
          /\ read_order_bitmap \ malformed \subseteq ReadOrders(events)
      BY <1>1, <3>1 DEF BitmapExact
    <3>3. \A k \in keep : /\ events[k].ReadOrder \in ReadOrders(events)
                          /\ events[k].ReadOrder \notin expired
      BY <1>1, <2>4 DEF Distinct, ReadOrders, Expired
    <3>4. \A x \in ReadOrders(events) \ expired :
            \E k \in keep : x = events[k].ReadOrder
      BY DEF ReadOrders, keep, ToKeep
    <3> QED BY <2>9, <3>1, <3>2, <3>3, <3>4
  <2> QED BY <2>10, <2>12, <2>13, <2>14 DEF IInv
<1> QED BY <1>4, <1>5

\* Every step keeps the invariant, and stores no duplicate.
LEMMA StepIInv ==
  ASSUME ~MayToggle, IInv, Next
  PROVE  /\ IInv'
         /\ check_readorder /\ source' = "packets" /\ Len(events') > Len(events) =>
              Last(events').ReadOrder \notin ReadOrders(events)
<1>2. events \in Seq(Event)
  BY DEF IInv, TypeOK
<1>3. ASSUME NEW id \in Ids, NEW end \in Times, NEW wellformed \in BOOLEAN,
             NEW fails \in Failures, ProcessChunk(id, end, wellformed, fails)
      PROVE  /\ IInv'
             /\ check_readorder /\ Len(events') > Len(events) =>
                  Last(events').ReadOrder \notin ReadOrders(events)
  BY <1>3, ProcessChunkIInv
<1>4. ASSUME NEW fails \in Failures, SkipChunk(fails)
      PROVE  IInv' /\ ~(Len(events') > Len(events))
  BY <1>2, <1>4, SkipChunkIInv DEF SkipChunk
<1>5. ASSUME Format
      PROVE  IInv' /\ ~(Len(events') > Len(events))
  BY <1>2, <1>5, FormatIInv DEF Format
<1>6. ASSUME Number
      PROVE  IInv' /\ source' # "packets"
  BY <1>6, NumberIInv DEF Number
<1>7. ASSUME NEW end \in Times, NEW wellformed \in BOOLEAN,
             Dialogue(end, wellformed)
      PROVE  IInv' /\ source' # "packets"
  BY <1>7, DialogueIInv DEF Dialogue
<1>8. ASSUME NEW on \in BOOLEAN, SetCheckReadOrder(on)
      PROVE  IInv' /\ ~(Len(events') > Len(events))
  BY <1>2, <1>8, SetCheckIInv DEF SetCheckReadOrder
<1>9. ASSUME Flush
      PROVE  IInv' /\ ~(Len(events') > Len(events))
  <2>1. events' = <<>>
    BY <1>9 DEF Flush
  <2>2. Len(events') = 0
    BY <2>1, NoEvents
  <2> QED BY <1>2, <1>9, <2>2, FlushIInv
<1>10. ASSUME NEW deadline \in Times, Prune(deadline)
       PROVE  IInv' /\ ~(Len(events') > Len(events))
  <2>1. IInv'
    BY <1>10, PruneIInv
  <2>2. CASE deadline < prune_next_ts
    BY <1>2, <1>10, <2>1, <2>2 DEF Prune
  <2>3. CASE ~(deadline < prune_next_ts)
    <3>1. PICK n \in 0 .. Len(events) :
            \E pick \in [1 .. n -> ToKeep(deadline)] :
              events' = [i \in 1 .. n |-> events[pick[i]]]
      BY <1>10, <2>3 DEF Prune
    <3>2. DOMAIN events' = 1 .. n /\ events' \in Seq(Event)
      BY <2>1, <3>1 DEF IInv, TypeOK
    <3>3. Len(events') = n
      BY <1>2, <3>1, <3>2
    <3> QED BY <1>2, <2>1, <3>1, <3>3
  <2> QED BY <2>2, <2>3
<1> QED
  BY <1>3, <1>4, <1>5, <1>6, <1>7, <1>8, <1>9, <1>10
     DEF Next, Read, DropEvents

-----------------------------------------------------------------------------
(* The theorems                                                            *)

\* The invariant holds of every event list whose duplicate checking is left
\* alone once events have been read.
THEOREM Consistent == ~MayToggle => (Spec => []IInv)
<1> SUFFICES ASSUME ~MayToggle PROVE Spec => []IInv
  OBVIOUS
<1>1. IInv /\ [Next]_vars => IInv'
  <2>1. IInv /\ Next => IInv'
    BY StepIInv
  <2>2. IInv /\ UNCHANGED vars => IInv'
    BY DEF IInv, vars, TypeOK, Fresh, Distinct, NextDue, BitmapExact, ReadOrders
  <2> QED BY <2>1, <2>2
<1> QED BY InitIInv, <1>1, PTL DEF Spec

\* The ReadOrder bitmap has the bits of the events of the list, and of none
\* that have been pruned.
THEOREM BitmapFollowsEvents == ~MayToggle => (Spec => []BitmapExact)
<1>1. IInv => BitmapExact
  BY DEF IInv
<1> QED BY <1>1, Consistent, PTL

\* "discard the packet if there was already a packet with the same ReadOrder".
THEOREM NoDuplicates == ~MayToggle => (Spec => DuplicatesDiscarded)
<1> SUFFICES ASSUME ~MayToggle PROVE Spec => DuplicatesDiscarded
  OBVIOUS
<1> DEFINE Fits == check_readorder /\ source' = "packets"
                     /\ Len(events') > Len(events) =>
                     Last(events').ReadOrder \notin ReadOrders(events)
<1>1. IInv /\ [Next]_vars => [Fits]_vars
  BY StepIInv
<1> QED BY <1>1, Consistent, PTL DEF Spec, DuplicatesDiscarded

\* The early return of ass_prune_events misses no event.
THEOREM PruneComplete == ~MayToggle => (Spec => []NextDue)
<1>1. IInv => NextDue
  BY DEF IInv
<1> QED BY <1>1, Consistent, PTL

\* resize_read_order_bitmap's arithmetic, for every ReadOrder it lets through:
\* the words it grows the bitmap to, when the id is beyond the words it has,
\* are no fewer than those ("assert(elems >= oldelems)"), include the id's
\* word, and their size in bytes fits an int.
THEOREM GrownBitmapFits ==
  ASSUME NEW id \in Nat, id < 10 * 1024 * 1024 * 8,
         NEW oldelems \in Nat, id >= oldelems * 32
  PROVE  /\ GrownElems(id) >= oldelems
         /\ WordOf(id) < GrownElems(id)
         /\ GrownElems(id) * 4 <= 2147483647
<1>1. PICK q \in Int : q = (id + 31) \div 32 /\ 32 * q <= id + 31 /\ id + 31 < 32 * q + 32
  BY SMT
<1>2. PICK w \in Int : w = id \div 32 /\ 32 * w <= id /\ id < 32 * w + 32
  BY SMT
<1>3. GrownElems(id) = (q + 1) * 2 /\ WordOf(id) = w
  BY <1>1, <1>2, SMT DEF GrownElems, WordOf
<1>4. id \in Int /\ 0 <= id /\ id < 83886080
  BY SMT
<1> QED BY <1>1, <1>2, <1>3, <1>4, SMT

=============================================================================
