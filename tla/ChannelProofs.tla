----------------------------- MODULE ChannelProofs -----------------------------
(***************************************************************************)
(* What the news feed and the link forwarder promise, for every bound:     *)
(* slots, items and links come once, and once more only for something that *)
(* was lost on the way.                                                    *)
(***************************************************************************)
EXTENDS GeekNews, LinkDeliveries, FiniteSetTheorems, SequenceTheorems, TLAPS

CONSTANTS
    MaxLinks, MaxMentions,
    HEALTH_TIMEOUT, ASIDE_COLLECT_TIMEOUT, Durations, MaxRequests

VARIABLES requests, faults

Fwd == INSTANCE LinkForward

-----------------------------------------------------------------------------
(* News: what holds of the posters *)

Busy == {p \in Posters : poster[p].pc # "idle"}
Due == {p \in Posters : poster[p].pc \in {"fetch", "send"}}

PosterFields == {"pc", "cursor", "slot", "ids", "newest"}
CursorShape(c) == c.seen \subseteq Items /\ c.slots \in Seq(Nat)

PosterShape(p) ==
    /\ DOMAIN poster[p] = PosterFields
    /\ poster[p].pc \in {"idle", "fetch", "send", "store"}
    /\ poster[p].slot \in Nat /\ poster[p].slot <= slot.last
    /\ poster[p].ids \subseteq Items
    /\ CursorShape(poster[p].cursor)
    /\ poster[p].pc # "idle" => poster[p].slot \notin Range(poster[p].cursor.slots)

\* The part of the types the arguments use.  A poster's slot is none that its
\* cursor knows, and nothing is of a slot that has not opened.
Shape ==
    /\ DOMAIN poster = Posters
    /\ \A p \in Posters : PosterShape(p)
    /\ CursorShape(cursor)
    /\ slot \in [last : Nat, open : BOOLEAN]
    /\ feed \in Seq(Items)
    /\ posts \in Seq([slot : Nat, ids : SUBSET Items])
    /\ \A n \in DOMAIN posts : posts[n].slot <= slot.last
    /\ mishaps \in Nat
    /\ IsFiniteSet(Due)

-----------------------------------------------------------------------------
(* What a step does to its poster *)

LEMMA LastKept ==
    ASSUME NEW q \in Seq(Nat), q # <<>>, NEW n \in Nat \ {0}
    PROVE  LastOf(n, q) \in Seq(Nat) /\ q[Len(q)] \in Range(LastOf(n, q))
<1>1. Len(q) \in Nat /\ Len(q) > 0 /\ n \in Nat /\ n > 0
  BY EmptySeq
<1>2. CASE Len(q) > n
  <2>1. /\ SubSeq(q, Len(q) - n + 1, Len(q)) \in Seq(Nat)
        /\ Len(SubSeq(q, Len(q) - n + 1, Len(q))) = n
        /\ SubSeq(q, Len(q) - n + 1, Len(q))[n] = q[Len(q)]
    BY <1>1, <1>2
  <2>2. LastOf(n, q) = SubSeq(q, Len(q) - n + 1, Len(q))
    BY <1>2 DEF LastOf
  <2>3. n \in DOMAIN LastOf(n, q) /\ LastOf(n, q)[n] = q[Len(q)]
    BY <1>1, <2>1, <2>2
  <2>. QED
    BY <2>1, <2>2, <2>3 DEF Range
<1>3. CASE ~(Len(q) > n)
  BY <1>1, <1>3 DEF LastOf, Range
<1>. QED
  BY <1>2, <1>3

\* The cursor after a post knows its slot, and forgets the least ids only.
LEMMA CommittedKnows ==
    ASSUME NEW c, CursorShape(c), NEW ids \in SUBSET Items, NEW newest,
           NEW s \in Nat, s \notin Range(c.slots)
    PROVE  LET d == Committed(c, ids, newest, s)
           IN  /\ CursorShape(d)
               /\ s \in Range(d.slots)
               /\ d.seen = Newest(SEEN_CAP, c.seen \cup ids)
<1>. DEFINE d == Committed(c, ids, newest, s)
            q == Append(c.slots, s)
<1>1. d.slots = LastOf(SLOTS_CAP, q) /\ d.seen = Newest(SEEN_CAP, c.seen \cup ids)
  BY DEF Committed, SeenAll
<1>2. q \in Seq(Nat) /\ q # <<>> /\ q[Len(q)] = s
  BY DEF CursorShape
<1>3. SLOTS_CAP \in Nat \ {0}
  BY NewsAssumption
<1>4. d.slots \in Seq(Nat) /\ s \in Range(d.slots)
  BY <1>1, <1>2, <1>3, LastKept
<1>5. d.seen \subseteq Items
  BY <1>1 DEF Newest, CursorShape
<1>. QED
  BY <1>1, <1>4, <1>5 DEF CursorShape

\* What every step of p leaves alone.
Others(p) == DOMAIN poster' = Posters /\ \A q \in Posters : q # p => poster'[q] = poster[q]

Left(p) == Others(p) /\ poster'[p] = NoPost

LEMMA GivesUp ==
    ASSUME Shape, NEW p \in Posters, GiveUp(p)
    PROVE  Left(p)
BY DEF Shape, GiveUp, Left, Others

\* A new attempt has the stored cursor and the open slot.
LEMMA StartStep ==
    ASSUME Shape, NEW p \in Posters, Start(p)
    PROVE  /\ Others(p) /\ poster[p].pc = "idle" /\ slot.last \notin Range(cursor.slots)
           /\ DOMAIN poster'[p] = PosterFields
           /\ poster'[p].pc = "fetch" /\ poster'[p].cursor = cursor
           /\ poster'[p].slot = slot.last /\ poster'[p].ids = {}
           /\ IF Busy = {} THEN mishaps' = mishaps ELSE mishaps' = mishaps + 1
           /\ UNCHANGED <<cursor, feed, slot, posts>>
<1>. DEFINE new == [NoPost EXCEPT !.pc = "fetch", !.cursor = cursor, !.slot = slot.last]
<1>1. /\ DOMAIN new = PosterFields /\ new.pc = "fetch" /\ new.cursor = cursor
      /\ new.slot = slot.last /\ new.ids = {}
  BY DEF NoPost, PosterFields
<1>2. poster' = [poster EXCEPT ![p] = new]
  BY DEF Start
<1>. HIDE DEF new
<1>3. Others(p) /\ poster'[p] = new
  BY <1>2 DEF Shape, Others
<1>4. IF Busy = {} THEN mishaps' = mishaps ELSE mishaps' = mishaps + 1
  BY DEF Start, Busy
<1>. QED
  BY <1>1, <1>3, <1>4 DEF Start, At

\* What is read from the feed is unseen.
LEMMA FetchStep ==
    ASSUME Shape, NEW p \in Posters, Fetch(p), ~Left(p)
    PROVE  /\ Others(p) /\ poster[p].pc = "fetch"
           /\ DOMAIN poster'[p] = PosterFields /\ poster'[p].pc = "send"
           /\ poster'[p].cursor = poster[p].cursor /\ poster'[p].slot = poster[p].slot
           /\ poster'[p].ids \subseteq Items
           /\ poster'[p].ids \cap poster[p].cursor.seen = {}
<1>. DEFINE fresh == Fresh(poster[p].cursor, feed)
            ids == {feed[n] : n \in Least(MAX_ITEMS, fresh)}
            new == [poster[p] EXCEPT !.pc = "send", !.ids = ids, !.newest = Max(Range(feed))]
<1>1. poster' = [poster EXCEPT ![p] = new]
  BY GivesUp DEF Fetch
<1>2. /\ DOMAIN new = PosterFields /\ new.pc = "send" /\ new.cursor = poster[p].cursor
      /\ new.slot = poster[p].slot /\ new.ids = ids
  BY DEF Shape, PosterShape, PosterFields
<1>3. Least(MAX_ITEMS, fresh) \subseteq fresh
  BY DEF Least
<1>4. \A n \in fresh : feed[n] \in Items /\ feed[n] \notin poster[p].cursor.seen
  BY DEF Fresh, Shape
<1>5. ids \subseteq Items /\ ids \cap poster[p].cursor.seen = {}
  BY <1>3, <1>4
<1>. HIDE DEF new, ids
<1>6. Others(p) /\ poster'[p] = new
  BY <1>1 DEF Shape, Others
<1>. QED
  BY <1>2, <1>5, <1>6 DEF Fetch, At

LEMMA SendStep ==
    ASSUME Shape, NEW p \in Posters, Send(p)
    PROVE  /\ Others(p) /\ poster[p].pc = "send" /\ Posted(p)
           /\ DOMAIN poster'[p] = PosterFields /\ poster'[p].pc = "store"
           /\ poster'[p].cursor = poster[p].cursor /\ poster'[p].slot = poster[p].slot
           /\ poster'[p].ids = poster[p].ids
<1>1. poster' = [poster EXCEPT ![p] = [poster[p] EXCEPT !.pc = "store"]]
  BY DEF Send
<1>2. Others(p) /\ poster'[p] = [poster[p] EXCEPT !.pc = "store"]
  BY <1>1 DEF Shape, Others
<1>. QED
  BY <1>2 DEF Send, At, Shape, PosterShape, PosterFields

LEMMA PostedStep ==
    ASSUME Shape, NEW p \in Posters, Posted(p)
    PROVE  /\ posts' \in Seq([slot : Nat, ids : SUBSET Items])
           /\ Len(posts) \in Nat /\ Len(posts') = Len(posts) + 1
           /\ DOMAIN posts = 1..Len(posts) /\ DOMAIN posts' = 1..(Len(posts) + 1)
           /\ posts'[Len(posts) + 1].slot = poster[p].slot
           /\ posts'[Len(posts) + 1].ids = poster[p].ids
           /\ \A m \in DOMAIN posts : posts'[m] = posts[m]
<1>. DEFINE post == [slot |-> poster[p].slot, ids |-> poster[p].ids]
            n == Len(posts) + 1
<1>1. post \in [slot : Nat, ids : SUBSET Items] /\ posts' = Append(posts, post)
  BY DEF Shape, PosterShape, Posted
<1>2. /\ posts' \in Seq([slot : Nat, ids : SUBSET Items]) /\ Len(posts) \in Nat
      /\ Len(posts') = n /\ DOMAIN posts' = 1..n /\ DOMAIN posts = 1..Len(posts)
      /\ posts'[n] = post /\ \A m \in 1..Len(posts) : posts'[m] = posts[m]
  <2>. HIDE DEF post
  <2>. QED
    BY <1>1 DEF Shape
<1>. QED
  BY <1>2

-----------------------------------------------------------------------------
(* Types *)

LEMMA NoPostShape ==
    /\ DOMAIN NoPost = PosterFields /\ NoPost.pc = "idle" /\ NoPost.slot = 0 /\ NoPost.ids = {}
    /\ NoPost.cursor = NoCursor /\ CursorShape(NoCursor)
<1>1. /\ DOMAIN NoPost = PosterFields /\ NoPost.pc = "idle" /\ NoPost.slot = 0 /\ NoPost.ids = {}
      /\ NoPost.cursor = NoCursor /\ NoCursor.seen = {} /\ NoCursor.slots = <<>>
  BY DEF NoPost, NoCursor, PosterFields
<1>. QED
  BY <1>1 DEF CursorShape

LEMMA ShapeInit == Init => Shape
<1>. SUFFICES ASSUME Init PROVE Shape
  OBVIOUS
<1>3. slot \in [last : Nat, open : BOOLEAN] /\ slot.last = 0
  BY DEF Init
<1>4. DOMAIN poster = Posters /\ \A p \in Posters : poster[p] = NoPost
  BY DEF Init
<1>5. \A p \in Posters : PosterShape(p)
  BY <1>3, <1>4, NoPostShape DEF PosterShape
<1>6. Due = {}
  BY <1>4, NoPostShape DEF Due
<1>7. IsFiniteSet(Due)
  BY <1>6, FS_EmptySet
<1>8. posts \in Seq([slot : Nat, ids : SUBSET Items]) /\ DOMAIN posts = {} /\ feed \in Seq(Items)
      /\ mishaps \in Nat /\ cursor = NoCursor
  BY DEF Init
<1>. QED
  BY <1>3, <1>4, <1>5, <1>7, <1>8, NoPostShape DEF Shape

\* One poster takes a step with the slot, and the types of the others stand.
LEMMA OthersShape ==
    ASSUME Shape, NEW p \in Posters, Others(p), slot' = slot, PosterShape(p)'
    PROVE  /\ DOMAIN poster' = Posters
           /\ \A q \in Posters : PosterShape(q)'
           /\ IsFiniteSet(Due')
<1>1. \A q \in Posters : q # p => PosterShape(q)'
  BY DEF Others, Shape, PosterShape
<1>2. Due' \subseteq Due \cup {p}
  BY DEF Others, Due
<1>3. IsFiniteSet(Due \cup {p})
  BY FS_AddElement DEF Shape
<1>4. IsFiniteSet(Due')
  BY <1>2, <1>3, FS_Subset
<1>. QED
  BY <1>1, <1>4 DEF Others

LEMMA LeftShape ==
    ASSUME Shape, NEW p \in Posters, Left(p), slot' = slot
    PROVE  PosterShape(p)'
<1>1. slot.last \in Nat
  BY DEF Shape
<1>. QED
  BY <1>1, NoPostShape DEF Left, PosterShape

LEMMA AttemptShape ==
    ASSUME Shape, NEW p \in Posters, Attempt(p)
    PROVE  Shape'
<1>1. slot' = slot /\ feed' = feed /\ mishaps' \in Nat
  BY DEF Attempt, Start, Fetch, FetchFails, Send, SendFails, Store, StoreFails, Shape
<1>2. PosterShape(p)' /\ Others(p)
  <2>1. CASE Left(p)
    BY <1>1, <2>1, LeftShape DEF Left
  <2>2. CASE Start(p)
    BY <1>1, <2>2, StartStep DEF Shape, PosterShape, CursorShape
  <2>3. CASE Fetch(p) /\ ~Left(p)
    BY <1>1, <2>3, FetchStep DEF Shape, PosterShape
  <2>4. CASE Send(p)
    BY <1>1, <2>4, SendStep DEF Shape, PosterShape
  <2>5. CASE FetchFails(p) \/ SendFails(p) \/ Store(p) \/ StoreFails(p)
    BY <2>1, <2>5, GivesUp DEF FetchFails, SendFails, Store, StoreFails
  <2>. QED
    BY <2>1, <2>2, <2>3, <2>4, <2>5 DEF Attempt
<1>3. CursorShape(cursor')
  <2>1. CASE UNCHANGED cursor
    BY <2>1 DEF Shape
  <2>2. CASE Store(p)
    <3>1. /\ poster[p].pc = "store" /\ CursorShape(poster[p].cursor) /\ poster[p].ids \in SUBSET Items
          /\ poster[p].slot \in Nat /\ poster[p].slot \notin Range(poster[p].cursor.slots)
      BY <2>2 DEF Store, At, Shape, PosterShape
    <3>. QED
      BY <2>2, <3>1, CommittedKnows DEF Store
  <2>. QED
    BY <2>1, <2>2 DEF Attempt, Start, Fetch, FetchFails, Send, SendFails, StoreFails
<1>4. /\ posts' \in Seq([slot : Nat, ids : SUBSET Items])
      /\ \A n \in DOMAIN posts' : posts'[n].slot <= slot'.last
  <2>1. CASE UNCHANGED posts
    BY <1>1, <2>1 DEF Shape
  <2>2. CASE Posted(p)
    <3>1. \A n \in 1..Len(posts) : posts[n].slot <= slot.last
      BY <2>2, PostedStep DEF Shape
    <3>2. poster[p].slot <= slot.last
      BY DEF Shape, PosterShape
    <3>3. \A n \in 1..(Len(posts) + 1) : n \in 1..Len(posts) \/ n = Len(posts) + 1
      BY <2>2, PostedStep
    <3>. QED
      BY <1>1, <2>2, <3>1, <3>2, <3>3, PostedStep
  <2>. QED
    BY <2>1, <2>2 DEF Attempt, Start, Fetch, FetchFails, Send, SendFails, Store, StoreFails
<1>. QED
  BY <1>1, <1>2, <1>3, <1>4, OthersShape DEF Shape

\* Time and the feed move without the posters.
LEMMA WorldStep ==
    ASSUME Shape, UNCHANGED vars \/ OpenSlot \/ CloseSlot \/ (\E i \in Items : Publish(i))
    PROVE  /\ UNCHANGED <<cursor, poster, posts, mishaps>>
           /\ slot' \in [last : Nat, open : BOOLEAN]
           /\ slot'.last = slot.last \/ slot'.last = slot.last + 1
<1>1. slot \in [last : Nat, open : BOOLEAN]
  BY DEF Shape
<1>2. CASE OpenSlot
  BY <1>1, <1>2 DEF OpenSlot
<1>3. CASE CloseSlot
  BY <1>1, <1>3 DEF CloseSlot
<1>4. CASE UNCHANGED vars \/ \E i \in Items : Publish(i)
  BY <1>1, <1>4 DEF vars, Publish
<1>. QED
  BY <1>2, <1>3, <1>4

LEMMA WorldShape ==
    ASSUME Shape, UNCHANGED vars \/ OpenSlot \/ CloseSlot \/ (\E i \in Items : Publish(i))
    PROVE  Shape'
<1>1. /\ UNCHANGED <<cursor, poster, posts, mishaps>>
      /\ slot' \in [last : Nat, open : BOOLEAN] /\ slot.last \in Nat /\ slot.last <= slot'.last
  BY WorldStep DEF Shape
<1>2. \A p \in Posters : PosterShape(p)'
  BY <1>1 DEF Shape, PosterShape
<1>3. posts \in Seq([slot : Nat, ids : SUBSET Items]) /\ \A n \in DOMAIN posts : posts[n].slot <= slot.last
  BY DEF Shape
<1>4. \A n \in DOMAIN posts' : posts'[n].slot <= slot'.last
  <2>1. SUFFICES ASSUME NEW n \in DOMAIN posts PROVE posts[n].slot <= slot'.last
    BY <1>1
  <2>2. posts[n] \in [slot : Nat, ids : SUBSET Items]
    <3>1. n \in 1..Len(posts)
      BY <1>3
    <3>. QED
      BY <1>3, <3>1, ElementOfSeq
  <2>3. posts[n].slot \in Nat /\ posts[n].slot <= slot.last
    BY <1>3, <2>2
  <2>. QED
    BY <1>1, <2>3
<1>5. feed' \in Seq(Items)
  <2>1. CASE UNCHANGED feed
    BY <2>1 DEF Shape
  <2>2. ASSUME NEW i \in Items, Publish(i) PROVE feed' \in Seq(Items)
    <3>. DEFINE q == <<i>> \o feed
                n == IF Len(feed) < FeedLength THEN Len(feed) + 1 ELSE FeedLength
    <3>1. q \in Seq(Items) /\ Len(q) = Len(feed) + 1 /\ Len(feed) \in Nat
      BY DEF Shape
    <3>2. n \in Nat /\ n <= Len(q)
      BY <3>1, NewsAssumption
    <3>3. SubSeq(q, 1, n) \in Seq(Items)
      <4>. HIDE DEF q, n
      <4>1. \A k \in 1..n : q[k] \in Items
        BY <3>1, <3>2
      <4>. QED
        BY <3>1, <3>2, <4>1, SubSeqProperties
    <3>. QED
      BY <2>2, <3>3 DEF Publish
  <2>. QED
    BY <2>1, <2>2 DEF vars, OpenSlot, CloseSlot
<1>6. Due' = Due
  BY <1>1 DEF Due
<1>. QED
  BY <1>1, <1>2, <1>4, <1>5, <1>6 DEF Shape

LEMMA ShapeStep == Shape /\ [Next]_vars => Shape'
  BY AttemptShape, WorldShape DEF Next

-----------------------------------------------------------------------------
(* Slots *)

PostedSlots == {posts[n].slot : n \in DOMAIN posts}
Repeats == {n \in DOMAIN posts : \E m \in 1..(n - 1) : posts[m].slot = posts[n].slot}

\* Nobody can start on the open slot alone and without a fault: its posters, and
\* no others, are at work, or the stored cursor has it.
Guarded ==
    /\ \A p \in Busy : poster[p].slot = slot.last
    /\ slot.last \in Range(cursor.slots) \/ Busy # {}

Touched == PostedSlots \cup {poster[p].slot : p \in Due}
Settled == IF Guarded THEN Touched ELSE Touched \ {slot.last}

\* Every post, made or due, is the first of a settled slot or has a fault.
SlotInv ==
    /\ IsFiniteSet(PostedSlots) /\ IsFiniteSet(Repeats)
    /\ Cardinality(Repeats) + Cardinality(PostedSlots) = Len(posts)
    /\ Len(posts) + Cardinality(Due) <= mishaps + Cardinality(Settled)

\* One step of the sums: what a set loses or gains when one element goes.
LEMMA OneGone ==
    ASSUME NEW S, NEW T, NEW x, IsFiniteSet(S), IsFiniteSet(T), S \ {x} \subseteq T
    PROVE  /\ Cardinality(S) \in Nat /\ Cardinality(T) \in Nat
           /\ Cardinality(S) <= Cardinality(T) + 1
           /\ x \in T \/ x \notin S => Cardinality(S) <= Cardinality(T)
           /\ x \notin S /\ x \in T => Cardinality(S) + 1 <= Cardinality(T)
<1>1. /\ Cardinality(S) \in Nat /\ Cardinality(T) \in Nat
      /\ IsFiniteSet(T \cup {x}) /\ Cardinality(T \cup {x}) \in Nat
      /\ Cardinality(T \cup {x}) <= Cardinality(T) + 1
  BY FS_CardinalityType, FS_AddElement
<1>2. Cardinality(S) <= Cardinality(T \cup {x})
  BY <1>1, FS_Subset
<1>3. ASSUME x \in T \/ x \notin S PROVE Cardinality(S) <= Cardinality(T)
  BY <1>3, FS_Subset
<1>4. ASSUME x \notin S, x \in T PROVE Cardinality(S) + 1 <= Cardinality(T)
  <2>1. IsFiniteSet(T \ {x}) /\ Cardinality(T \ {x}) = Cardinality(T) - 1
    BY <1>4, FS_RemoveElement
  <2>2. Cardinality(S) <= Cardinality(T \ {x})
    BY <1>4, <2>1, FS_Subset
  <2>. QED
    BY <1>1, <2>1, <2>2
<1>. QED
  BY <1>1, <1>2, <1>3, <1>4

LEMMA DueSlots ==
    ASSUME Shape
    PROVE  LET slots == {poster[p].slot : p \in Due}
           IN  /\ IsFiniteSet(slots) /\ Cardinality(slots) \in Nat
               /\ Cardinality(slots) <= Cardinality(Due) /\ Cardinality(Due) \in Nat
<1>. DEFINE slots == {poster[p].slot : p \in Due}
            f == [p \in Due |-> poster[p].slot]
<1>1. IsFiniteSet(Due)
  BY DEF Shape
<1>2. f \in Surjection(Due, slots)
  BY DEF Surjection
<1>3. IsFiniteSet(slots) /\ Cardinality(slots) <= Cardinality(Due)
  BY <1>1, <1>2, FS_Surjection
<1>. QED
  BY <1>1, <1>3, FS_CardinalityType

LEMMA FiniteSlots ==
    ASSUME Shape, IsFiniteSet(PostedSlots)
    PROVE  IsFiniteSet(Touched) /\ IsFiniteSet(Settled)
<1>1. IsFiniteSet({poster[p].slot : p \in Due})
  BY DueSlots
<1>2. IsFiniteSet(Touched)
  BY <1>1, FS_Union DEF Touched
<1>3. Settled \subseteq Touched
  BY DEF Settled
<1>. QED
  BY <1>2, <1>3, FS_Subset

\* A post is a repetition or its slot is new.
LEMMA RepeatsStep ==
    ASSUME Shape, SlotInv, NEW p \in Posters, Posted(p)
    PROVE  /\ PostedSlots' = PostedSlots \cup {poster[p].slot}
           /\ IsFiniteSet(PostedSlots') /\ IsFiniteSet(Repeats')
           /\ Cardinality(Repeats') + Cardinality(PostedSlots') = Len(posts')
<1>. DEFINE n == Len(posts) + 1
            s == poster[p].slot
<1>0. /\ Len(posts) \in Nat /\ Len(posts') = n /\ DOMAIN posts = 1..Len(posts) /\ DOMAIN posts' = 1..n
      /\ posts'[n].slot = s /\ \A m \in DOMAIN posts : posts'[m] = posts[m]
  BY PostedStep
<1>1. /\ Len(posts) \in Nat /\ Len(posts') = n /\ DOMAIN posts = 1..Len(posts)
      /\ DOMAIN posts' = DOMAIN posts \cup {n} /\ n \notin DOMAIN posts
      /\ posts'[n].slot = s /\ \A m \in DOMAIN posts : posts'[m] = posts[m]
  BY <1>0
<1>2. PostedSlots' = PostedSlots \cup {s}
  BY <1>1 DEF PostedSlots
<1>3. ASSUME NEW m \in DOMAIN posts
      PROVE  m \in Repeats' <=> m \in Repeats
  <2>1. m \in DOMAIN posts' /\ 1..(m - 1) \subseteq DOMAIN posts
    BY <1>1, <1>3
  <2>. QED
    BY <1>1, <1>3, <2>1 DEF Repeats
<1>4. n \in Repeats' <=> s \in PostedSlots
  <2>1. n \in DOMAIN posts' /\ 1..(n - 1) = DOMAIN posts
    BY <1>1
  <2>. QED
    BY <1>1, <2>1 DEF Repeats, PostedSlots
<1>5. Repeats' \subseteq DOMAIN posts' /\ Repeats \subseteq DOMAIN posts
  BY DEF Repeats
<1>6. /\ IsFiniteSet(PostedSlots) /\ IsFiniteSet(Repeats)
      /\ Cardinality(PostedSlots) \in Nat /\ Cardinality(Repeats) \in Nat
      /\ Cardinality(Repeats) + Cardinality(PostedSlots) = Len(posts)
  BY FS_CardinalityType DEF SlotInv
<1>7. CASE s \in PostedSlots
  <2>1. Repeats' = Repeats \cup {n} /\ n \notin Repeats
    BY <1>1, <1>3, <1>4, <1>5, <1>7
  <2>2. PostedSlots' = PostedSlots
    BY <1>2, <1>7
  <2>3. IsFiniteSet(Repeats') /\ Cardinality(Repeats') = Cardinality(Repeats) + 1
    BY <1>6, <2>1, FS_AddElement
  <2>4. IsFiniteSet(PostedSlots') /\ Cardinality(PostedSlots') = Cardinality(PostedSlots)
    BY <1>6, <2>2
  <2>. QED
    BY <1>1, <1>2, <1>6, <2>3, <2>4
<1>8. CASE s \notin PostedSlots
  <2>1. Repeats' = Repeats
    BY <1>1, <1>3, <1>4, <1>5, <1>8
  <2>2. IsFiniteSet(PostedSlots') /\ Cardinality(PostedSlots') = Cardinality(PostedSlots) + 1
    BY <1>2, <1>6, <1>8, FS_AddElement
  <2>. QED
    BY <1>1, <1>2, <1>6, <2>1, <2>2
<1>. QED
  BY <1>7, <1>8

\* The three sums after a step: no step posts, takes up or gives up without
\* paying, except a start on an unguarded slot, which makes it guarded.
LEMMA SumsStep ==
    ASSUME Shape, SlotInv, IsFiniteSet(PostedSlots'), IsFiniteSet(Settled'), IsFiniteSet(Due')
    PROVE  /\ Cardinality(Due) \in Nat /\ Cardinality(Due') \in Nat
           /\ Cardinality(Settled) \in Nat /\ Cardinality(Settled') \in Nat
           /\ mishaps \in Nat /\ Len(posts) \in Nat
           /\ Len(posts) + Cardinality(Due) <= mishaps + Cardinality(Settled)
           /\ Settled \subseteq Settled' => Cardinality(Settled) <= Cardinality(Settled')
           /\ \A x : Settled \ {x} \subseteq Settled' => Cardinality(Settled) <= Cardinality(Settled') + 1
           /\ \A x : x \notin Settled /\ x \in Settled' /\ Settled \subseteq Settled'
                        => Cardinality(Settled) + 1 <= Cardinality(Settled')
           /\ Due' = Due => Cardinality(Due') = Cardinality(Due)
           /\ \A x : x \notin Due /\ Due' = Due \cup {x} => Cardinality(Due') = Cardinality(Due) + 1
           /\ \A x : x \in Due /\ Due' = Due \ {x} => Cardinality(Due') = Cardinality(Due) - 1
<1>1. /\ IsFiniteSet(Settled) /\ IsFiniteSet(Due) /\ mishaps \in Nat /\ Len(posts) \in Nat
      /\ Len(posts) + Cardinality(Due) <= mishaps + Cardinality(Settled)
  BY FiniteSlots DEF SlotInv, Shape
<1>2. /\ Cardinality(Due) \in Nat /\ Cardinality(Due') \in Nat
      /\ Cardinality(Settled) \in Nat /\ Cardinality(Settled') \in Nat
  BY <1>1, FS_CardinalityType
<1>3. Settled \subseteq Settled' => Cardinality(Settled) <= Cardinality(Settled')
  BY <1>1, FS_Subset
<1>4. ASSUME NEW x
      PROVE  /\ Settled \ {x} \subseteq Settled' => Cardinality(Settled) <= Cardinality(Settled') + 1
             /\ x \notin Settled /\ x \in Settled' /\ Settled \subseteq Settled'
                   => Cardinality(Settled) + 1 <= Cardinality(Settled')
  BY <1>1, OneGone
<1>5. ASSUME NEW x
      PROVE  /\ x \notin Due /\ Due' = Due \cup {x} => Cardinality(Due') = Cardinality(Due) + 1
             /\ x \in Due /\ Due' = Due \ {x} => Cardinality(Due') = Cardinality(Due) - 1
  BY <1>1, FS_AddElement, FS_RemoveElement
<1>. QED
  BY <1>1, <1>2, <1>3, <1>4, <1>5

LEMMA DueStep ==
    ASSUME Shape, NEW p \in Posters, Others(p)
    PROVE  /\ poster'[p].pc \in {"fetch", "send"} => Due' = Due \cup {p}
           /\ poster'[p].pc \notin {"fetch", "send"} => Due' = Due \ {p}
           /\ Busy' \subseteq Busy \cup {p}
           /\ \A q \in Due : q # p => q \in Due' /\ poster'[q].slot = poster[q].slot
           /\ \A q \in Busy' : q # p => q \in Busy /\ poster'[q].slot = poster[q].slot
BY DEF Others, Due, Busy

\* A start is paid by its overlap, or it makes the slot guarded.
LEMMA StartSums ==
    ASSUME Shape, SlotInv, NEW p \in Posters, Start(p)
    PROVE  /\ p \notin Due /\ Due' = Due \cup {p} /\ UNCHANGED posts
           /\ \/ mishaps' = mishaps + 1 /\ Settled \subseteq Settled'
              \/ /\ mishaps' = mishaps /\ Settled \subseteq Settled'
                 /\ slot.last \notin Settled /\ slot.last \in Settled'
<1>1. /\ Others(p) /\ poster[p].pc = "idle" /\ slot.last \notin Range(cursor.slots)
      /\ poster'[p].pc = "fetch" /\ poster'[p].slot = slot.last
      /\ IF Busy = {} THEN mishaps' = mishaps ELSE mishaps' = mishaps + 1
      /\ UNCHANGED <<cursor, slot, posts>>
  BY StartStep
<1>2. p \notin Due /\ Due' = Due \cup {p} /\ p \in Due' /\ p \in Busy'
  BY <1>1, DueStep DEF Due, Busy
<1>3. Touched \subseteq Touched' /\ slot.last \in Touched'
  <2>1. PostedSlots' = PostedSlots
    BY <1>1 DEF PostedSlots
  <2>2. \A q \in Due : q \in Due' /\ poster'[q].slot = poster[q].slot
    BY <1>1, <1>2, DueStep
  <2>. QED
    BY <1>1, <1>2, <2>1, <2>2 DEF Touched
<1>4. Guarded \/ Busy = {} => Guarded'
  BY <1>1, <1>2, DueStep DEF Guarded
<1>5. Settled \subseteq Settled'
  BY <1>1, <1>3, <1>4 DEF Settled
<1>6. ASSUME Busy = {} PROVE slot.last \notin Settled /\ slot.last \in Settled'
  <2>1. ~Guarded
    BY <1>1, <1>6 DEF Guarded
  <2>. QED
    BY <1>3, <1>4, <1>6, <2>1 DEF Settled
<1>. QED
  BY <1>1, <1>2, <1>5, <1>6

\* A poster that leaves before it posted gives back its own slot at most.
LEMMA LeaveSums ==
    ASSUME Shape, SlotInv, NEW p \in Posters, Left(p), p \in Due, UNCHANGED <<cursor, slot, posts>>
    PROVE  Due' = Due \ {p} /\ Settled \ {poster[p].slot} \subseteq Settled'
<1>1. Others(p) /\ poster'[p].pc = "idle"
  BY NoPostShape DEF Left
<1>2. Due' = Due \ {p}
  BY <1>1, DueStep
<1>3. Touched \ {poster[p].slot} \subseteq Touched'
  <2>1. PostedSlots' = PostedSlots
    BY DEF PostedSlots
  <2>. QED
    BY <1>1, <2>1, DueStep DEF Touched
<1>4. Guarded => poster[p].slot = slot.last
  BY DEF Guarded, Busy, Due
<1>. QED
  BY <1>2, <1>3, <1>4 DEF Settled

\* A post of a due poster touches no slot that was not touched.
LEMMA PostSums ==
    ASSUME Shape, SlotInv, NEW p \in Posters, Others(p), p \in Due, Posted(p),
           poster'[p].pc \notin {"fetch", "send"}, slot' = slot
    PROVE  Due' = Due \ {p} /\ Touched' = Touched /\ Settled \ {slot.last} \subseteq Settled'
<1>1. Due' = Due \ {p}
  BY DueStep
<1>2. PostedSlots' = PostedSlots \cup {poster[p].slot}
  BY RepeatsStep
<1>3. \A q \in Due' : q \in Due /\ poster'[q].slot = poster[q].slot
  BY <1>1, DueStep
<1>4. Touched' = Touched
  BY <1>1, <1>2, <1>3, DueStep DEF Touched
<1>5. Settled \ {slot.last} \subseteq Settled'
  BY <1>4 DEF Settled
<1>. QED
  BY <1>1, <1>4, <1>5

\* The end of a stored attempt.
LEMMA StoreSums ==
    ASSUME Shape, SlotInv, NEW p \in Posters, Store(p) \/ StoreFails(p)
    PROVE  /\ Due' = Due /\ UNCHANGED posts
           /\ \/ mishaps' = mishaps /\ Settled \subseteq Settled'
              \/ mishaps' = mishaps + 1 /\ Settled \ {slot.last} \subseteq Settled'
<1>1. /\ Left(p) /\ poster[p].pc = "store" /\ UNCHANGED <<slot, posts>>
  BY GivesUp DEF Store, StoreFails, At
<1>2. Others(p) /\ poster'[p].pc = "idle" /\ p \notin Due /\ p \in Busy /\ p \notin Busy'
  BY <1>1, NoPostShape DEF Left, Due, Busy
<1>3. Due' = Due
  <2>1. Due' = Due \ {p}
    BY <1>2, DueStep
  <2>. QED
    BY <1>2, <2>1
<1>4. Touched' = Touched
  <2>1. PostedSlots' = PostedSlots
    BY <1>1 DEF PostedSlots
  <2>2. \A q \in Due : poster'[q].slot = poster[q].slot
    BY <1>2, DueStep
  <2>. QED
    BY <1>3, <2>1, <2>2 DEF Touched
<1>5. CASE StoreFails(p)
  <2>1. mishaps' = mishaps + 1
    BY <1>5 DEF StoreFails
  <2>. QED
    BY <1>1, <1>3, <1>4, <2>1 DEF Settled
<1>6. CASE Store(p)
  <2>1. /\ mishaps' = mishaps
        /\ cursor' = Committed(poster[p].cursor, poster[p].ids, poster[p].newest, poster[p].slot)
    BY <1>6 DEF Store
  <2>2. poster[p].slot \in Range(cursor'.slots)
    <3>1. /\ CursorShape(poster[p].cursor) /\ poster[p].ids \in SUBSET Items
          /\ poster[p].slot \in Nat /\ poster[p].slot \notin Range(poster[p].cursor.slots)
      BY <1>1 DEF Shape, PosterShape
    <3>. QED
      BY <2>1, <3>1, CommittedKnows
  <2>3. Guarded => Guarded'
    BY <1>1, <1>2, <2>2, DueStep DEF Guarded
  <2>4. Settled \subseteq Settled'
    BY <1>1, <1>4, <2>3 DEF Settled
  <2>. QED
    BY <1>1, <1>3, <2>1, <2>4
<1>. QED
  BY <1>5, <1>6

LEMMA WorldSums ==
    ASSUME Shape, SlotInv, UNCHANGED vars \/ OpenSlot \/ CloseSlot \/ (\E i \in Items : Publish(i))
    PROVE  /\ Due' = Due /\ PostedSlots' = PostedSlots /\ Repeats' = Repeats
           /\ UNCHANGED <<posts, mishaps>> /\ Settled \subseteq Settled'
<1>1. /\ UNCHANGED <<cursor, poster, posts, mishaps>>
      /\ slot'.last = slot.last \/ slot'.last = slot.last + 1
      /\ slot.last \in Nat
  BY WorldStep DEF Shape
<1>2. Due' = Due /\ Busy' = Busy /\ PostedSlots' = PostedSlots /\ Repeats' = Repeats /\ Touched' = Touched
  BY <1>1 DEF Due, Busy, PostedSlots, Repeats, Touched
<1>3. slot.last + 1 \notin Touched
  <2>1. \A p \in Due : poster[p].slot \in Nat /\ poster[p].slot <= slot.last
    BY DEF Shape, PosterShape, Due
  <2>2. \A n \in DOMAIN posts : posts[n].slot \in Nat /\ posts[n].slot <= slot.last
    <3>1. DOMAIN posts = 1..Len(posts) /\ posts \in Seq([slot : Nat, ids : SUBSET Items])
      BY DEF Shape
    <3>2. \A n \in DOMAIN posts : posts[n] \in [slot : Nat, ids : SUBSET Items]
      BY <3>1, ElementOfSeq
    <3>. QED
      BY <3>2 DEF Shape
  <2>. QED
    BY <1>1, <2>1, <2>2 DEF Touched, PostedSlots
<1>4. CASE slot'.last = slot.last
  <2>1. Guarded' <=> Guarded
    BY <1>1, <1>2, <1>4 DEF Guarded
  <2>. QED
    BY <1>1, <1>2, <1>4, <2>1 DEF Settled
<1>5. CASE slot'.last = slot.last + 1
  BY <1>1, <1>2, <1>3, <1>5 DEF Settled
<1>. QED
  BY <1>1, <1>2, <1>4, <1>5

LEMMA FiniteSettledNext ==
    ASSUME Shape', IsFiniteSet(PostedSlots')
    PROVE  IsFiniteSet(Settled')
<1>. DEFINE slots == {poster'[p].slot : p \in Due'}
            f == [p \in Due' |-> poster'[p].slot]
<1>1. IsFiniteSet(Due')
  BY DEF Shape
<1>2. f \in Surjection(Due', slots)
  BY DEF Surjection
<1>3. IsFiniteSet(slots)
  BY <1>1, <1>2, FS_Surjection
<1>4. Touched' = PostedSlots' \cup slots
  BY DEF Touched
<1>5. IsFiniteSet(Touched')
  BY <1>3, <1>4, FS_Union
<1>6. Settled' \subseteq Touched'
  BY DEF Settled
<1>. QED
  BY <1>5, <1>6, FS_Subset

LEMMA SlotStep ==
    ASSUME Shape, Shape', SlotInv, [Next]_vars
    PROVE  SlotInv'
<1>1. /\ IsFiniteSet(PostedSlots) /\ IsFiniteSet(Repeats) /\ IsFiniteSet(Due')
      /\ Cardinality(Repeats) + Cardinality(PostedSlots) = Len(posts)
  BY DEF SlotInv, Shape
<1>2. UNCHANGED posts => PostedSlots' = PostedSlots /\ Repeats' = Repeats
  BY DEF PostedSlots, Repeats
<1>3. ASSUME UNCHANGED posts,
             \/ Due' = Due /\ mishaps' = mishaps /\ Settled \subseteq Settled'
             \/ \E x : Due' = Due /\ mishaps' = mishaps + 1 /\ Settled \ {x} \subseteq Settled'
             \/ \E x, y : x \in Due /\ Due' = Due \ {x} /\ mishaps' = mishaps /\ Settled \ {y} \subseteq Settled'
             \/ \E x : /\ x \notin Due /\ Due' = Due \cup {x} /\ mishaps' = mishaps + 1
                      /\ Settled \subseteq Settled'
             \/ \E x, y : /\ x \notin Due /\ Due' = Due \cup {x} /\ mishaps' = mishaps
                          /\ y \notin Settled /\ y \in Settled' /\ Settled \subseteq Settled'
      PROVE  SlotInv'
  <2>1. IsFiniteSet(PostedSlots') /\ IsFiniteSet(Settled')
    BY <1>1, <1>2, <1>3, FiniteSettledNext
  <2>2. Len(posts') + Cardinality(Due') <= mishaps' + Cardinality(Settled')
    <3>1. CASE Due' = Due /\ mishaps' = mishaps /\ Settled \subseteq Settled'
      BY <1>1, <1>3, <2>1, <3>1, SumsStep
    <3>2. ASSUME NEW x, Due' = Due, mishaps' = mishaps + 1, Settled \ {x} \subseteq Settled'
          PROVE  Len(posts') + Cardinality(Due') <= mishaps' + Cardinality(Settled')
      <4>1. Cardinality(Due') = Cardinality(Due) /\ Cardinality(Settled) <= Cardinality(Settled') + 1
        BY <1>1, <2>1, <3>2, SumsStep
      <4>. QED
        BY <1>1, <1>3, <2>1, <3>2, <4>1, SumsStep
    <3>3. ASSUME NEW x \in Due, NEW y, Due' = Due \ {x}, mishaps' = mishaps, Settled \ {y} \subseteq Settled'
          PROVE  Len(posts') + Cardinality(Due') <= mishaps' + Cardinality(Settled')
      <4>1. Cardinality(Due') = Cardinality(Due) - 1 /\ Cardinality(Settled) <= Cardinality(Settled') + 1
        BY <1>1, <2>1, <3>3, SumsStep
      <4>. QED
        BY <1>1, <1>3, <2>1, <3>3, <4>1, SumsStep
    <3>4. ASSUME NEW x, x \notin Due, Due' = Due \cup {x}, mishaps' = mishaps + 1, Settled \subseteq Settled'
          PROVE  Len(posts') + Cardinality(Due') <= mishaps' + Cardinality(Settled')
      <4>1. Cardinality(Due') = Cardinality(Due) + 1 /\ Cardinality(Settled) <= Cardinality(Settled')
        BY <1>1, <2>1, <3>4, SumsStep
      <4>. QED
        BY <1>1, <1>3, <2>1, <3>4, <4>1, SumsStep
    <3>5. ASSUME NEW x, NEW y, x \notin Due, Due' = Due \cup {x}, mishaps' = mishaps,
                 y \notin Settled, y \in Settled', Settled \subseteq Settled'
          PROVE  Len(posts') + Cardinality(Due') <= mishaps' + Cardinality(Settled')
      <4>1. Cardinality(Due') = Cardinality(Due) + 1 /\ Cardinality(Settled) + 1 <= Cardinality(Settled')
        BY <1>1, <2>1, <3>5, SumsStep
      <4>. QED
        BY <1>1, <1>3, <2>1, <3>5, <4>1, SumsStep
    <3>. QED
      BY <1>3, <3>1, <3>2, <3>3, <3>4, <3>5
  <2>. QED
    BY <1>1, <1>2, <1>3, <2>2 DEF SlotInv
<1>4. ASSUME NEW p \in Posters, Posted(p), Due' = Due \ {p}, p \in Due,
             \/ mishaps' = mishaps /\ Settled \subseteq Settled'
             \/ \E x : mishaps' = mishaps + 1 /\ Settled \ {x} \subseteq Settled'
      PROVE  SlotInv'
  <2>1. /\ IsFiniteSet(PostedSlots') /\ IsFiniteSet(Repeats')
        /\ Cardinality(Repeats') + Cardinality(PostedSlots') = Len(posts')
        /\ Len(posts') = Len(posts) + 1
    BY <1>4, RepeatsStep, PostedStep
  <2>2. IsFiniteSet(Settled')
    BY <2>1, FiniteSettledNext
  <2>3. Cardinality(Due') = Cardinality(Due) - 1
    BY <1>1, <1>4, <2>1, <2>2, SumsStep
  <2>4. \/ mishaps' = mishaps /\ Cardinality(Settled) <= Cardinality(Settled')
        \/ mishaps' = mishaps + 1 /\ Cardinality(Settled) <= Cardinality(Settled') + 1
    <3>1. CASE mishaps' = mishaps /\ Settled \subseteq Settled'
      BY <1>1, <2>1, <2>2, <3>1, SumsStep
    <3>2. ASSUME NEW x, mishaps' = mishaps + 1, Settled \ {x} \subseteq Settled'
          PROVE  mishaps' = mishaps + 1 /\ Cardinality(Settled) <= Cardinality(Settled') + 1
      BY <1>1, <2>1, <2>2, <3>2, SumsStep
    <3>. QED
      BY <1>4, <3>1, <3>2
  <2>5. Len(posts') + Cardinality(Due') <= mishaps' + Cardinality(Settled')
    BY <1>1, <2>1, <2>2, <2>3, <2>4, SumsStep
  <2>. QED
    BY <2>1, <2>5 DEF SlotInv
<1>5. CASE UNCHANGED vars \/ OpenSlot \/ CloseSlot \/ \E i \in Items : Publish(i)
  BY <1>3, <1>5, WorldSums
<1>6. ASSUME NEW p \in Posters, Attempt(p) PROVE SlotInv'
  <2>1. CASE Start(p)
    BY <1>3, <2>1, StartSums
  <2>2. CASE Fetch(p) /\ ~Left(p)
    <3>1. /\ Others(p) /\ poster[p].pc = "fetch" /\ poster'[p].pc = "send"
          /\ poster'[p].slot = poster[p].slot /\ UNCHANGED <<cursor, slot, posts, mishaps>>
      BY <2>2, FetchStep DEF Fetch
    <3>2. Due' = Due /\ Busy' = Busy /\ \A q \in Posters : poster'[q].slot = poster[q].slot
      BY <3>1 DEF Others, Due, Busy
    <3>3. Settled' = Settled
      <4>1. Touched' = Touched
        BY <1>2, <3>1, <3>2 DEF Touched, Due
      <4>2. Guarded' <=> Guarded
        BY <3>1, <3>2 DEF Guarded, Busy
      <4>. QED
        BY <3>1, <4>1, <4>2 DEF Settled
    <3>. QED
      BY <1>3, <3>1, <3>2, <3>3
  <2>3. CASE Left(p) /\ p \in Due /\ UNCHANGED <<cursor, slot, posts, mishaps>>
    BY <1>3, <2>3, LeaveSums
  <2>4. CASE Send(p)
    <3>1. /\ Others(p) /\ poster[p].pc = "send" /\ poster'[p].pc = "store" /\ Posted(p)
          /\ poster'[p].slot = poster[p].slot /\ UNCHANGED <<cursor, slot, mishaps>> /\ p \in Due
      BY <2>4, SendStep DEF Send, Due
    <3>2. Due' = Due \ {p} /\ Touched' = Touched
      BY <3>1, PostSums
    <3>3. Busy' = Busy /\ \A q \in Posters : poster'[q].slot = poster[q].slot
      BY <3>1 DEF Others, Busy
    <3>4. Guarded' <=> Guarded
      BY <3>1, <3>3 DEF Guarded, Busy
    <3>. QED
      BY <1>4, <3>1, <3>2, <3>4 DEF Settled
  <2>5. CASE SendFails(p) /\ Posted(p)
    <3>1. /\ (Left(p) /\ p \in Due /\ UNCHANGED slot /\ mishaps' = mishaps + 1) \/ UNCHANGED posts
      BY <2>5, GivesUp DEF SendFails, At, Due
    <3>2. ~UNCHANGED posts
      BY <2>5, PostedStep
    <3>3. Others(p) /\ poster'[p].pc = "idle"
      BY <3>1, <3>2, NoPostShape DEF Left
    <3>. QED
      BY <1>4, <2>5, <3>1, <3>2, <3>3, PostSums
  <2>6. CASE Store(p) \/ StoreFails(p)
    BY <1>3, <2>6, StoreSums
  <2>7. CASE (Fetch(p) /\ Left(p)) \/ FetchFails(p) \/ (SendFails(p) /\ ~Posted(p))
    <3>1. Left(p) /\ p \in Due /\ UNCHANGED <<cursor, slot, posts, mishaps>>
      BY <2>7, GivesUp DEF Fetch, FetchFails, SendFails, At, Due
    <3>. QED
      BY <2>3, <3>1
  <2>. QED
    BY <1>6, <2>1, <2>2, <2>4, <2>5, <2>6, <2>7 DEF Attempt
<1>. QED
  BY <1>5, <1>6 DEF Next

LEMMA SlotInit == Init => SlotInv
<1>. SUFFICES ASSUME Init PROVE SlotInv
  OBVIOUS
<1>1. posts = <<>> /\ DOMAIN posts = {} /\ Len(posts) = 0 /\ mishaps = 0
  BY DEF Init
<1>2. Due = {}
  BY NoPostShape DEF Init, Due
<1>3. PostedSlots = {} /\ Repeats = {} /\ Settled = {}
  BY <1>1, <1>2 DEF PostedSlots, Repeats, Settled, Touched
<1>. QED
  BY <1>1, <1>2, <1>3, FS_EmptySet DEF SlotInv

(* A slot is posted once, and once more for every send that is unconfirmed,  *)
(* cursor that is not stored, or attempt that overlaps another.              *)
THEOREM SlotsPostedOnce == Spec => []SlotPostedOnce
<1>1. Init => Shape /\ SlotInv
  BY ShapeInit, SlotInit
<1>2. Shape /\ SlotInv /\ [Next]_vars => (Shape /\ SlotInv)'
  BY ShapeStep, SlotStep
<1>3. Shape /\ SlotInv => SlotPostedOnce
  <2>. SUFFICES ASSUME Shape, SlotInv PROVE Cardinality(Repeats) <= mishaps
    BY DEF SlotPostedOnce, Repeats
  <2>. DEFINE slots == {poster[p].slot : p \in Due}
  <2>1. /\ IsFiniteSet(slots) /\ Cardinality(slots) <= Cardinality(Due) /\ Cardinality(slots) \in Nat
        /\ Cardinality(Due) \in Nat
    BY DueSlots
  <2>2. /\ IsFiniteSet(PostedSlots) /\ Cardinality(PostedSlots) \in Nat /\ Cardinality(Repeats) \in Nat
        /\ Cardinality(Repeats) + Cardinality(PostedSlots) = Len(posts) /\ Len(posts) \in Nat
        /\ Len(posts) + Cardinality(Due) <= mishaps + Cardinality(Settled) /\ mishaps \in Nat
    BY FS_CardinalityType DEF SlotInv, Shape
  <2>3. IsFiniteSet(Touched) /\ Cardinality(Touched) \in Nat
        /\ Cardinality(Touched) <= Cardinality(PostedSlots) + Cardinality(slots)
    <3>1. /\ IsFiniteSet(PostedSlots \cup slots)
          /\ Cardinality(PostedSlots \cup slots)
               = Cardinality(PostedSlots) + Cardinality(slots) - Cardinality(PostedSlots \cap slots)
      BY <2>1, <2>2, FS_Union
    <3>2. Cardinality(PostedSlots \cap slots) \in Nat
      BY <2>1, <2>2, FS_Subset, FS_CardinalityType
    <3>3. Touched = PostedSlots \cup slots
      BY DEF Touched
    <3>. HIDE DEF slots
    <3>. QED
      BY <2>1, <2>2, <3>1, <3>2, <3>3, FS_CardinalityType
  <2>4. Cardinality(Settled) <= Cardinality(Touched) /\ Cardinality(Settled) \in Nat
    <3>1. Settled \subseteq Touched
      BY DEF Settled
    <3>. QED
      BY <2>3, <3>1, FS_Subset, FS_CardinalityType
  <2>. HIDE DEF slots
  <2>. QED
    BY <2>1, <2>2, <2>3, <2>4
<1>. QED
  BY <1>1, <1>2, <1>3, PTL DEF Spec

-----------------------------------------------------------------------------
(* Items *)

Before(n) == UNION {posts[m].ids : m \in 1..n}
Larger(i, s) == {j \in s : j > i}

\* What was posted and is not known has SEEN_CAP larger ids among the posted.
Knows(seen, all) ==
    /\ seen \subseteq all
    /\ \A i \in all \ seen : Cardinality(Larger(i, all)) >= SEEN_CAP

\* Without a fault one attempt is made at a time, with the stored cursor; the
\* cursor knows every post but the one that waits to be stored.
AloneInv ==
    /\ \A p, q \in Busy : p = q
    /\ \A p \in Busy : poster[p].cursor.seen = cursor.seen
    /\ \A p \in Posters : poster[p].pc = "send" => poster[p].ids \cap cursor.seen = {}
    /\ (\A p \in Posters : poster[p].pc # "store") => Knows(cursor.seen, Before(Len(posts)))
    /\ \A p \in Posters : poster[p].pc = "store" =>
          /\ Len(posts) > 0 /\ posts[Len(posts)].ids = poster[p].ids
          /\ Knows(cursor.seen, Before(Len(posts) - 1))

RepeatsAreOld ==
    \A n \in DOMAIN posts : \A i \in posts[n].ids \cap Before(n - 1) :
        Cardinality(Larger(i, Before(n - 1))) >= SEEN_CAP

ItemInv == mishaps = 0 => RepeatsAreOld /\ AloneInv

LEMMA LargerGrows ==
    ASSUME NEW s \in SUBSET Items, NEW t \in SUBSET s, NEW i
    PROVE  /\ Cardinality(Larger(i, t)) \in Nat /\ Cardinality(Larger(i, s)) \in Nat
           /\ Cardinality(Larger(i, t)) <= Cardinality(Larger(i, s))
<1>1. IsFiniteSet(Items)
  BY FS_Interval, NewsAssumption DEF Items
<1>2. Larger(i, s) \subseteq Items /\ Larger(i, t) \subseteq Larger(i, s)
  BY DEF Larger
<1>3. IsFiniteSet(Larger(i, s))
  BY <1>1, <1>2, FS_Subset
<1>. QED
  BY <1>2, <1>3, FS_Subset, FS_CardinalityType

\* The cut of the seen ids drops only what has enough larger ones.
LEMMA NewestKnows ==
    ASSUME NEW all \in SUBSET Items, NEW seen, Knows(seen, all), NEW ids \in SUBSET Items
    PROVE  Knows(Newest(SEEN_CAP, seen \cup ids), all \cup ids)
<1>. DEFINE kept == Newest(SEEN_CAP, seen \cup ids)
<1>1. seen \subseteq all /\ kept \subseteq all \cup ids
  BY DEF Knows, Newest
<1>2. SEEN_CAP \in Nat
  BY NewsAssumption
<1>3. ASSUME NEW i \in (all \cup ids) \ kept
      PROVE  Cardinality(Larger(i, all \cup ids)) >= SEEN_CAP
  <2>1. CASE i \in seen \cup ids
    <3>1. ~(Cardinality(Larger(i, seen \cup ids)) < SEEN_CAP)
      BY <1>3, <2>1 DEF Newest, Larger
    <3>2. /\ Cardinality(Larger(i, seen \cup ids)) \in Nat /\ Cardinality(Larger(i, all \cup ids)) \in Nat
          /\ Cardinality(Larger(i, seen \cup ids)) <= Cardinality(Larger(i, all \cup ids))
      BY <1>1, LargerGrows
    <3>. QED
      BY <1>2, <3>1, <3>2
  <2>2. CASE i \notin seen \cup ids
    <3>1. Cardinality(Larger(i, all)) >= SEEN_CAP
      BY <1>3, <2>2 DEF Knows
    <3>2. /\ Cardinality(Larger(i, all)) \in Nat /\ Cardinality(Larger(i, all \cup ids)) \in Nat
          /\ Cardinality(Larger(i, all)) <= Cardinality(Larger(i, all \cup ids))
      BY LargerGrows
    <3>. QED
      BY <1>2, <3>1, <3>2
  <2>. QED
    BY <2>1, <2>2
<1>. QED
  BY <1>1, <1>3 DEF Knows

LEMMA BeforeItems ==
    ASSUME Shape, NEW n \in Nat, n <= Len(posts)
    PROVE  Before(n) \in SUBSET Items
<1>1. posts \in Seq([slot : Nat, ids : SUBSET Items])
  BY DEF Shape
<1>2. \A m \in 1..n : m \in 1..Len(posts)
  BY <1>1
<1>3. \A m \in 1..n : posts[m] \in [slot : Nat, ids : SUBSET Items]
  BY <1>1, <1>2, ElementOfSeq
<1>. QED
  BY <1>3 DEF Before

LEMMA PostedBefore ==
    ASSUME Shape, NEW p \in Posters, Posted(p), NEW n \in Nat, n <= Len(posts)
    PROVE  Before(n)' = Before(n)
<1>1. /\ Len(posts) \in Nat /\ DOMAIN posts = 1..Len(posts)
      /\ \A m \in DOMAIN posts : posts'[m] = posts[m]
  BY PostedStep
<1>2. \A m \in 1..n : m \in DOMAIN posts
  BY <1>1
<1>. QED
  BY <1>1, <1>2 DEF Before

\* A post of one who fetched with the stored cursor, alone.
LEMMA PostedOld ==
    ASSUME Shape, AloneInv, RepeatsAreOld, NEW p \in Posters, poster[p].pc = "send", Posted(p)
    PROVE  RepeatsAreOld' /\ Knows(cursor.seen, Before(Len(posts)))
<1>1. Knows(cursor.seen, Before(Len(posts)))
  <2>1. p \in Busy /\ \A q \in Posters : poster[q].pc = "store" => q \in Busy
    BY DEF Busy
  <2>2. \A q \in Posters : poster[q].pc # "store"
    BY <2>1 DEF AloneInv
  <2>. QED
    BY <2>2 DEF AloneInv
<1>2. poster[p].ids \cap cursor.seen = {}
  BY DEF AloneInv
<1>3. /\ Len(posts) \in Nat /\ DOMAIN posts = 1..Len(posts) /\ DOMAIN posts' = 1..(Len(posts) + 1)
      /\ posts'[Len(posts) + 1].ids = poster[p].ids
      /\ \A m \in DOMAIN posts : posts'[m] = posts[m]
  BY PostedStep
<1>4. ASSUME NEW n \in DOMAIN posts', NEW i \in posts'[n].ids \cap Before(n - 1)'
      PROVE  Cardinality(Larger(i, Before(n - 1)')) >= SEEN_CAP
  <2>0. n - 1 \in Nat /\ n - 1 <= Len(posts)
    BY <1>3
  <2>. DEFINE k == n - 1
  <2>1. Before(k)' = Before(k)
    BY <2>0, PostedBefore
  <2>2. CASE n \in DOMAIN posts
    BY <1>3, <1>4, <2>1, <2>2 DEF RepeatsAreOld
  <2>3. CASE n \notin DOMAIN posts
    <3>1. n = Len(posts) + 1 /\ k = Len(posts)
      BY <1>3, <2>3
    <3>2. Before(k)' = Before(Len(posts)) /\ i \in poster[p].ids /\ i \in Before(Len(posts))
      BY <1>3, <1>4, <2>1, <3>1
    <3>. QED
      BY <1>1, <1>2, <3>2 DEF Knows
  <2>. QED
    BY <2>2, <2>3
<1>5. RepeatsAreOld'
  BY <1>4 DEF RepeatsAreOld, Larger
<1>. QED
  BY <1>1, <1>5

\* The step of a lone poster.
LEMMA AttemptAlone ==
    ASSUME Shape, Shape', RepeatsAreOld, AloneInv, NEW p \in Posters, Attempt(p), mishaps' = mishaps
    PROVE  RepeatsAreOld' /\ AloneInv'
<1>1. mishaps \in Nat
  BY DEF Shape
<1>2. ASSUME UNCHANGED posts
      PROVE  /\ RepeatsAreOld'
             /\ Before(Len(posts))' = Before(Len(posts))
             /\ Before(Len(posts) - 1)' = Before(Len(posts) - 1)
  <2>1. RepeatsAreOld' <=> RepeatsAreOld
    BY <1>2 DEF RepeatsAreOld, Before, Larger
  <2>. QED
    BY <1>2, <2>1 DEF Before
<1>3. CASE Start(p)
  <2>1. /\ Others(p) /\ poster[p].pc = "idle" /\ poster'[p].pc = "fetch" /\ poster'[p].cursor = cursor
        /\ Busy = {} /\ UNCHANGED <<cursor, posts>>
    BY <1>1, <1>3, StartStep
  <2>2. \A q \in Posters : /\ poster[q].pc = "idle"
                           /\ q \in Busy' => q = p
                           /\ poster'[q].pc # "send" /\ poster'[q].pc # "store"
    BY <2>1 DEF Others, Busy
  <2>3. Knows(cursor.seen, Before(Len(posts)))
    BY <2>2 DEF AloneInv
  <2>. QED
    <3>1. (Knows(cursor.seen, Before(Len(posts))))'
      BY <1>2, <2>1, <2>3 DEF Knows, Larger
    <3>2. \A q \in Busy' : q = p /\ q \in Posters
      BY <2>2 DEF Busy
    <3>. QED
      BY <1>2, <2>1, <2>2, <3>1, <3>2 DEF AloneInv
<1>4. CASE Left(p) /\ UNCHANGED <<cursor, posts>> /\ poster[p].pc \in {"fetch", "send"}
  <2>1. \A q \in Posters : q # p => poster'[q] = poster[q]
    BY <1>4 DEF Left, Others
  <2>2. poster'[p].pc = "idle"
    BY <1>4, NoPostShape DEF Left
  <2>3. p \in Busy /\ \A q \in Posters : poster[q].pc = "idle" \/ q = p
    BY <1>4 DEF AloneInv, Busy
  <2>4. \A q \in Posters : poster'[q].pc = "idle"
    BY <2>1, <2>2, <2>3
  <2>5. Knows(cursor.seen, Before(Len(posts)))
    BY <1>4, <2>3 DEF AloneInv
  <2>6. Busy' = {}
    BY <2>4 DEF Busy
  <2>. QED
    BY <1>2, <1>4, <2>4, <2>5, <2>6 DEF AloneInv, Knows, Larger
<1>5. CASE Fetch(p) /\ ~Left(p)
  <2>1. /\ Others(p) /\ poster[p].pc = "fetch" /\ poster'[p].pc = "send"
        /\ poster'[p].cursor = poster[p].cursor /\ poster'[p].ids \cap poster[p].cursor.seen = {}
        /\ UNCHANGED <<cursor, posts>>
    BY <1>5, FetchStep DEF Fetch
  <2>2. p \in Busy /\ \A q \in Posters : poster[q].pc = "idle" \/ q = p
    BY <2>1 DEF AloneInv, Busy
  <2>3. \A q \in Posters : q # p => poster'[q].pc = "idle"
    BY <2>1, <2>2 DEF Others
  <2>4. Knows(cursor.seen, Before(Len(posts))) /\ poster[p].cursor.seen = cursor.seen
    BY <2>1, <2>2 DEF AloneInv
  <2>5. \A q \in Posters : q \in Busy' => q = p
    BY <2>3 DEF Busy
  <2>. QED
    BY <1>2, <2>1, <2>3, <2>4, <2>5 DEF AloneInv, Knows, Larger, Busy
<1>6. CASE Send(p)
  <2>1. /\ Others(p) /\ poster[p].pc = "send" /\ Posted(p) /\ poster'[p].pc = "store"
        /\ poster'[p].cursor = poster[p].cursor /\ poster'[p].ids = poster[p].ids
        /\ UNCHANGED cursor
    BY <1>6, SendStep DEF Send
  <2>2. p \in Busy /\ \A q \in Posters : poster[q].pc = "idle" \/ q = p
    BY <2>1 DEF AloneInv, Busy
  <2>3. \A q \in Posters : q # p => poster'[q].pc = "idle"
    BY <2>1, <2>2 DEF Others
  <2>4. poster[p].cursor.seen = cursor.seen
    BY <2>2 DEF AloneInv
  <2>5. RepeatsAreOld' /\ Knows(cursor.seen, Before(Len(posts)))
    BY <2>1, PostedOld
  <2>6. /\ Len(posts) \in Nat /\ Len(posts') = Len(posts) + 1
        /\ posts'[Len(posts')].ids = poster[p].ids
        /\ Len(posts') > 0 /\ Len(posts') - 1 = Len(posts)
    BY <2>1, PostedStep
  <2>7. Before(Len(posts) - 1)' = Before(Len(posts))
    BY <2>1, <2>6, PostedStep DEF Before
  <2>8. \A q \in Posters : q \in Busy' => q = p
    BY <2>3 DEF Busy
  <2>. QED
    BY <2>1, <2>3, <2>4, <2>5, <2>6, <2>7, <2>8 DEF AloneInv, Knows, Larger, Busy
<1>7. CASE Store(p)
  <2>1. /\ Left(p) /\ poster[p].pc = "store" /\ UNCHANGED posts
        /\ cursor' = Committed(poster[p].cursor, poster[p].ids, poster[p].newest, poster[p].slot)
    BY <1>7, GivesUp DEF Store, At
  <2>2. p \in Busy /\ \A q \in Posters : poster[q].pc = "idle" \/ q = p
    BY <2>1 DEF AloneInv, Busy
  <2>3. \A q \in Posters : poster'[q].pc = "idle"
    BY <2>1, <2>2, NoPostShape DEF Left, Others
  <2>4. /\ poster[p].cursor.seen = cursor.seen /\ Len(posts) > 0
        /\ posts[Len(posts)].ids = poster[p].ids
        /\ Knows(cursor.seen, Before(Len(posts) - 1))
    BY <2>1, <2>2 DEF AloneInv
  <2>5. cursor'.seen = Newest(SEEN_CAP, cursor.seen \cup poster[p].ids)
    <3>1. /\ CursorShape(poster[p].cursor) /\ poster[p].ids \in SUBSET Items
          /\ poster[p].slot \in Nat /\ poster[p].slot \notin Range(poster[p].cursor.slots)
      BY <2>1 DEF Shape, PosterShape
    <3>. QED
      BY <2>1, <2>4, <3>1, CommittedKnows
  <2>6. Len(posts) \in Nat /\ Len(posts) - 1 \in Nat /\ 1..Len(posts) = (1..(Len(posts) - 1)) \cup {Len(posts)}
    BY <2>4 DEF Shape
  <2>7. Before(Len(posts)) = Before(Len(posts) - 1) \cup poster[p].ids
    BY <2>4, <2>6 DEF Before
  <2>8. Knows(cursor'.seen, Before(Len(posts)))
    <3>0. Len(posts) - 1 <= Len(posts)
      BY <2>6
    <3>1. Before(Len(posts) - 1) \in SUBSET Items /\ poster[p].ids \in SUBSET Items
      BY <2>6, <3>0, BeforeItems DEF Shape, PosterShape
    <3>. QED
      BY <2>4, <2>5, <2>7, <3>1, NewestKnows
  <2>9. Busy' = {}
    BY <2>3 DEF Busy
  <2>. QED
    BY <1>2, <2>1, <2>3, <2>8, <2>9 DEF AloneInv, Knows, Larger
<1>8. CASE FetchFails(p) \/ (Fetch(p) /\ Left(p)) \/ SendFails(p)
  <2>1. Left(p) /\ UNCHANGED <<cursor, posts>> /\ poster[p].pc \in {"fetch", "send"}
    BY <1>1, <1>8, GivesUp DEF FetchFails, Fetch, SendFails, At
  <2>. QED
    BY <1>4, <2>1
<1>9. CASE StoreFails(p)
  BY <1>1, <1>9 DEF StoreFails
<1>. QED
  BY <1>3, <1>5, <1>6, <1>7, <1>8, <1>9 DEF Attempt

LEMMA ItemStep ==
    ASSUME Shape, Shape', ItemInv, [Next]_vars
    PROVE  ItemInv'
<1>1. mishaps \in Nat
  BY DEF Shape
<1>2. CASE UNCHANGED vars \/ OpenSlot \/ CloseSlot \/ \E i \in Items : Publish(i)
  <2>1. UNCHANGED <<cursor, poster, posts, mishaps>>
    BY <1>2, WorldStep
  <2>2. RepeatsAreOld' <=> RepeatsAreOld
    BY <2>1 DEF RepeatsAreOld, Before, Larger
  <2>3. AloneInv' <=> AloneInv
    BY <2>1 DEF AloneInv, Before, Larger, Knows, Busy
  <2>. QED
    BY <2>1, <2>2, <2>3 DEF ItemInv
<1>3. ASSUME NEW p \in Posters, Attempt(p) PROVE ItemInv'
  <2>1. mishaps' = mishaps \/ mishaps' = mishaps + 1
    BY <1>3 DEF Attempt, Start, Fetch, FetchFails, Send, SendFails, Store, StoreFails
  <2>. QED
    BY <1>1, <1>3, <2>1, AttemptAlone DEF ItemInv
<1>. QED
  BY <1>2, <1>3 DEF Next

LEMMA ItemInit == Init => ItemInv
<1>. SUFFICES ASSUME Init PROVE ItemInv
  OBVIOUS
<1>1. posts = <<>> /\ DOMAIN posts = {} /\ Len(posts) = 0 /\ cursor = NoCursor
  BY DEF Init
<1>2. \A p \in Posters : poster[p].pc = "idle"
  BY NoPostShape DEF Init
<1>3. Busy = {} /\ Before(0) = {} /\ NoCursor.seen = {}
  BY <1>2 DEF Busy, Before, NoCursor
<1>. QED
  BY <1>1, <1>2, <1>3 DEF ItemInv, RepeatsAreOld, AloneInv, Knows

(* An item comes again, without a fault, only when at least SEEN_CAP newer   *)
(* items were posted: the seen ids that are cut are the oldest, and old      *)
(* entries that the feed shows again are not mistaken for fresh ones.        *)
THEOREM ItemsPostedOnce == Spec => []ItemPostedOnce
<1>1. Init => Shape /\ ItemInv
  BY ShapeInit, ItemInit
<1>2. Shape /\ ItemInv /\ [Next]_vars => (Shape /\ ItemInv)'
  BY ShapeStep, ItemStep
<1>3. ItemInv => ItemPostedOnce
  BY DEF ItemInv, RepeatsAreOld, ItemPostedOnce, Before, Larger
<1>. QED
  BY <1>1, <1>2, <1>3, PTL DEF Spec

-----------------------------------------------------------------------------
(* Links *)

ReqFields == {"pc", "links", "rooms", "todo", "t", "images", "answer"}

\* A request in hand names links and rooms; only an answer is complete.
ReqShape(q) ==
    /\ DOMAIN q = ReqFields
    /\ q.pc # "idle" => /\ q.links \in Seq(Links) /\ q.links # <<>>
                        /\ q.rooms \in Seq(Rooms) /\ q.rooms # <<>>
    /\ q.pc \in {"rooms", "answer"} => q.todo \in Seq(Rooms) /\ q.todo # <<>>
    /\ q.answer = "complete" => q.pc = "answer"

LedgerShape ==
    /\ ledger \in [Rooms -> Seq(Links)]
    /\ full \in [Rooms \X Links -> Nat] /\ forgotten \in [Rooms \X Links -> Nat]

\* A complete delivery of l to r has been sent and not yet recorded.
Waits(r, l) == req.answer = "complete" /\ Head(req.todo) = r /\ Fwd!Link = l

\* Every complete delivery but the forgotten ones is in the ledger or waits to be.
LedgerInv ==
    \A r \in Rooms, l \in Links :
        full[<<r, l>>] <= forgotten[<<r, l>>] + (IF Contains(ledger[r], l) \/ Waits(r, l) THEN 1 ELSE 0)

LEMMA IdleShape == ReqShape(Fwd!Idle) /\ Fwd!Idle.pc = "idle" /\ Fwd!Idle.answer = "none"
<1>1. DOMAIN Fwd!Idle = ReqFields /\ Fwd!Idle.pc = "idle" /\ Fwd!Idle.answer = "none"
  BY DEF Fwd!Idle, ReqFields
<1>. QED
  BY <1>1 DEF ReqShape

\* A request as it is received, and as its next link finds it.
LEMMA HealthShape ==
    ASSUME NEW links \in Seq(Links), links # <<>>, NEW rooms \in Seq(Rooms), rooms # <<>>,
           NEW q, q = [Fwd!Idle EXCEPT !.pc = "health", !.links = links, !.rooms = rooms]
    PROVE  ReqShape(q) /\ q.pc = "health" /\ q.answer = "none"
<1>1. /\ DOMAIN q = ReqFields /\ q.pc = "health" /\ q.links = links /\ q.rooms = rooms
      /\ q.answer = "none"
  BY DEF Fwd!Idle, ReqFields
<1>. QED
  BY <1>1 DEF ReqShape

LEMMA TailShape ==
    ASSUME NEW S, NEW s \in Seq(S), Len(s) > 1
    PROVE  Tail(s) \in Seq(S) /\ Tail(s) # <<>>
<1>1. s # <<>> /\ Len(s) \in Nat
  BY EmptySeq, LenProperties
<1>2. Tail(s) \in Seq(S) /\ Len(Tail(s)) = Len(s) - 1
  BY <1>1, HeadTailProperties
<1>3. Len(Tail(s)) # Len(<<>>)
  BY <1>1, <1>2, EmptySeq
<1>4. Tail(s) # <<>>
  BY <1>3
<1>. QED
  BY <1>2, <1>4

LEMMA NextLinkShape ==
    ASSUME ReqShape(req), req.pc # "idle"
    PROVE  /\ ReqShape(Fwd!NextLink) /\ Fwd!NextLink.answer = "none"
           /\ Fwd!NextLink.pc \in {"health", "idle"}
<1>1. CASE Len(req.links) > 1
  <2>1. /\ Tail(req.links) \in Seq(Links) /\ Tail(req.links) # <<>>
        /\ req.rooms \in Seq(Rooms) /\ req.rooms # <<>>
    BY <1>1, TailShape DEF ReqShape
  <2>2. Fwd!NextLink = [Fwd!Idle EXCEPT !.pc = "health", !.links = Tail(req.links), !.rooms = req.rooms]
    BY <1>1 DEF Fwd!NextLink
  <2>. QED
    BY <2>1, <2>2, HealthShape
<1>2. CASE ~(Len(req.links) > 1)
  BY <1>2, IdleShape DEF Fwd!NextLink
<1>. QED
  BY <1>1, <1>2

LEMMA RoomDoneShape ==
    ASSUME ReqShape(req), req.pc \in {"rooms", "answer"}
    PROVE  /\ ReqShape(Fwd!RoomDone) /\ Fwd!RoomDone.answer = "none"
           /\ Fwd!RoomDone.pc \in {"rooms", "health", "idle"}
<1>1. CASE Len(req.todo) > 1
  <2>. DEFINE q == [req EXCEPT !.pc = "rooms", !.todo = Tail(@), !.answer = "none"]
  <2>1. /\ DOMAIN q = ReqFields /\ q.pc = "rooms" /\ q.todo = Tail(req.todo) /\ q.answer = "none"
        /\ q.links = req.links /\ q.rooms = req.rooms
    BY DEF ReqShape, ReqFields
  <2>2. Tail(req.todo) \in Seq(Rooms) /\ Tail(req.todo) # <<>>
    BY <1>1, TailShape DEF ReqShape
  <2>3. Fwd!RoomDone = q
    BY <1>1 DEF Fwd!RoomDone
  <2>. HIDE DEF q
  <2>. QED
    BY <2>1, <2>2, <2>3 DEF ReqShape
<1>2. CASE ~(Len(req.todo) > 1)
  BY <1>2, NextLinkShape DEF Fwd!RoomDone
<1>. QED
  BY <1>1, <1>2

\* A step of the collection, which has nothing to record.
LEMMA CollectStep ==
    ASSUME ReqShape(req), req.pc \in {"health", "aside", "fallback", "collected", "images"},
           Fwd!HealthCheck \/ Fwd!AsideCollect \/ Fwd!FallbackCollect \/ Fwd!CheckDeadline \/ Fwd!AcquireImages
             \/ Fwd!NoTempScope
    PROVE  ReqShape(req') /\ req'.answer # "complete" /\ UNCHANGED <<ledger, full, forgotten>>
<1>. DEFINE Moved(pc) == /\ DOMAIN req' = ReqFields /\ req'.pc = pc
                         /\ req'.links = req.links /\ req'.rooms = req.rooms
                         /\ req'.answer = req.answer
<1>1. UNCHANGED <<ledger, full, forgotten>> /\ req.answer # "complete"
  BY DEF Fwd!HealthCheck, Fwd!AsideCollect, Fwd!FallbackCollect, Fwd!CheckDeadline, Fwd!AcquireImages,
         Fwd!NoTempScope, Fwd!Delivered, ReqShape
<1>2. ASSUME req' = Fwd!NextLink PROVE ReqShape(req') /\ req'.answer # "complete"
  BY <1>2, NextLinkShape
<1>3. ASSUME NEW pc \in {"aside", "fallback", "collected", "images"}, Moved(pc)
      PROVE  ReqShape(req') /\ req'.answer # "complete"
  BY <1>1, <1>3 DEF ReqShape
<1>4. CASE Fwd!HealthCheck
  <2>1. Moved("aside") \/ Moved("fallback")
    BY <1>4 DEF Fwd!HealthCheck, ReqShape, ReqFields
  <2>. QED
    BY <1>1, <1>3, <2>1
<1>5. CASE Fwd!AsideCollect
  <2>1. Moved("fallback") \/ Moved("collected") \/ req' = Fwd!NextLink
    BY <1>5 DEF Fwd!AsideCollect, Fwd!Collected, Fwd!Fail, ReqShape, ReqFields
  <2>. QED
    BY <1>1, <1>2, <1>3, <2>1
<1>6. CASE Fwd!FallbackCollect
  <2>1. Moved("collected") \/ req' = Fwd!NextLink
    BY <1>6 DEF Fwd!FallbackCollect, Fwd!Collected, Fwd!Fail, ReqShape, ReqFields
  <2>. QED
    BY <1>1, <1>2, <1>3, <2>1
<1>7. CASE Fwd!CheckDeadline
  <2>1. Moved("images") \/ req' = Fwd!NextLink
    BY <1>7 DEF Fwd!CheckDeadline, Fwd!Fail, ReqShape, ReqFields
  <2>. QED
    BY <1>1, <1>2, <1>3, <2>1
<1>8. CASE Fwd!AcquireImages
  <2>1. Moved("rooms") /\ req'.todo = req.rooms
    BY <1>8 DEF Fwd!AcquireImages, ReqShape, ReqFields
  <2>. QED
    BY <1>1, <2>1 DEF ReqShape
<1>9. CASE Fwd!NoTempScope
  BY <1>1, <1>2, <1>9 DEF Fwd!NoTempScope, Fwd!Fail
<1>. QED
  BY <1>4, <1>5, <1>6, <1>7, <1>8, <1>9

LEMMA ForwardStep ==
    ASSUME ReqShape(req), Fwd!Forward
    PROVE  ReqShape(req') /\ req'.answer # "complete" /\ UNCHANGED <<ledger, full, forgotten>>
<1>1. CASE UNCHANGED req
  BY <1>1 DEF Fwd!Forward, Fwd!At, Fwd!Delivered, ReqShape
<1>2. CASE ~UNCHANGED req
  <2>1. PICK links \in SeqOf(Links, MaxLinks), rooms \in SeqOf(Rooms \cup {"unresolved"}, MaxMentions) :
          /\ links # <<>> /\ rooms # <<>> /\ "unresolved" \notin ToSet(rooms)
          /\ req' = [Fwd!Idle EXCEPT !.pc = "health", !.links = links, !.rooms = rooms]
    BY <1>2 DEF Fwd!Forward, Fwd!SeqOf, Fwd!ToSet, SeqOf, ToSet
  <2>2. links \in Seq(Links) /\ rooms \in Seq(Rooms)
    <3>1. PICK m \in 0..MaxLinks : links \in [1..m -> Links]
      BY DEF SeqOf
    <3>2. PICK n \in 0..MaxMentions : rooms \in [1..n -> Rooms \cup {"unresolved"}]
      BY DEF SeqOf
    <3>3. \A i \in 1..n : rooms[i] \in Rooms
      BY <2>1, <3>2 DEF ToSet
    <3>4. rooms \in [1..n -> Rooms] /\ m \in Nat /\ n \in Nat
      BY <3>1, <3>2, <3>3
    <3>. QED
      BY <3>1, <3>4, SeqDef
  <2>. QED
    BY <2>1, <2>2, HealthShape DEF Fwd!Forward, Fwd!Delivered
<1>. QED
  BY <1>1, <1>2

\* The cut to the cap keeps rows.
LEMMA LatestKeeps ==
    ASSUME NEW rows \in Seq(Links)
    PROVE  Fwd!Latest(rows) \in Seq(Links) /\ ToSet(Fwd!Latest(rows)) \subseteq ToSet(rows)
<1>. DEFINE n == FORWARD_LEDGER_MAX_PER_ROOM
            cut == SubSeq(rows, Len(rows) - n + 1, Len(rows))
<1>1. n \in Nat /\ Len(rows) \in Nat /\ DOMAIN rows = 1..Len(rows)
  BY LinkAssumption, LenProperties
<1>2. CASE Len(rows) > n
  <2>1. Fwd!Latest(rows) = cut
    BY <1>2 DEF Fwd!Latest
  <2>2. \A k \in (Len(rows) - n + 1)..Len(rows) : k \in 1..Len(rows) /\ rows[k] \in Links
    BY <1>1, <1>2
  <2>3. cut \in Seq(Links) /\ DOMAIN cut = 1..n /\ \A k \in 1..n : cut[k] = rows[Len(rows) - n + k]
    BY <1>1, <1>2, <2>2, SubSeqProperties
  <2>4. \A k \in 1..n : Len(rows) - n + k \in DOMAIN rows
    BY <1>1, <1>2
  <2>. HIDE DEF cut
  <2>. QED
    BY <2>1, <2>3, <2>4 DEF ToSet
<1>3. CASE ~(Len(rows) > n)
  BY <1>3 DEF Fwd!Latest
<1>. QED
  BY <1>2, <1>3

\* A row is in the ledger, as one likes to say it.
LEMMA InRows ==
    ASSUME NEW rows \in Seq(Links), NEW l
    PROVE  Contains(rows, l) <=> l \in ToSet(rows)
BY LenProperties DEF Contains, ToSet

\* A marked row, first or last, is kept or forgotten, and so is every other.
LEMMA RowsStep ==
    ASSUME LedgerShape, NEW r \in Rooms, NEW rows \in Seq(Links),
           NEW l \in Links, NEW k \in Links,
           k = l \/ Contains(ledger[r], k), ToSet(rows) = ToSet(ledger[r]) \cup {l}
    PROVE  Contains(Fwd!Latest(rows), k) \/ Fwd!Forget(r, rows)[<<r, k>>] = forgotten[<<r, k>>] + 1
<1>1. k \in ToSet(rows)
  <2>1. ledger[r] \in Seq(Links)
    BY DEF LedgerShape
  <2>. QED
    BY <2>1, InRows
<1>2. CASE k \in ToSet(Fwd!Latest(rows))
  BY <1>2, LatestKeeps, InRows
<1>3. CASE k \notin ToSet(Fwd!Latest(rows))
  BY <1>1, <1>3 DEF Fwd!Forget, Fwd!ToSet, ToSet
<1>. QED
  BY <1>2, <1>3

\* A row is cut out of the others.
LEMMA CutRow ==
    ASSUME NEW s \in Seq(Links), NEW i \in 1..Len(s)
    PROVE  Fwd!RemoveAt(s, i) \in Seq(Links) /\ ToSet(Fwd!RemoveAt(s, i)) \cup {s[i]} = ToSet(s)
<1>. DEFINE L == Len(s)
            j == i + 1
            h == i - 1
            a == SubSeq(s, 1, h)
            b == SubSeq(s, j, L)
            c == a \o b
<1>1. L \in Nat /\ DOMAIN s = 1..L /\ \A n \in 1..L : s[n] \in Links
  BY LenProperties
<1>2. i \in Nat /\ i >= 1 /\ i <= L /\ h \in Nat /\ j \in Nat /\ h + 1 = i /\ j = i + 1
  BY <1>1
<1>3. Fwd!RemoveAt(s, i) = c
  BY DEF Fwd!RemoveAt
<1>. HIDE DEF L, h, j
<1>4. a \in Seq(Links) /\ Len(a) = h /\ \A n \in 1..h : a[n] = s[n]
  <2>1. \A n \in 1..h : s[n] \in Links
    BY <1>1, <1>2
  <2>2. /\ a \in Seq(Links) /\ Len(a) = IF 1 <= h THEN h - 1 + 1 ELSE 0
        /\ \A n \in 1..(h - 1 + 1) : a[n] = s[1 + n - 1]
    BY <1>2, <2>1, SubSeqProperties
  <2>. HIDE DEF a
  <2>. QED
    BY <1>2, <2>2
<1>5. b \in Seq(Links) /\ Len(b) = L - i /\ \A n \in 1..(L - i) : b[n] = s[i + n]
  <2>1. \A n \in j..L : s[n] \in Links
    BY <1>1, <1>2
  <2>2. /\ b \in Seq(Links) /\ Len(b) = IF j <= L THEN L - j + 1 ELSE 0
        /\ \A n \in 1..(L - j + 1) : b[n] = s[j + n - 1]
    BY <1>1, <1>2, <2>1, SubSeqProperties
  <2>. HIDE DEF b
  <2>. QED
    BY <1>1, <1>2, <2>2
<1>. HIDE DEF a, b
<1>6. c \in Seq(Links) /\ Len(c) = L - 1 /\ DOMAIN c = 1..(L - 1)
  <2>1. c \in Seq(Links) /\ Len(c) = Len(a) + Len(b)
    BY <1>4, <1>5, ConcatProperties
  <2>2. Len(c) = L - 1
    BY <1>1, <1>2, <1>4, <1>5, <2>1
  <2>. HIDE DEF c
  <2>. QED
    BY <2>1, <2>2, LenProperties
<1>7. ASSUME NEW n \in 1..(L - 1), n < i PROVE c[n] = s[n]
  <2>1. n \in 1..Len(a)
    BY <1>1, <1>2, <1>4, <1>7
  <2>2. c[n] = a[n]
    BY <1>4, <1>5, <2>1
  <2>. QED
    BY <1>4, <2>1, <2>2
<1>8. ASSUME NEW n \in 1..(L - 1), ~(n < i) PROVE c[n] = s[n + 1]
  <2>1. n \in (Len(a) + 1)..(Len(a) + Len(b)) /\ n - Len(a) \in 1..(L - i) /\ i + (n - Len(a)) = n + 1
    BY <1>1, <1>2, <1>4, <1>5, <1>8
  <2>2. c[n] = b[n - Len(a)]
    BY <1>4, <1>5, <2>1
  <2>. QED
    BY <1>5, <2>1, <2>2
<1>. HIDE DEF c
<1>9. ASSUME NEW n \in 1..(L - 1) PROVE c[n] \in ToSet(s)
  <2>1. n \in DOMAIN s /\ n + 1 \in DOMAIN s
    BY <1>1
  <2>. QED
    BY <1>7, <1>8, <2>1 DEF ToSet
<1>10. ASSUME NEW n \in 1..L, n # i PROVE s[n] \in ToSet(c)
  <2>1. CASE n < i
    <3>1. n \in 1..(L - 1)
      BY <1>1, <1>2, <2>1
    <3>. QED
      BY <1>6, <1>7, <2>1, <3>1 DEF ToSet
  <2>2. CASE n > i
    <3>1. n - 1 \in 1..(L - 1) /\ ~(n - 1 < i) /\ (n - 1) + 1 = n
      BY <1>1, <1>2, <2>2
    <3>2. c[n - 1] = s[n]
      BY <1>8, <3>1
    <3>. QED
      BY <1>6, <3>1, <3>2 DEF ToSet
  <2>3. n < i \/ n > i
    BY <1>1, <1>2, <1>10
  <2>. QED
    BY <2>1, <2>2, <2>3
<1>11. ToSet(c) \subseteq ToSet(s) /\ s[i] \in ToSet(s)
  BY <1>1, <1>2, <1>6, <1>9 DEF ToSet
<1>12. ToSet(s) \subseteq ToSet(c) \cup {s[i]}
  BY <1>1, <1>10 DEF ToSet
<1>. QED
  BY <1>3, <1>6, <1>11, <1>12

\* The rows beside the marked one.
LEMMA OtherRows ==
    ASSUME LedgerShape, NEW r \in Rooms, NEW l \in Links, l = Fwd!Link
    PROVE  Fwd!Others(r) \in Seq(Links) /\ ToSet(Fwd!Others(r)) \cup {l} = ToSet(ledger[r]) \cup {l}
<1>1. ledger[r] \in Seq(Links)
  BY DEF LedgerShape
<1>2. CASE ~Contains(ledger[r], l)
  <2>1. Fwd!Others(r) = ledger[r]
    BY <1>2 DEF Fwd!Others, Fwd!Known, Fwd!Contains, Contains
  <2>. QED
    BY <1>1, <2>1
<1>3. CASE Contains(ledger[r], l)
  <2>1. PICK i \in 1..Len(ledger[r]) : ledger[r][i] = l /\ Fwd!Others(r) = Fwd!RemoveAt(ledger[r], i)
    BY <1>3 DEF Fwd!Others, Fwd!Known, Fwd!Contains, Contains
  <2>2. /\ Fwd!RemoveAt(ledger[r], i) \in Seq(Links)
        /\ ToSet(Fwd!RemoveAt(ledger[r], i)) \cup {l} = ToSet(ledger[r])
    BY <1>1, <2>1, CutRow
  <2>. QED
    BY <2>1, <2>2
<1>. QED
  BY <1>2, <1>3

LEMMA NewRows ==
    ASSUME NEW rows \in Seq(Links), NEW l \in Links
    PROVE  /\ Append(rows, l) \in Seq(Links) /\ ToSet(Append(rows, l)) = ToSet(rows) \cup {l}
           /\ <<l>> \o rows \in Seq(Links) /\ ToSet(<<l>> \o rows) = ToSet(rows) \cup {l}
<1>1. Len(rows) \in Nat /\ DOMAIN rows = 1..Len(rows)
  BY LenProperties
<1>2. /\ Append(rows, l) \in Seq(Links) /\ DOMAIN Append(rows, l) = 1..(Len(rows) + 1)
      /\ Append(rows, l)[Len(rows) + 1] = l
      /\ \A i \in 1..Len(rows) : Append(rows, l)[i] = rows[i]
  OBVIOUS
<1>3. /\ <<l>> \o rows \in Seq(Links) /\ DOMAIN (<<l>> \o rows) = 1..(Len(rows) + 1)
      /\ (<<l>> \o rows)[1] = l
      /\ \A i \in 2..(Len(rows) + 1) : (<<l>> \o rows)[i] = rows[i - 1]
  OBVIOUS
<1>4. 1..(Len(rows) + 1) = (1..Len(rows)) \cup {Len(rows) + 1}
  BY <1>1
<1>5. ToSet(Append(rows, l)) = ToSet(rows) \cup {l}
  <2>. DEFINE q == Append(rows, l)
  <2>1. ToSet(q) = {q[i] : i \in DOMAIN q} /\ ToSet(rows) = {rows[i] : i \in DOMAIN rows}
    BY DEF ToSet
  <2>. HIDE DEF q
  <2>. QED
    BY <1>1, <1>2, <1>4, <2>1 DEF q
<1>6. ToSet(<<l>> \o rows) = ToSet(rows) \cup {l}
  <2>. DEFINE q == <<l>> \o rows
  <2>1. ToSet(q) = {q[i] : i \in DOMAIN q} /\ ToSet(rows) = {rows[i] : i \in DOMAIN rows}
    BY DEF ToSet
  <2>2. DOMAIN q = 1..(Len(rows) + 1) /\ q[1] = l /\ \A i \in 2..(Len(rows) + 1) : q[i] = rows[i - 1]
    BY <1>3
  <2>. HIDE DEF q
  <2>3. \A x \in ToSet(q) : x \in ToSet(rows) \cup {l}
    <3>1. SUFFICES ASSUME NEW i \in 1..(Len(rows) + 1) PROVE q[i] \in ToSet(rows) \cup {l}
      BY <2>1, <2>2
    <3>2. i = 1 \/ (i \in 2..(Len(rows) + 1) /\ i - 1 \in 1..Len(rows))
      BY <1>1
    <3>. QED
      BY <1>1, <2>1, <2>2, <3>2
  <2>4. \A x \in ToSet(rows) \cup {l} : x \in ToSet(q)
    <3>1. l \in ToSet(q)
      BY <1>1, <2>1, <2>2
    <3>2. ASSUME NEW i \in 1..Len(rows) PROVE rows[i] \in ToSet(q)
      <4>1. i + 1 \in 2..(Len(rows) + 1) /\ i + 1 \in 1..(Len(rows) + 1) /\ (i + 1) - 1 = i
        BY <1>1
      <4>2. q[i + 1] = rows[i]
        BY <2>2, <4>1
      <4>. QED
        BY <2>1, <2>2, <4>1, <4>2
    <3>. QED
      BY <1>1, <2>1, <3>1, <3>2
  <2>5. ToSet(q) = ToSet(rows) \cup {l}
    BY <2>3, <2>4
  <2>. QED
    BY <2>5 DEF q
<1>. QED
  BY <1>2, <1>3, <1>5, <1>6

LEMMA RequestHead ==
    ASSUME ReqShape(req), req.pc \in {"rooms", "answer"}
    PROVE  Head(req.todo) \in Rooms /\ Fwd!Link \in Links
BY HeadTailProperties DEF ReqShape, Fwd!Link

\* Nothing was to be recorded and nothing is.
LEMMA NothingWaits ==
    ASSUME LedgerShape, LedgerInv, UNCHANGED <<ledger, full, forgotten>>, req.answer # "complete"
    PROVE  LedgerShape' /\ LedgerInv'
<1>1. \A r \in Rooms, l \in Links : ~Waits(r, l)
  BY DEF Waits
<1>2. \A r \in Rooms, l \in Links : full[<<r, l>>] \in Nat /\ forgotten[<<r, l>>] \in Nat
  BY DEF LedgerShape
<1>. QED
  BY <1>1, <1>2 DEF LedgerInv, LedgerShape

\* What arrives whole is one more, and so is every error behind it.
LEMMA Arrived ==
    ASSUME LedgerShape, NEW r \in Rooms, NEW whole \in BOOLEAN, NEW unconfirmed \in BOOLEAN,
           Fwd!Link \in Links, Fwd!Arrives(r, whole), Fwd!Missing(r, unconfirmed)
    PROVE  /\ full' \in [Rooms \X Links -> Nat] /\ forgotten' \in [Rooms \X Links -> Nat]
           /\ \A s \in Rooms, k \in Links : ~(s = r /\ k = Fwd!Link) =>
                  full'[<<s, k>>] = full[<<s, k>>] /\ forgotten'[<<s, k>>] = forgotten[<<s, k>>]
           /\ full'[<<r, Fwd!Link>>] = full[<<r, Fwd!Link>>] + (IF whole THEN 1 ELSE 0)
           /\ forgotten'[<<r, Fwd!Link>>] = forgotten[<<r, Fwd!Link>>]
                 + (IF Contains(ledger[r], Fwd!Link) THEN 1 ELSE 0) + (IF unconfirmed THEN 1 ELSE 0)
<1>. DEFINE l == Fwd!Link
            known == Contains(ledger[r], l)
            n == (IF known THEN 1 ELSE 0) + (IF unconfirmed THEN 1 ELSE 0)
<1>1. /\ full' = IF whole THEN [full EXCEPT ![<<r, l>>] = @ + 1] ELSE full
      /\ forgotten' = [forgotten EXCEPT ![<<r, l>>] = @ + n]
  BY DEF Fwd!Arrives, Fwd!Missing, Fwd!Known, Fwd!Contains, Contains
<1>2. n \in Nat
  OBVIOUS
<1>. HIDE DEF l, n
<1>3. l \in Links
  BY DEF l
<1>4. /\ full' \in [Rooms \X Links -> Nat] /\ forgotten' \in [Rooms \X Links -> Nat]
      /\ \A s \in Rooms, k \in Links : ~(s = r /\ k = l) =>
             full'[<<s, k>>] = full[<<s, k>>] /\ forgotten'[<<s, k>>] = forgotten[<<s, k>>]
      /\ full'[<<r, l>>] = full[<<r, l>>] + (IF whole THEN 1 ELSE 0)
      /\ forgotten'[<<r, l>>] = forgotten[<<r, l>>] + n
  <2>. DEFINE x == <<r, l>>
              pairs == Rooms \X Links
  <2>1. x \in pairs /\ full \in [pairs -> Nat] /\ forgotten \in [pairs -> Nat]
    BY <1>3 DEF LedgerShape
  <2>2. \A s \in Rooms, k \in Links : <<s, k>> \in pairs /\ (~(s = r /\ k = l) => <<s, k>> # x)
    OBVIOUS
  <2>3. full' = (IF whole THEN [full EXCEPT ![x] = @ + 1] ELSE full) /\ forgotten' = [forgotten EXCEPT ![x] = @ + n]
    BY <1>1
  <2>. HIDE DEF x, pairs
  <2>4. /\ forgotten' \in [pairs -> Nat] /\ forgotten'[x] = forgotten[x] + n
        /\ \A y \in pairs : y # x => forgotten'[y] = forgotten[y]
    BY <1>2, <2>1, <2>3
  <2>5. /\ full' \in [pairs -> Nat] /\ full'[x] = full[x] + (IF whole THEN 1 ELSE 0)
        /\ \A y \in pairs : y # x => full'[y] = full[y]
    <3>1. CASE whole
      BY <2>1, <2>3, <3>1
    <3>2. CASE ~whole
      BY <2>1, <2>3, <3>2
    <3>. QED
      BY <3>1, <3>2
  <2>6. \A s \in Rooms, k \in Links : ~(s = r /\ k = l) =>
             full'[<<s, k>>] = full[<<s, k>>] /\ forgotten'[<<s, k>>] = forgotten[<<s, k>>]
    BY <2>2, <2>4, <2>5
  <2>. QED
    BY <2>4, <2>5, <2>6 DEF x, pairs
<1>5. forgotten[<<r, l>>] \in Nat
  BY <1>3 DEF LedgerShape
<1>6. forgotten'[<<r, l>>] = forgotten[<<r, l>>] + (IF known THEN 1 ELSE 0) + (IF unconfirmed THEN 1 ELSE 0)
  BY <1>4, <1>5 DEF n
<1>. QED
  BY <1>4, <1>6 DEF l

\* What is sent was not known or not found, and waits to be recorded when it is
\* confirmed.
LEMMA LinkSent ==
    ASSUME ReqShape(req), LedgerShape, LedgerInv, Fwd!Send \/ Fwd!NotSent
    PROVE  ReqShape(req') /\ LedgerShape' /\ LedgerInv'
<1>. DEFINE r == Head(req.todo)
            l == Fwd!Link
<1>1. req.pc = "rooms" /\ UNCHANGED ledger /\ req.answer # "complete"
  BY DEF Fwd!Send, Fwd!NotSent, Fwd!At, ReqShape
<1>2. r \in Rooms /\ l \in Links
  BY <1>1, RequestHead
<1>3. PICK whole \in BOOLEAN, complete \in BOOLEAN :
        /\ complete => whole
        /\ Fwd!Arrives(r, whole) /\ Fwd!Missing(r, whole /\ ~complete)
        /\ ReqShape(req') /\ (req'.answer = "complete" <=> complete)
        /\ complete => Head(req'.todo) = r /\ Fwd!Link' = l
  <2>1. CASE Fwd!NotSent
    <3>1. PICK whole \in BOOLEAN : Fwd!Arrives(r, whole) /\ Fwd!Missing(r, whole) /\ req' = Fwd!RoomDone
      BY <2>1 DEF Fwd!NotSent, Fwd!Advance
    <3>2. ReqShape(req') /\ req'.answer # "complete"
      BY <1>1, <3>1, RoomDoneShape
    <3>3. Fwd!Missing(r, whole /\ ~FALSE)
      <4>1. (whole /\ ~FALSE) = whole
        OBVIOUS
      <4>. QED
        BY <3>1, <4>1
    <3>. QED
      BY <3>1, <3>2, <3>3
  <2>2. CASE Fwd!Send
    <3>1. PICK whole \in BOOLEAN, complete \in BOOLEAN :
            /\ complete => whole
            /\ Fwd!Arrives(r, whole) /\ Fwd!Missing(r, whole /\ ~complete)
            /\ DOMAIN req' = ReqFields /\ req'.pc = "answer"
            /\ req'.links = req.links /\ req'.rooms = req.rooms /\ req'.todo = req.todo
            /\ req'.answer = IF complete THEN "complete" ELSE "short"
      BY <2>2 DEF Fwd!Send, ReqShape, ReqFields
    <3>2. ReqShape(req') /\ (req'.answer = "complete" <=> complete)
      BY <1>1, <3>1 DEF ReqShape
    <3>. QED
      BY <3>1, <3>2 DEF Fwd!Link
  <2>. QED
    BY <2>1, <2>2
<1>. DEFINE unconfirmed == whole /\ ~complete
<1>4. unconfirmed \in BOOLEAN
  OBVIOUS
<1>5. /\ full' \in [Rooms \X Links -> Nat] /\ forgotten' \in [Rooms \X Links -> Nat]
      /\ \A s \in Rooms, k \in Links : ~(s = r /\ k = l) =>
             full'[<<s, k>>] = full[<<s, k>>] /\ forgotten'[<<s, k>>] = forgotten[<<s, k>>]
      /\ full'[<<r, l>>] = full[<<r, l>>] + (IF whole THEN 1 ELSE 0)
      /\ forgotten'[<<r, l>>] = forgotten[<<r, l>>]
            + (IF Contains(ledger[r], l) THEN 1 ELSE 0) + (IF unconfirmed THEN 1 ELSE 0)
  BY <1>2, <1>3, <1>4, Arrived
<1>. HIDE DEF r, l
<1>6. ASSUME NEW s \in Rooms, NEW k \in Links
      PROVE  full'[<<s, k>>] <= forgotten'[<<s, k>>]
                 + (IF Contains(ledger[s], k) \/ Waits(s, k)' THEN 1 ELSE 0)
  <2>1. full[<<s, k>>] \in Nat /\ forgotten[<<s, k>>] \in Nat
    BY DEF LedgerShape
  <2>2. full[<<s, k>>] <= forgotten[<<s, k>>] + (IF Contains(ledger[s], k) THEN 1 ELSE 0)
    BY <1>1 DEF LedgerInv, Waits
  <2>3. CASE s = r /\ k = l
    <3>. DEFINE known == Contains(ledger[s], k)
                waits == Waits(s, k)'
    <3>1. /\ full'[<<s, k>>] = full[<<s, k>>] + (IF whole THEN 1 ELSE 0)
          /\ forgotten'[<<s, k>>] = forgotten[<<s, k>>]
                + (IF known THEN 1 ELSE 0) + (IF unconfirmed THEN 1 ELSE 0)
      <4>1. full'[<<s, k>>] = full[<<s, k>>] + (IF whole THEN 1 ELSE 0)
        BY <1>5, <2>3
      <4>2. forgotten'[<<r, l>>] = forgotten[<<r, l>>]
                + (IF Contains(ledger[r], l) THEN 1 ELSE 0) + (IF unconfirmed THEN 1 ELSE 0)
        BY <1>5
      <4>3. forgotten'[<<s, k>>] = forgotten[<<s, k>>]
                + (IF known THEN 1 ELSE 0) + (IF unconfirmed THEN 1 ELSE 0)
        <5>. HIDE DEF unconfirmed
        <5>. QED
          BY <2>3, <4>2, Zenon
      <4>. QED
        BY <4>1, <4>3
    <3>2. waits <=> complete
      <4>1. (req'.answer = "complete" <=> complete) /\ (complete => Head(req'.todo) = s /\ Fwd!Link' = k)
        BY <1>3, <2>3
      <4>. QED
        BY <4>1 DEF Waits
    <3>3. full[<<s, k>>] <= forgotten[<<s, k>>] + (IF known THEN 1 ELSE 0)
      BY <2>2
    <3>4. unconfirmed <=> whole /\ ~waits
      BY <3>2
    <3>. HIDE DEF known, waits, unconfirmed
    <3>5. full'[<<s, k>>] <= forgotten'[<<s, k>>] + (IF known \/ waits THEN 1 ELSE 0)
      <4>1. CASE whole /\ waits
        BY <2>1, <3>1, <3>3, <3>4, <4>1
      <4>2. CASE whole /\ ~waits
        BY <2>1, <3>1, <3>3, <3>4, <4>2
      <4>3. CASE ~whole
        BY <2>1, <3>1, <3>3, <3>4, <4>3
      <4>. QED
        BY <4>1, <4>2, <4>3
    <3>. QED
      BY <3>5 DEF known, waits
  <2>4. CASE ~(s = r /\ k = l)
    <3>1. full'[<<s, k>>] = full[<<s, k>>] /\ forgotten'[<<s, k>>] = forgotten[<<s, k>>]
      BY <1>5, <2>4
    <3>. QED
      BY <2>1, <2>2, <3>1
  <2>. QED
    BY <2>3, <2>4
<1>. QED
  BY <1>1, <1>3, <1>5, <1>6 DEF LedgerInv, LedgerShape

\* A delivery that waited is in the ledger, or counted as forgotten.
LEMMA Recorded ==
    ASSUME LedgerShape, LedgerInv, LedgerShape', UNCHANGED full, req'.answer # "complete",
           NEW r \in Rooms, NEW l \in Links,
           \A s \in Rooms, k \in Links : Waits(s, k) => s = r /\ k = l,
           \A s \in Rooms, k \in Links :
              \/ forgotten'[<<s, k>>] = forgotten[<<s, k>>] + 1
              \/ /\ forgotten'[<<s, k>>] = forgotten[<<s, k>>]
                 /\ Contains(ledger[s], k) \/ (s = r /\ k = l) => Contains(ledger'[s], k)
    PROVE  LedgerInv'
<1>1. ASSUME NEW s \in Rooms, NEW k \in Links
      PROVE  full[<<s, k>>] <= forgotten'[<<s, k>>] + (IF Contains(ledger'[s], k) THEN 1 ELSE 0)
  <2>1. full[<<s, k>>] \in Nat /\ forgotten[<<s, k>>] \in Nat
    BY DEF LedgerShape
  <2>2. full[<<s, k>>] <= forgotten[<<s, k>>] + (IF Contains(ledger[s], k) \/ Waits(s, k) THEN 1 ELSE 0)
    BY DEF LedgerInv
  <2>. QED
    BY <2>1, <2>2
<1>2. \A s \in Rooms, k \in Links : ~Waits(s, k)'
  BY DEF Waits
<1>. QED
  BY <1>1, <1>2 DEF LedgerInv

LEMMA LinkRecorded ==
    ASSUME ReqShape(req), LedgerShape, LedgerInv, Fwd!Record
    PROVE  ReqShape(req') /\ LedgerShape' /\ LedgerInv'
<1>. DEFINE r == Head(req.todo)
            l == Fwd!Link
            newest == Append(Fwd!Others(r), l)
            oldest == <<l>> \o Fwd!Others(r)
<1>1. req.pc = "answer" /\ req' = Fwd!RoomDone /\ UNCHANGED full
  BY DEF Fwd!Record, Fwd!At, Fwd!Advance
<1>2. ReqShape(req') /\ req'.answer # "complete"
  BY <1>1, RoomDoneShape
<1>3. r \in Rooms /\ l \in Links /\ ledger[r] \in Seq(Links)
  BY <1>1, RequestHead DEF LedgerShape
<1>4. \A s \in Rooms, k \in Links : Waits(s, k) => s = r /\ k = l
  BY DEF Waits
<1>5. CASE UNCHANGED <<ledger, forgotten>> /\ req.answer # "complete"
  BY <1>1, <1>2, <1>5, NothingWaits
<1>6. ASSUME NEW rows \in Seq(Links), NEW kept \in Seq(Links), ToSet(rows) = ToSet(ledger[r]) \cup {l},
             ledger' = [ledger EXCEPT ![r] = kept],
             \/ kept = Fwd!Latest(rows) /\ forgotten' = Fwd!Forget(r, rows)
             \/ kept = rows /\ UNCHANGED forgotten
      PROVE  LedgerShape' /\ LedgerInv'
  <2>. HIDE DEF r, l
  <2>1. LedgerShape'
    <3>1. ledger' \in [Rooms -> Seq(Links)]
      BY <1>3, <1>6 DEF LedgerShape
    <3>2. forgotten' \in [Rooms \X Links -> Nat]
      <4>1. forgotten \in [Rooms \X Links -> Nat]
        BY DEF LedgerShape
      <4>2. CASE forgotten' = Fwd!Forget(r, rows)
        <5>1. \A y \in Rooms \X Links : forgotten[y] + 1 \in Nat /\ forgotten[y] + 0 \in Nat
          BY <4>1
        <5>. QED
          BY <4>2, <5>1 DEF Fwd!Forget
      <4>. QED
        BY <1>6, <4>1, <4>2
    <3>. QED
      BY <1>1, <3>1, <3>2 DEF LedgerShape
  <2>2. ASSUME NEW s \in Rooms, NEW k \in Links
        PROVE  \/ forgotten'[<<s, k>>] = forgotten[<<s, k>>] + 1
               \/ /\ forgotten'[<<s, k>>] = forgotten[<<s, k>>]
                  /\ Contains(ledger[s], k) \/ (s = r /\ k = l) => Contains(ledger'[s], k)
    <3>1. \/ forgotten'[<<s, k>>] = forgotten[<<s, k>>] + 1
          \/ forgotten'[<<s, k>>] = forgotten[<<s, k>>]
      <4>1. forgotten[<<s, k>>] \in Nat
        BY DEF LedgerShape
      <4>2. CASE forgotten' = Fwd!Forget(r, rows)
        BY <4>1, <4>2 DEF Fwd!Forget
      <4>. QED
        BY <1>6, <4>2
    <3>2. CASE s # r
      BY <1>6, <3>1, <3>2 DEF LedgerShape
    <3>3. CASE s = r /\ (Contains(ledger[s], k) \/ k = l)
      <4>1. ledger'[r] = kept
        BY <1>3, <1>6 DEF LedgerShape
      <4>2. CASE kept = rows
        <5>1. k \in ToSet(rows)
          BY <1>3, <1>6, <3>3, InRows
        <5>. QED
          BY <1>6, <3>1, <3>3, <4>1, <4>2, <5>1, InRows
      <4>3. CASE kept = Fwd!Latest(rows) /\ forgotten' = Fwd!Forget(r, rows)
        BY <1>3, <1>6, <3>1, <3>3, <4>1, <4>3, RowsStep
      <4>. QED
        BY <1>6, <4>2, <4>3
    <3>. QED
      BY <3>1, <3>2, <3>3
  <2>. QED
    BY <1>1, <1>2, <1>3, <1>4, <2>1, <2>2, Recorded
<1>7. CASE UNCHANGED ledger /\ forgotten' = [forgotten EXCEPT ![<<r, l>>] = @ + 1]
  <2>. HIDE DEF r, l
  <2>1. LedgerShape'
    BY <1>1, <1>3, <1>7 DEF LedgerShape
  <2>2. ASSUME NEW s \in Rooms, NEW k \in Links
        PROVE  IF s = r /\ k = l THEN forgotten'[<<s, k>>] = forgotten[<<s, k>>] + 1
                                 ELSE forgotten'[<<s, k>>] = forgotten[<<s, k>>]
    BY <1>3, <1>7 DEF LedgerShape
  <2>. QED
    BY <1>1, <1>2, <1>3, <1>4, <1>7, <2>1, <2>2, Recorded
<1>8. \/ UNCHANGED <<ledger, forgotten>> /\ req.answer # "complete"
      \/ ledger' = [ledger EXCEPT ![r] = Fwd!Latest(newest)] /\ forgotten' = Fwd!Forget(r, newest)
      \/ ledger' = [ledger EXCEPT ![r] = Fwd!Latest(oldest)] /\ forgotten' = Fwd!Forget(r, oldest)
      \/ ledger' = [ledger EXCEPT ![r] = newest] /\ UNCHANGED forgotten
      \/ UNCHANGED ledger /\ forgotten' = [forgotten EXCEPT ![<<r, l>>] = @ + 1]
  BY DEF Fwd!Record, Fwd!Keep, Fwd!MarkIfComplete
<1>9. /\ newest \in Seq(Links) /\ ToSet(newest) = ToSet(ledger[r]) \cup {l}
      /\ oldest \in Seq(Links) /\ ToSet(oldest) = ToSet(ledger[r]) \cup {l}
  <2>1. Fwd!Others(r) \in Seq(Links) /\ ToSet(Fwd!Others(r)) \cup {l} = ToSet(ledger[r]) \cup {l}
    BY <1>3, OtherRows
  <2>. HIDE DEF l
  <2>. QED
    BY <1>3, <2>1, NewRows
<1>. HIDE DEF newest, oldest
<1>10. Fwd!Latest(newest) \in Seq(Links) /\ Fwd!Latest(oldest) \in Seq(Links)
  BY <1>9, LatestKeeps
<1>. QED
  BY <1>2, <1>5, <1>6, <1>7, <1>8, <1>9, <1>10

LEMMA LinkLost ==
    ASSUME ReqShape(req), LedgerShape, LedgerInv, Fwd!Restart
    PROVE  ReqShape(req') /\ LedgerShape' /\ LedgerInv'
<1>. DEFINE r == Head(req.todo)
            l == Fwd!Link
<1>1. /\ req' = Fwd!Idle /\ UNCHANGED <<ledger, full>>
      /\ forgotten' = IF req.answer = "complete" THEN [forgotten EXCEPT ![<<r, l>>] = @ + 1]
                      ELSE forgotten
  BY DEF Fwd!Restart
<1>2. ReqShape(req') /\ req'.answer # "complete"
  BY <1>1, IdleShape
<1>3. CASE req.answer # "complete"
  BY <1>1, <1>2, <1>3, NothingWaits
<1>4. CASE req.answer = "complete"
  <2>1. r \in Rooms /\ l \in Links
    BY <1>4, RequestHead DEF ReqShape
  <2>2. \A s \in Rooms, k \in Links : Waits(s, k) => s = r /\ k = l
    BY DEF Waits
  <2>. HIDE DEF r, l
  <2>3. LedgerShape'
    BY <1>1, <1>4, <2>1 DEF LedgerShape
  <2>4. ASSUME NEW s \in Rooms, NEW k \in Links
        PROVE  IF s = r /\ k = l THEN forgotten'[<<s, k>>] = forgotten[<<s, k>>] + 1
                                 ELSE forgotten'[<<s, k>>] = forgotten[<<s, k>>]
    BY <1>1, <1>4, <2>1 DEF LedgerShape
  <2>. QED
    BY <1>1, <1>2, <2>1, <2>2, <2>3, <2>4, Recorded
<1>. QED
  BY <1>3, <1>4

LEMMA LinkStep ==
    ASSUME ReqShape(req), LedgerShape, LedgerInv, [Fwd!Next]_Fwd!vars
    PROVE  ReqShape(req') /\ LedgerShape' /\ LedgerInv'
<1>1. CASE Fwd!Forward
  <2>1. req.answer # "complete"
    BY <1>1 DEF Fwd!Forward, Fwd!At, ReqShape
  <2>. QED
    BY <1>1, <2>1, ForwardStep, NothingWaits
<1>2. CASE Fwd!HealthCheck \/ Fwd!AsideCollect \/ Fwd!FallbackCollect \/ Fwd!CheckDeadline \/ Fwd!AcquireImages
             \/ Fwd!NoTempScope
  <2>1. req.pc \in {"health", "aside", "fallback", "collected", "images"}
    BY <1>2 DEF Fwd!HealthCheck, Fwd!AsideCollect, Fwd!FallbackCollect, Fwd!CheckDeadline, Fwd!AcquireImages,
               Fwd!NoTempScope, Fwd!At
  <2>2. req.answer # "complete"
    BY <2>1 DEF ReqShape
  <2>. QED
    BY <1>2, <2>1, <2>2, CollectStep, NothingWaits
<1>3. CASE Fwd!AlreadyDelivered
  <2>1. req.pc = "rooms" /\ req' = Fwd!RoomDone /\ UNCHANGED <<ledger, full, forgotten>>
    BY <1>3 DEF Fwd!AlreadyDelivered, Fwd!At, Fwd!Advance, Fwd!Delivered
  <2>2. req.answer # "complete"
    BY <2>1 DEF ReqShape
  <2>. QED
    BY <2>1, <2>2, RoomDoneShape, NothingWaits
<1>4. CASE UNCHANGED Fwd!vars
  <2>1. UNCHANGED <<req, ledger, full, forgotten>>
    BY <1>4 DEF Fwd!vars
  <2>2. \A r \in Rooms, l \in Links : Waits(r, l)' <=> Waits(r, l)
    BY <2>1 DEF Waits, Fwd!Link
  <2>. QED
    BY <2>1, <2>2 DEF LedgerShape, LedgerInv
<1>. QED
  BY <1>1, <1>2, <1>3, <1>4, LinkSent, LinkRecorded, LinkLost DEF Fwd!Next, Fwd!Step

LinkInv == ReqShape(req) /\ LedgerShape /\ LedgerInv

LEMMA LinkInit == Fwd!Init => LinkInv
<1>. SUFFICES ASSUME Fwd!Init PROVE LinkInv
  OBVIOUS
<1>1. LedgerShape
  BY EmptySeq DEF Fwd!Init, LedgerShape
<1>2. LedgerInv
  BY DEF Fwd!Init, LedgerInv
<1>. QED
  BY <1>1, <1>2, IdleShape DEF Fwd!Init, LinkInv

LEMMA LinkInvStep == LinkInv /\ [Fwd!Next]_Fwd!vars => LinkInv'
  BY LinkStep DEF LinkInv

(* A link is completely delivered to a room at most once, and once more for  *)
(* each time the ledger lost it or dropped it for newer ones.                *)
THEOREM LinksOncePerRoom == Fwd!Spec => []OncePerRoom
<1>1. LinkInv => OncePerRoom
  <2>. SUFFICES ASSUME LedgerShape, LedgerInv, NEW r \in Rooms, NEW l \in Links
                PROVE  full[<<r, l>>] <= 1 + forgotten[<<r, l>>]
    BY DEF LinkInv, OncePerRoom
  <2>1. full[<<r, l>>] \in Nat /\ forgotten[<<r, l>>] \in Nat
    BY DEF LedgerShape
  <2>. QED
    BY <2>1 DEF LedgerInv
<1>. QED
  BY <1>1, LinkInit, LinkInvStep, PTL DEF Fwd!Spec

\* What is in the ledger of a room, or waits to be, was delivered there whole.
LedgerTrue ==
    /\ LedgerIsTrue
    /\ \A r \in Rooms, l \in Links : Waits(r, l) => full[<<r, l>>] >= 1

LEMMA FullGrows ==
    ASSUME LinkInv, [Fwd!Next]_Fwd!vars
    PROVE  \A r \in Rooms, l \in Links : full'[<<r, l>>] >= full[<<r, l>>]
<1>1. CASE UNCHANGED full
  BY <1>1 DEF LinkInv, LedgerShape
<1>2. CASE Fwd!Send \/ Fwd!NotSent
  <2>1. PICK whole \in BOOLEAN : Fwd!Arrives(Head(req.todo), whole)
    BY <1>2 DEF Fwd!Send, Fwd!NotSent
  <2>2. full' = full \/ full' = [full EXCEPT ![<<Head(req.todo), Fwd!Link>>] = @ + 1]
    BY <2>1 DEF Fwd!Arrives
  <2>3. \A y \in Rooms \X Links : full[y] \in Nat
    BY DEF LinkInv, LedgerShape
  <2>4. \A y \in Rooms \X Links : full'[y] = full[y] \/ full'[y] = full[y] + 1
    BY <2>2 DEF LinkInv, LedgerShape
  <2>. QED
    BY <2>3, <2>4
<1>. QED
  BY <1>1, <1>2 DEF Fwd!Next, Fwd!Step, Fwd!Forward, Fwd!HealthCheck, Fwd!AsideCollect, Fwd!FallbackCollect,
       Fwd!CheckDeadline, Fwd!AcquireImages, Fwd!AlreadyDelivered, Fwd!Record, Fwd!NoTempScope, Fwd!Restart,
       Fwd!Delivered, Fwd!vars

\* Only a mark writes to the ledger, and only of what waits to be recorded.
LEMMA LedgerGrows ==
    ASSUME LinkInv, [Fwd!Next]_Fwd!vars
    PROVE  \A r \in Rooms, l \in Links :
              Contains(ledger'[r], l) => Contains(ledger[r], l) \/ Waits(r, l)
<1>1. ReqShape(req) /\ LedgerShape
  BY DEF LinkInv
<1>2. CASE UNCHANGED ledger
  BY <1>2
<1>3. CASE Fwd!Record /\ ~UNCHANGED ledger
  <2>. DEFINE r == Head(req.todo)
              l == Fwd!Link
              newest == Append(Fwd!Others(r), l)
              oldest == <<l>> \o Fwd!Others(r)
  <2>1. /\ req.pc = "answer" /\ req.answer = "complete"
        /\ \/ ledger' = [ledger EXCEPT ![r] = Fwd!Latest(newest)]
           \/ ledger' = [ledger EXCEPT ![r] = Fwd!Latest(oldest)]
           \/ ledger' = [ledger EXCEPT ![r] = newest]
    BY <1>3 DEF Fwd!Record, Fwd!At, Fwd!Keep, Fwd!MarkIfComplete
  <2>2. r \in Rooms /\ l \in Links /\ ledger[r] \in Seq(Links)
    BY <1>1, <2>1, RequestHead DEF LedgerShape
  <2>3. /\ newest \in Seq(Links) /\ ToSet(newest) = ToSet(ledger[r]) \cup {l}
        /\ oldest \in Seq(Links) /\ ToSet(oldest) = ToSet(ledger[r]) \cup {l}
    <3>1. Fwd!Others(r) \in Seq(Links) /\ ToSet(Fwd!Others(r)) \cup {l} = ToSet(ledger[r]) \cup {l}
      BY <1>1, <2>2, OtherRows
    <3>. HIDE DEF l
    <3>. QED
      BY <2>2, <3>1, NewRows
  <2>4. Waits(r, l)
    BY <2>1 DEF Waits
  <2>. HIDE DEF r, l, newest, oldest
  <2>5. ASSUME NEW rows \in Seq(Links), ToSet(rows) \subseteq ToSet(ledger[r]) \cup {l},
               ledger' = [ledger EXCEPT ![r] = rows],
               NEW s \in Rooms, NEW k \in Links, Contains(ledger'[s], k)
        PROVE  Contains(ledger[s], k) \/ Waits(s, k)
    <3>1. CASE s # r
      BY <1>1, <2>5, <3>1 DEF LedgerShape
    <3>2. CASE s = r
      <4>1. k \in ToSet(rows)
        BY <1>1, <2>2, <2>5, <3>2, InRows DEF LedgerShape
      <4>2. k \in ToSet(ledger[r]) \/ k = l
        BY <2>5, <4>1
      <4>. QED
        BY <2>2, <2>4, <3>2, <4>2, InRows
    <3>. QED
      BY <3>1, <3>2
  <2>6. \A rows \in {newest, oldest} :
            /\ Fwd!Latest(rows) \in Seq(Links) /\ ToSet(Fwd!Latest(rows)) \subseteq ToSet(ledger[r]) \cup {l}
    BY <2>3, LatestKeeps
  <2>. QED
    BY <2>1, <2>3, <2>5, <2>6
<1>. QED
  BY <1>2, <1>3 DEF Fwd!Next, Fwd!Step, Fwd!Forward, Fwd!HealthCheck, Fwd!AsideCollect, Fwd!FallbackCollect,
       Fwd!CheckDeadline, Fwd!AcquireImages, Fwd!AlreadyDelivered, Fwd!NotSent, Fwd!Send, Fwd!NoTempScope,
       Fwd!Restart, Fwd!Delivered, Fwd!vars

\* What waits after a step waited before, or has just arrived whole.
LEMMA WaitsWhole ==
    ASSUME LinkInv, LedgerTrue, [Fwd!Next]_Fwd!vars, NEW r \in Rooms, NEW l \in Links, Waits(r, l)'
    PROVE  full'[<<r, l>>] >= 1
<1>1. /\ ReqShape(req) /\ LedgerShape
      /\ full'[<<r, l>>] >= full[<<r, l>>] /\ full[<<r, l>>] \in Nat /\ full'[<<r, l>>] \in Nat
  BY FullGrows, LinkInvStep DEF LinkInv, LedgerShape
<1>2. req'.answer = "complete" /\ Head(req'.todo) = r /\ Fwd!Link' = l
  BY DEF Waits
<1>3. CASE UNCHANGED req
  <2>1. Waits(r, l)
    BY <1>2, <1>3 DEF Waits, Fwd!Link
  <2>2. full[<<r, l>>] >= 1
    BY <2>1 DEF LedgerTrue
  <2>. QED
    BY <1>1, <2>2
<1>4. CASE Fwd!Send
  <2>1. PICK whole \in BOOLEAN, complete \in BOOLEAN :
          /\ complete => whole
          /\ Fwd!Arrives(Head(req.todo), whole)
          /\ req'.links = req.links /\ req'.todo = req.todo
          /\ req'.answer = IF complete THEN "complete" ELSE "short"
    BY <1>1, <1>4 DEF Fwd!Send, ReqShape, ReqFields
  <2>2. whole /\ Head(req.todo) = r /\ Fwd!Link = l
    BY <1>2, <2>1 DEF Fwd!Link
  <2>3. full'[<<r, l>>] = full[<<r, l>>] + 1
    BY <1>1, <2>1, <2>2 DEF Fwd!Arrives, LedgerShape
  <2>. QED
    BY <1>1, <2>3
<1>5. CASE Fwd!Restart
  BY <1>2, <1>5, IdleShape DEF Fwd!Restart
<1>6. CASE Fwd!NotSent \/ Fwd!AlreadyDelivered \/ Fwd!Record
  BY <1>1, <1>2, <1>6, RoomDoneShape DEF Fwd!NotSent, Fwd!AlreadyDelivered, Fwd!Record, Fwd!Advance, Fwd!At
<1>7. CASE Fwd!Forward
  BY <1>1, <1>2, <1>7, ForwardStep
<1>8. CASE Fwd!HealthCheck \/ Fwd!AsideCollect \/ Fwd!FallbackCollect \/ Fwd!CheckDeadline \/ Fwd!AcquireImages
             \/ Fwd!NoTempScope
  <2>1. req.pc \in {"health", "aside", "fallback", "collected", "images"}
    BY <1>8 DEF Fwd!HealthCheck, Fwd!AsideCollect, Fwd!FallbackCollect, Fwd!CheckDeadline, Fwd!AcquireImages,
               Fwd!NoTempScope, Fwd!At
  <2>. QED
    BY <1>1, <1>2, <1>8, <2>1, CollectStep
<1>. QED
  BY <1>3, <1>4, <1>5, <1>6, <1>7, <1>8 DEF Fwd!Next, Fwd!Step, Fwd!vars

LEMMA TrueStep ==
    ASSUME LinkInv, LedgerTrue, [Fwd!Next]_Fwd!vars
    PROVE  LedgerTrue'
<1>1. LedgerShape /\ LedgerShape'
  BY LinkInvStep DEF LinkInv
<1>2. ASSUME NEW r \in Rooms, NEW l \in Links, \E i \in DOMAIN ledger'[r] : ledger'[r][i] = l
      PROVE  full'[<<r, l>>] >= 1
  <2>1. Contains(ledger'[r], l)
    <3>1. ledger'[r] \in Seq(Links)
      BY <1>1 DEF LedgerShape
    <3>. QED
      BY <1>2, <3>1, LenProperties DEF Contains
  <2>2. Contains(ledger[r], l) \/ Waits(r, l)
    BY <2>1, LedgerGrows
  <2>3. full[<<r, l>>] >= 1
    <3>1. ledger[r] \in Seq(Links)
      BY <1>1 DEF LedgerShape
    <3>. QED
      BY <2>2, <3>1, LenProperties DEF LedgerTrue, LedgerIsTrue, Contains
  <2>4. full'[<<r, l>>] >= full[<<r, l>>] /\ full[<<r, l>>] \in Nat /\ full'[<<r, l>>] \in Nat
    BY <1>1, FullGrows DEF LedgerShape
  <2>. QED
    BY <2>3, <2>4
<1>. QED
  BY <1>2, WaitsWhole DEF LedgerTrue, LedgerIsTrue

LEMMA TrueInit == Fwd!Init => LedgerTrue
<1>. SUFFICES ASSUME Fwd!Init PROVE LedgerTrue
  OBVIOUS
<1>1. req.answer = "none" /\ \A r \in Rooms : DOMAIN ledger[r] = {}
  BY IdleShape DEF Fwd!Init
<1>. QED
  BY <1>1 DEF LedgerTrue, LedgerIsTrue, Waits

(* A link is in the ledger of a room only when it was delivered there whole. *)
THEOREM LedgerAlwaysTrue == Fwd!Spec => []LedgerIsTrue
<1>1. LedgerTrue => LedgerIsTrue
  BY DEF LedgerTrue
<1>. QED
  BY <1>1, TrueInit, LinkInit, LinkInvStep, TrueStep, PTL DEF Fwd!Spec
=============================================================================
