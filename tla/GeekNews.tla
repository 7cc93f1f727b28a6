------------------------------ MODULE GeekNews ------------------------------
(***************************************************************************)
(* The posts of the news feed (src/src/geeknews): at most one per slot, of *)
(* items not posted before, the cursor written only after a confirmed      *)
(* send.  A poster loads the cursor, reads the feed, sends and stores; it  *)
(* may fail between any two of these, and another poster may run           *)
(* meanwhile.                                                              *)
(***************************************************************************)
EXTENDS NewsPosts, FiniteSetsExt, SequencesExt

CONSTANT MaxFaults   \* bound of the mishaps

Items == 1..MaxItem
Slots == 1..MaxSlot
Cursor == [seen : SUBSET Items, slots : Seq(Slots), newest : 0..MaxItem]
NoCursor == [seen |-> {}, slots |-> <<>>, newest |-> 0]
NoPost == [pc |-> "idle", cursor |-> NoCursor, slot |-> 0, ids |-> {}, newest |-> 0]

vars == <<cursor, feed, slot, poster, posts, mishaps>>

TypeOK ==
    /\ cursor \in Cursor /\ Cardinality(cursor.seen) <= SEEN_CAP /\ Len(cursor.slots) <= SLOTS_CAP
    /\ feed \in Seq(Items) /\ Len(feed) <= FeedLength
    /\ slot \in [last : 0..MaxSlot, open : BOOLEAN]
    /\ \A p \in Posters : /\ poster[p].pc \in {"idle", "fetch", "send", "store"}
                          /\ poster[p].cursor \in Cursor
    /\ \A n \in DOMAIN posts : posts[n].slot \in Slots /\ posts[n].ids \subseteq Items
    /\ mishaps \in 0..MaxFaults

Init ==
    /\ cursor = NoCursor
    /\ feed = <<>>
    /\ slot = [last |-> 0, open |-> FALSE]
    /\ poster = [p \in Posters |-> NoPost]
    /\ posts = <<>>
    /\ mishaps = 0

-----------------------------------------------------------------------------
(* Time and the feed *)

OpenSlot ==
    /\ ~slot.open /\ slot.last < MaxSlot
    /\ slot' = [last |-> slot.last + 1, open |-> TRUE]
    /\ UNCHANGED <<cursor, feed, poster, posts, mishaps>>

CloseSlot ==
    /\ slot.open
    /\ slot' = [slot EXCEPT !.open = FALSE]
    /\ UNCHANGED <<cursor, feed, poster, posts, mishaps>>

\* The feed shows an entry at the top, a new one or an older one again.
Publish(i) ==
    /\ i \notin Range(feed)
    /\ i <= 1 + Max({0} \cup Range(feed) \cup cursor.seen)
    /\ feed' = SubSeq(<<i>> \o feed, 1, IF Len(feed) < FeedLength THEN Len(feed) + 1 ELSE FeedLength)
    /\ UNCHANGED <<cursor, slot, poster, posts, mishaps>>

-----------------------------------------------------------------------------
(* One attempt *)

SeenAll(c, ids) == c.seen \cup ids

Least(n, s) == {i \in s : Cardinality({j \in s : j < i}) < n}
\* The most recent ids, which are the largest.
Newest(n, s) == {i \in s : Cardinality({j \in s : j > i}) < n}
LastOf(n, q) == IF Len(q) > n THEN SubSeq(q, Len(q) - n + 1, Len(q)) ELSE q

CommittedUnslotted(c, ids, newest, s) ==
    [seen |-> Newest(SEEN_CAP, SeenAll(c, ids)), slots |-> c.slots,
     newest |-> Max({c.newest, newest} \cup ids)]

\* The cursor after a post.
Committed(c, ids, newest, s) ==
    [seen |-> Newest(SEEN_CAP, SeenAll(c, ids)),
     slots |-> LastOf(SLOTS_CAP, IF s \in Range(c.slots) THEN c.slots ELSE Append(c.slots, s)),
     newest |-> Max({c.newest, newest} \cup ids)]

At(p, pc) == poster[p].pc = pc
GiveUp(p) == poster' = [poster EXCEPT ![p] = NoPost]

\* The cursor is loaded and the slot gate passed; an attempt outside a slot, or
\* in a posted one, ends at once.
Start(p) ==
    /\ At(p, "idle")
    /\ slot.open
    /\ slot.last \notin Range(cursor.slots)
    /\ LET overlaps == \E q \in Posters : poster[q].pc # "idle"
       IN  /\ overlaps => mishaps < MaxFaults
           /\ mishaps' = IF overlaps THEN mishaps + 1 ELSE mishaps
    /\ poster' = [poster EXCEPT ![p] = [NoPost EXCEPT !.pc = "fetch", !.cursor = cursor,
                                                      !.slot = slot.last]]
    /\ UNCHANGED <<cursor, feed, slot, posts>>

\* The places of the feed that show an unseen item.
Fresh(c, f) == {n \in DOMAIN f : f[n] \notin c.seen}

\* The feed is read and its first fresh items are taken; without any there is
\* nothing to post.
Fetch(p) ==
    /\ At(p, "fetch")
    /\ LET fresh == Fresh(poster[p].cursor, feed)
       IN  IF fresh = {} THEN GiveUp(p)
           ELSE poster' = [poster EXCEPT
                              ![p] = [@ EXCEPT !.pc = "send",
                                               !.ids = {feed[n] : n \in Least(MAX_ITEMS, fresh)},
                                               !.newest = Max(Range(feed))]]
    /\ UNCHANGED <<cursor, feed, slot, posts, mishaps>>

FetchFails(p) ==
    /\ At(p, "fetch")
    /\ GiveUp(p)
    /\ UNCHANGED <<cursor, feed, slot, posts, mishaps>>

Posted(p) == posts' = Append(posts, [slot |-> poster[p].slot, ids |-> poster[p].ids])

Send(p) ==
    /\ At(p, "send")
    /\ Posted(p)
    /\ poster' = [poster EXCEPT ![p].pc = "store"]
    /\ UNCHANGED <<cursor, feed, slot, mishaps>>

\* The send is not confirmed; the post may have reached the room all the same.
SendFails(p) ==
    /\ At(p, "send")
    /\ GiveUp(p)
    /\ \/ UNCHANGED <<posts, mishaps>>
       \/ Posted(p) /\ mishaps < MaxFaults /\ mishaps' = mishaps + 1
    /\ UNCHANGED <<cursor, feed, slot>>

Store(p) ==
    /\ At(p, "store")
    /\ cursor' = Committed(poster[p].cursor, poster[p].ids, poster[p].newest, poster[p].slot)
    /\ GiveUp(p)
    /\ UNCHANGED <<feed, slot, posts, mishaps>>

\* The store fails, or the process ends, after the confirmed send.
StoreFails(p) ==
    /\ At(p, "store")
    /\ mishaps < MaxFaults /\ mishaps' = mishaps + 1
    /\ GiveUp(p)
    /\ UNCHANGED <<cursor, feed, slot, posts>>

Attempt(p) ==
    Start(p) \/ Fetch(p) \/ FetchFails(p) \/ Send(p) \/ SendFails(p) \/ Store(p) \/ StoreFails(p)

Next ==
    \/ OpenSlot \/ CloseSlot
    \/ \E i \in Items : Publish(i)
    \/ \E p \in Posters : Attempt(p)

Spec == Init /\ [][Next]_vars
=============================================================================
