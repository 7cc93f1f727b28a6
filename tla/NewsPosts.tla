----------------------------- MODULE NewsPosts -----------------------------
(***************************************************************************)
(* The news feed of a room as src/src/geeknews keeps it, and what its      *)
(* posts promise.  GeekNews is how they are made.                          *)
(***************************************************************************)
EXTENDS Integers, Sequences, FiniteSets

CONSTANTS
    Posters,     \* processes that run run_geeknews_post
    MaxItem,     \* topic ids are 1..MaxItem
    MaxSlot,     \* slots come in the order 1..MaxSlot
    MAX_ITEMS, SEEN_CAP, SLOTS_CAP,
    FeedLength   \* entries the feed shows

(* The limits of the code are positive (5 items, 200 ids, 32 slots).       *)
ASSUME NewsAssumption ==
    /\ {MaxItem, MaxSlot, FeedLength} \subseteq Nat
    /\ {MAX_ITEMS, SEEN_CAP, SLOTS_CAP} \subseteq Nat \ {0}

VARIABLES
    cursor,   \* the stored dedup cursor
    feed,     \* the feed: topic ids, the first shown first
    slot,     \* the last slot that opened, and whether its window is open
    poster,   \* what a poster has read and is about to do
    posts,    \* history: the posts that reached the room
    mishaps   \* failures after the send, and overlaps, so far

-----------------------------------------------------------------------------
(* What must hold *)

(* A slot is posted once, and once more for every send that is unconfirmed,  *)
(* cursor that is not stored, or attempt that overlaps another.              *)
SlotPostedOnce ==
    Cardinality({n \in DOMAIN posts : \E m \in 1..(n - 1) : posts[m].slot = posts[n].slot}) <= mishaps

(* An item comes again, without a fault, only when at least SEEN_CAP newer   *)
(* items were posted: the seen ids that are cut are the oldest, and old      *)
(* entries that the feed shows again are not mistaken for fresh ones.        *)
ItemPostedOnce ==
    mishaps = 0 => \A n \in DOMAIN posts :
        LET before == UNION {posts[m].ids : m \in 1..(n - 1)}
        IN  \A i \in posts[n].ids \cap before :
                Cardinality({j \in before : j > i}) >= SEEN_CAP
=============================================================================
