----------------------------- MODULE MCChannels -----------------------------
(***************************************************************************)
(* Four small components for TLC: the message field of a window, the news  *)
(* feed, link forwarding and the model server.  They share no state: a     *)
(* behaviour is one of one component, the others rest.                     *)
(***************************************************************************)
EXTENDS Composer, ModelServer, NewsPosts, LinkDeliveries, TLC

CONSTANTS
    MaxLinks, MaxMentions,
    HEALTH_TIMEOUT, ASIDE_COLLECT_TIMEOUT, Durations, MaxRequests,
    MaxTogether   \* swaps asked for, servers started and, beside two servers, faults

VARIABLES channel, requests

composerVars == <<composer, send, presses, allowed, sends, harm>>
newsVars == <<cursor, feed, slot, poster, posts, mishaps>>
forwardVars == <<req, ledger, requests, full, forgotten>>
swapVars == <<server, loading, record, launch, residency, selection, marker, swap, call, asked>>
channelsVars == <<channel, composerVars, newsVars, forwardVars, swapVars, faults>>

News == INSTANCE GeekNews
Forwarder == INSTANCE LinkForward
Swapper == INSTANCE ModelSwap

Started == Cardinality({p \in DOMAIN launch : launch[p].pc # "off"})
Together == Cardinality({s \in Swaps : swap[s].pc # "off"}) + Started
          + (IF Started > 1 THEN faults ELSE 0) <= MaxTogether

ChannelsInit ==
    /\ channel \in {"composer", "news", "forward", "swap"}
    /\ Init /\ News!Init /\ Forwarder!Init /\ Swapper!Init

ChannelsNext ==
    /\ channel' = channel
    /\ \/ channel = "composer" /\ Next /\ UNCHANGED <<newsVars, forwardVars, swapVars>>
       \/ channel = "news" /\ News!Next /\ UNCHANGED <<composerVars, forwardVars, swapVars, faults>>
       \/ channel = "forward" /\ Forwarder!Next /\ UNCHANGED <<composerVars, newsVars, swapVars>>
       \/ channel = "swap" /\ Swapper!Next /\ Together' /\ UNCHANGED <<composerVars, newsVars, forwardVars>>

ChannelsSpec == ChannelsInit /\ [][ChannelsNext]_channelsVars

Symmetry == Permutations(Swaps)
=============================================================================
