--------------------------- MODULE LinkDeliveries ---------------------------
(***************************************************************************)
(* The requests to forward links as src/src/forward and its collector keep *)
(* them, and what they promise.  LinkForward is how they are served.       *)
(***************************************************************************)
EXTENDS Integers

CONSTANTS
    Links,                  \* canonical link keys
    Rooms,                  \* rooms a mention may resolve to
    FORWARD_LEDGER_MAX_PER_ROOM,
    COLLECT_DEADLINE, FORWARD_DEADLINE

ASSUME LinkAssumption == FORWARD_LEDGER_MAX_PER_ROOM \in Nat \ {0}

VARIABLES
    req,       \* the request in hand: the link, the rooms left, its clock
    ledger,    \* forward_ledger by room, the most recent last
    full,      \* history: complete deliveries of a link to a room
    forgotten  \* history: deliveries the ledger or a lookup in it missed

-----------------------------------------------------------------------------
(* What must hold *)

(* A link is completely delivered to a room at most once (R6.7), and once    *)
(* more for each time the ledger lost or dropped the delivery, a lookup of   *)
(* it failed or its confirmation did not come.                               *)
OncePerRoom == \A k \in Rooms \X Links : full[k] <= 1 + forgotten[k]

(* A link is in the ledger of a room only when it was delivered there whole, *)
(* so that a partial delivery can be tried again (R6.6, R6.14).              *)
LedgerIsTrue ==
    \A r \in Rooms, l \in Links : (\E i \in DOMAIN ledger[r] : ledger[r][i] = l) => full[<<r, l>>] >= 1

(* Stated by forward_one_link: an over-time link performs zero sends.        *)
OverTimeSendsNothing == req.pc = "rooms" => req.t < FORWARD_DEADLINE
=============================================================================
