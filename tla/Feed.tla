-------------------------------- MODULE Feed --------------------------------
(***************************************************************************)
(* What a terminal connected to the event stream (GET /ws) is promised:    *)
(* the events it receives are a contiguous run of the events the relay     *)
(* published, in publication order, without a repetition, and starting     *)
(* with the first event published after it joined.  Nothing says how many  *)
(* of them it receives: a terminal that cannot keep up is cut off.         *)
(*                                                                         *)
(* The hub of internal/websocket implements this specification; see the    *)
(* module WebsocketHub.                                                    *)
(***************************************************************************)
EXTENDS Integers, Sequences

CONSTANTS
    Clients,    \* the terminal connections
    Message     \* the events and snapshots that can be published

VARIABLES
    log,        \* every message published so far, in order
    joined,     \* joined[c]: the length of the log when c joined, or -1
    delivered   \* delivered[c]: the messages handed to c's connection

feedVars == <<log, joined, delivered>>

FeedInit ==
    /\ log = <<>>
    /\ joined = [c \in Clients |-> -1]
    /\ delivered = [c \in Clients |-> <<>>]

Publish ==
    /\ \E m \in Message : log' = Append(log, m)
    /\ UNCHANGED <<joined, delivered>>

Join(c) ==
    /\ joined[c] = -1
    /\ joined' = [joined EXCEPT ![c] = Len(log)]
    /\ UNCHANGED <<log, delivered>>

\* The next message of the log after those c already has.
NextFor(c) == joined[c] + Len(delivered[c]) + 1

Deliver(c) ==
    /\ joined[c] >= 0
    /\ NextFor(c) <= Len(log)
    /\ delivered' = [delivered EXCEPT ![c] = Append(@, log[NextFor(c)])]
    /\ UNCHANGED <<log, joined>>

FeedNext ==
    \/ Publish
    \/ \E c \in Clients : Join(c) \/ Deliver(c)

FeedSpec == FeedInit /\ [][FeedNext]_feedVars

=============================================================================
