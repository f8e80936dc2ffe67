------------------------------- MODULE EventBus -------------------------------
(***************************************************************************)
(* The broadcast channel of AppState, the stream of GET /events, and the   *)
(* overview page that listens to it.  Events carry nothing that the page   *)
(* looks at: each makes it load everything again, a little later.  The     *)
(* page stays connected here; what it misses while it reconnects is left   *)
(* out.                                                                    *)
(***************************************************************************)
EXTENDS Naturals

CONSTANTS
    Capacity,    \* events that the channel keeps
    StormLimit   \* events in two seconds at which the page stops listening

ASSUME CapacityAssumption == Capacity \in Nat \ {0}
ASSUME StormAssumption == StormLimit \in Nat \ {0}

VARIABLES
    backlog,     \* events the page has not received, Capacity + 1 for more
                 \* than the channel keeps
    page         \* whether it listens, whether it is about to load, how many
                 \* events it saw lately, and what it shows: whether something
                 \* changed since it loaded, and whether that was announced

Page ==
    [live : BOOLEAN, timer : BOOLEAN, recent : 0..StormLimit - 1,
     behind : BOOLEAN, untold : BOOLEAN]

FreshPage ==
    [live |-> TRUE, timer |-> FALSE, recent |-> 0, behind |-> FALSE, untold |-> FALSE]

\* No page is open, or it has stopped listening.
ClosedPage == [FreshPage EXCEPT !.live = FALSE]

\* Mutant: the channel keeps whatever is sent.
EmitUncounted(n) ==
    /\ backlog' = IF page.live THEN backlog + n ELSE backlog
    /\ page' = [page EXCEPT !.untold = FALSE]

\* emit_event, n times.
Emit(n) ==
    IF ~page.live THEN UNCHANGED <<backlog, page>>
    ELSE /\ backlog' = IF backlog + n > Capacity THEN Capacity + 1 ELSE backlog + n
         /\ page' = [page EXCEPT !.untold = FALSE]

\* Something that the page shows changes; a request that fails afterwards
\* announces nothing.
Changed(told) ==
    /\ page' = IF ~page.live THEN page
               ELSE [page EXCEPT !.behind = TRUE, !.untold = @ \/ ~told]
    /\ UNCHANGED backlog

\* handleServerEvent
HandleEvent ==
    LET recent == page.recent + 1
    IN  IF recent = StormLimit
        THEN page' = ClosedPage
        ELSE page' = [page EXCEPT !.timer = TRUE, !.recent = recent]

\* Mutant: a receiver that lags subscribes again, from the next event on.
ReceiveOrResubscribe ==
    /\ page.live
    /\ backlog > 0
    /\ IF backlog > Capacity THEN backlog' = 0 /\ UNCHANGED page
       ELSE backlog' = backlog - 1 /\ HandleEvent

\* The next event, or the news that some are gone, which the stream drops;
\* the receiver goes on with the oldest that is left.
Receive ==
    /\ page.live
    /\ backlog > 0
    /\ backlog' = backlog - 1
    /\ IF backlog > Capacity THEN UNCHANGED page ELSE HandleEvent

\* flushRefresh: the page loads what there is now.
Refresh ==
    /\ page.timer
    /\ page' = [page EXCEPT !.timer = FALSE, !.behind = FALSE]
    /\ UNCHANGED backlog

\* Two seconds without an event.
Calm ==
    /\ page.live
    /\ page.recent > 0
    /\ page' = [page EXCEPT !.recent = 0]
    /\ UNCHANGED backlog

Listen == Receive \/ Refresh \/ Calm
=============================================================================
