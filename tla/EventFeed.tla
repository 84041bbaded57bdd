----------------------------- MODULE EventFeed ------------------------------
(***************************************************************************)
(* What storm's live stream promises one client, however it reads, falls   *)
(* behind, loses its connection or meets a restart of the server: the      *)
(* stored frames it asked for, each once and in order, from its place on.  *)
(* When that cannot be kept it is told so, and starts again from a place   *)
(* at or after the one it had.                                             *)
(*                                                                         *)
(* StreamBus implements this module (its property Feed).                   *)
(***************************************************************************)
EXTENDS Naturals

VARIABLES
    head,   \* how many frames the store's events gave so far
    got,    \* how many of them the client is past
    told    \* whether it knows that it lost its place

fvars == <<head, got, told>>

FInit == head = 0 /\ got = 0 /\ told = TRUE

\* Events go on meanwhile, whatever happens to the client.
Grow == head' >= head

Happen == Grow /\ UNCHANGED <<got, told>>

Get == ~told /\ got < head /\ got' = got + 1 /\ UNCHANGED <<head, told>>

Tell == Grow /\ told' = TRUE /\ got' \in got .. head'

Start == told /\ Grow /\ told' = FALSE /\ got' \in got .. head'

FNext == Happen \/ Get \/ Tell \/ Start

FSpec == FInit /\ [][FNext]_fvars

\* Once events, faults and slowness are over, the client has everything.
UpToDate == <>[](~told /\ got = head)

=============================================================================
